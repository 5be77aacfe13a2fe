SPECIFICATION FairSpec
CONSTANTS
  Envios = {e1}
  Telegram = {}
  Ninguem = ninguem
  MaxLinhas = 1
  MaxDia = 2
  PrazoEspera = 0
  Retencao = 1
  MaxAvarias = 1
  MaxReinicios = 1
  MaxIncertas = 1
  CodigosPonte = {"whatsapp_disconnected", "session_reset"}
  CodigosRecusa = {"status 400"}
  CodigosPassageiros = {"status 502"}
  tentativas_max = 2
INVARIANTS
  EntregueFoiRecebida
  DescarteTemCausa
  TentativasSaoFalhas
  FalhasLimitadas
  RecebidasLimitadas
PROPERTIES
  FilaEsvazia
  CumpreRegistro
CHECK_DEADLOCK FALSE
