SPECIFICATION Spec
CONSTANTS
  Envios = {e1}
  Telegram = {}
  Ninguem = ninguem
  MaxLinhas = 1
  MaxDia = 2
  PrazoEspera = 0
  Retencao = 1
  MaxAvarias = 0
  MaxReinicios = 0
  MaxIncertas = 0
  CodigosPonte = {"whatsapp_disconnected", "session_reset"}
  CodigosRecusa = {"status 400"}
  CodigosPassageiros = {"status 502"}
  tentativas_max = 2
PROPERTIES
  FalhaDeSessaoNaoGasta
CHECK_DEADLOCK FALSE
