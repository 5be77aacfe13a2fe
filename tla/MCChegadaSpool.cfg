SPECIFICATION Spec
CONSTANTS
  Mensagens = {m1}
  Midias = {m1}
  Vias = {v1}
  Nenhuma = nenhuma
  MaxFila = 2
  MaxHora = 2
  MaxTentativas = 2
  JanelaEntregue = 0
  JanelaFila = 2
  IdadeSpool = 3
  MaxFaltas = 1
  MaxTratadores = 2
  IdadeMidia = 1
  IdadeMaxima = 3
  RetencaoRecebidas = 3
INVARIANTS
  ArquivoEsperaALinha
