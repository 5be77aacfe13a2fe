SPECIFICATION FairSpec
CONSTANTS
  Mensagens = {m1}
  Midias = {m1}
  Vias = {v1}
  Nenhuma = nenhuma
  MaxFila = 2
  MaxHora = 2
  MaxTentativas = 2
  JanelaEntregue = 0
  JanelaFila = 1
  IdadeSpool = 2
  MaxFaltas = 1
  MaxTratadores = 2
  IdadeMidia = 1
  IdadeMaxima = 1
  RetencaoRecebidas = 1
INVARIANTS
  EntregueFoiAceita
  SoRepeteSobreposta
  SoFaltaMidiaRepetida
PROPERTIES
  TodaLinhaResolve
  AceitaProcessada
