SPECIFICATION FairSpec
CONSTANTS
  Chamadores = {c1, c2}
  limite_falhas = 2
  reset_ms = 2
  timeout_sondagem_ms = 1
  max_tentativas = 2
  MaxFaltas = 1
INVARIANTS
  AberturaTemCausa
  SondasEspacadas
PROPERTIES
  TodaChamadaTermina
  Recuperacao
