SPECIFICATION Spec
CONSTANTS
  max_tokens = 2
  Pesos = {1}
  janela_flood = 0
  limite_msgs_flood = 3
  cooldown_strike1 = 1
  cooldown_strike2 = 2
  quarentena_strike3 = 4
  perdao_strikes = 2
  ttl_inatividade = 3
  limite_diario = 2
  Dia = 4
  MaxAgora = 6
  MaxPerguntas = 2
  MaxLiberacoes = 1
INVARIANTS
  AlertaSilencia
  TetoDiario
CHECK_DEADLOCK FALSE
