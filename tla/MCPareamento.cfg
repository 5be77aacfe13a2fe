SPECIFICATION FairSpec
CONSTANTS
  Rotinas = {r1, r2, r3}
  Ninguem = Ninguem
  Clientes = {1, 2, 3, 4}
  Renovacoes = 2
  MaxPedidos = 1
  MaxPerdas = 1
  MaxFaltas = 1
INVARIANTS
  RenovacoesLimitadas
  ClienteUnico
  ErroDeOrfao
PROPERTIES
  VigiaNaoAtropela
  CodigoMortoResponde
CHECK_DEADLOCK FALSE
