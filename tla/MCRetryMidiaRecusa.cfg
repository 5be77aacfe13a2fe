SPECIFICATION FairSpec
CONSTANTS
  Passagens = {p1, p2}
  MaxCopias = 1
  MaxPedidos = 2
  MaxFaltas = 0
PROPERTIES
  FigurinhaSempreResponde
CHECK_DEADLOCK FALSE
