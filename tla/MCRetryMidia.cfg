SPECIFICATION FairSpec
CONSTANTS
  Passagens = {p1, p2, p3}
  MaxCopias = 2
  MaxPedidos = 4
  MaxFaltas = 1
INVARIANTS
  PerdaTemMotivo
  PendenteTemRelogio
  PedidosLimitados
PROPERTIES
  FigurinhaResponde
CHECK_DEADLOCK FALSE
