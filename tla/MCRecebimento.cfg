SPECIFICATION FairSpecRecebimento
CONSTANTS
  N = 2
  Vagas = 1
  MaxEventos = 1
  MaxPacotes = 2
  MaxErros = 1
  Intervalo = 2
  maxAnimatedStickerFrames = 16
  maxStickerCanvasPixels = 100
  MaxQuadros = 120
  MaxLado = 110
INVARIANTS
  FolhasCompletas
  TelasPeloTamanho
PROPERTIES
  TodaRecebidaSegue
  VagasVoltam
  SaiDoGrupo
CHECK_DEADLOCK FALSE
