SPECIFICATION FairSpec
CONSTANTS
  N = 2
  Tipos = {"texto", "midia", "resumir", "reset", "audio", "video_off"}
  turnos_compactar = 2
  MaxFaltas = 1
INVARIANTS
  MemoriaFica
  ResetEsquece
  UltimoAjusteVence
PROPERTIES
  TodaMensagemTratada
CHECK_DEADLOCK FALSE
