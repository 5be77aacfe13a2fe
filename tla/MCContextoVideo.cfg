SPECIFICATION FairSpec
CONSTANTS
  Atendentes = {a1, a2}
  MaxVideos = 2
  perguntas_followup_video = 2
  validade_contexto_video_s = 1
  MaxFaltas = 1
INVARIANTS
  ContextoTemArquivo
  SobraTemCausa
  RespostasPorVideo
PROPERTIES
  ContextoAcaba
