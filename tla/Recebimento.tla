---------------------------- MODULE Recebimento -----------------------------
(***************************************************************************)
(* The goroutines of the bridge that feed its queue: the event handler,    *)
(* the recovery of the messages sent while no device was linked            *)
(* (src/whatsmeow-bridge/history_recovery.go), the conversions of animated *)
(* stickers (main.go, media_exec.go), and the way out of groups            *)
(* (chat_policy.go).  One private chat, one group.                         *)
(*                                                                         *)
(* enqueueAndDeliver is the set of messages with a row: its statements and *)
(* the post are those of module FilaPonte.  Downloads that fail and come   *)
(* back by another way are in module RetryMidia, whose names this one does *)
(* not use, so that both can be extended together.                         *)
(***************************************************************************)
EXTENDS Figurinhas, FiniteSets, FiniteSetsExt

CONSTANTS
  N,            \* bound: messages the user sends, numbered in that order
  Vagas,        \* maxConcurrentStickerConversions (2)
  MaxEventos,   \* bound: events waiting for the handler
  MaxPacotes,   \* bound: history sync packets
  MaxErros,    \* bound: disk, INSERT and LeaveGroup errors, and restarts
  Intervalo     \* groupLeaveRetry, in ticks (10 min)

ASSUME RecebimentoAssumption ==
  /\ N \in Nat /\ Vagas \in Nat \ {0} /\ Intervalo \in Nat \ {0}
  /\ MaxEventos \in Nat /\ MaxPacotes \in Nat /\ MaxErros \in Nat

Mensagens == 1 .. N

VARIABLES
  animada,     \* which messages are animated stickers
  linha,       \* the chat: messages of the user, 0 for an answer of Amélie
  ligada,      \* a device is linked
  eventos,     \* events whatsmeow has for the handler, oldest first
  pacotes,     \* packets received so far
  espera,      \* recoveries waiting for historyMu, in no order
  dono,        \* messages left to the recovery that holds historyMu
  historySeen, \* messages some recovery has taken
  conversoes,  \* goroutines converting each sticker
  vagas,       \* stickerConversionSlots in use
  enfileiradas, \* messages with a row in webhook_queue
  perdidas,    \* history: messages an error or a restart took
  grupo,       \* the group: are we in it, is a LeaveGroup under way
  desde,       \* ticks since the last attempt, in leaveAttempts; Intervalo: none
  erros        \* what has been spent of MaxErros

recuperacao == <<pacotes, espera, dono, historySeen>>
chat == <<linha, ligada>>
midia == <<conversoes, vagas, enfileiradas, perdidas>>
grupos == <<grupo, desde>>
estado == <<animada, chat, eventos, recuperacao, midia, grupos, erros>>

Mensagem(m) == [tipo |-> "mensagem", texto |-> <<m>>]
Pacote(trecho) == [tipo |-> "pacote", texto |-> trecho]
DoGrupo == [tipo |-> "grupo", texto |-> <<>>]

InitRecebimento ==
  /\ animada \in SUBSET Mensagens
  /\ linha = <<>> /\ ligada = TRUE /\ eventos = <<>>
  /\ pacotes = 0 /\ espera = {} /\ dono = <<>> /\ historySeen = {}
  /\ conversoes = [m \in Mensagens |-> 0] /\ vagas = 0
  /\ enfileiradas = {} /\ perdidas = {}
  /\ grupo = [membro |-> FALSE, saindo |-> FALSE] /\ desde = Intervalo
  /\ erros = 0

---------------------------------------------------------------------------
(* External: the user, WhatsApp and the group.                             *)

Chega(evento) == Len(eventos) < MaxEventos /\ eventos' = Append(eventos, evento)

Enviadas == Cardinality(ToSet(linha) \ {0})

(* What is sent while no device is linked is not delivered later. *)
Enviar ==
  /\ Enviadas < N
  /\ linha' = Append(linha, Enviadas + 1)
  /\ IF ligada THEN Chega(Mensagem(Enviadas + 1)) ELSE UNCHANGED eventos
  /\ UNCHANGED <<animada, ligada, recuperacao, midia, grupos, erros>>

(* Gleam answers a message of the queue. *)
ResponderDaFila ==
  /\ ligada /\ enfileiradas # {} /\ linha # <<>> /\ Last(linha) # 0
  /\ linha' = Append(linha, 0)
  /\ UNCHANGED <<animada, ligada, eventos, recuperacao, midia, grupos, erros>>

(* A logout, and a new pairing. *)
Desvincular ==
  /\ ligada /\ ligada' = FALSE
  /\ UNCHANGED <<animada, linha, eventos, recuperacao, midia, grupos, erros>>
Vincular ==
  /\ ~ligada /\ ligada' = TRUE
  /\ UNCHANGED <<animada, linha, eventos, recuperacao, midia, grupos, erros>>

(* A history sync packet carries a stretch of the chat; stretches overlap. *)
EnviarPacote ==
  /\ ligada /\ pacotes < MaxPacotes
  /\ \E i, j \in DOMAIN linha : i <= j /\ Chega(Pacote(SubSeq(linha, i, j)))
  /\ pacotes' = pacotes + 1
  /\ UNCHANGED <<animada, chat, espera, dono, historySeen, midia, grupos, erros>>

(* Someone adds the number to the group (JoinedGroup). *)
Adicionar ==
  /\ ~grupo.membro /\ Chega(DoGrupo)
  /\ grupo' = [grupo EXCEPT !.membro = TRUE]
  /\ UNCHANGED <<animada, chat, recuperacao, midia, desde, erros>>
EscreverNoGrupo ==
  /\ grupo.membro /\ Chega(DoGrupo)
  /\ UNCHANGED <<animada, chat, recuperacao, midia, grupos, erros>>

(* A LeaveGroup ends within its 10 s, long before a tick. *)
Passar ==
  /\ ~grupo.saindo /\ desde < Intervalo /\ desde' = desde + 1
  /\ UNCHANGED <<animada, chat, eventos, recuperacao, midia, grupo, erros>>

---------------------------------------------------------------------------
Erro == erros < MaxErros /\ erros' = erros + 1

(* attachMediaFile and enqueueAndDeliver: the message is queued, or an     *)
(* error on disk or in the INSERT takes it.                                *)
Enfileirar(m) ==
  \/ enfileiradas' = enfileiradas \cup {m} /\ UNCHANGED <<perdidas, erros>>
  \/ Erro /\ perdidas' = perdidas \cup {m} /\ UNCHANGED enfileiradas

(* tryAcquireStickerSlot: with no slot free a sticker goes on as it is. *)
processMessage(m) ==
  IF m \in animada /\ vagas < Vagas
  THEN /\ vagas' = vagas + 1 /\ conversoes' = [conversoes EXCEPT ![m] = @ + 1]
       /\ UNCHANGED <<enfileiradas, perdidas, erros>>
  ELSE Enfileirar(m) /\ UNCHANGED <<vagas, conversoes>>

(* releaseStickerSlot is deferred; the slip calls it after the queueing,   *)
(* which an error on disk does not reach.                                  *)
releaseStickerSlot_ao_fim == vagas' = IF perdidas' = perdidas THEN vagas - 1 ELSE vagas
releaseStickerSlot == vagas' = vagas - 1

(* deliverAnimatedSticker: as a video, a contact sheet or as it came. *)
deliverAnimatedSticker(m) ==
  /\ conversoes[m] > 0 /\ conversoes' = [conversoes EXCEPT ![m] = @ - 1]
  /\ Enfileirar(m) /\ releaseStickerSlot
  /\ UNCHANGED <<animada, chat, eventos, recuperacao, grupos>>

(* pendingHistoryMessages: what the user sent after Amélie's last answer.  *)
(* Dropping what is over two days old leaves a shorter stretch, which      *)
(* EnviarPacote could have sent.                                           *)
pendingHistoryMessages(trecho) ==
  LET respostas == {i \in DOMAIN trecho : trecho[i] = 0} IN
  IF respostas = {} THEN trecho ELSE SubSeq(trecho, Max(respostas) + 1, Len(trecho))

(* leaveAttempts.shouldAttempt *)
shouldAttempt == desde = Intervalo

(* A slip: an attempt that is refused counts as the last one. *)
leaveGroup_renova ==
  /\ desde' = 0
  /\ grupo' = IF shouldAttempt THEN [grupo EXCEPT !.saindo = TRUE] ELSE grupo
leaveGroup ==
  IF shouldAttempt THEN desde' = 0 /\ grupo' = [grupo EXCEPT !.saindo = TRUE]
  ELSE UNCHANGED grupos

(* handleEvent: one event at a time, in order. *)
handleEvent ==
  /\ eventos # <<>> /\ eventos' = Tail(eventos)
  /\ LET evento == Head(eventos) IN
     \/ /\ evento.tipo = "mensagem" /\ processMessage(evento.texto[1])
        /\ UNCHANGED <<recuperacao, grupos>>
     \/ /\ evento.tipo = "pacote"
        /\ LET pendentes == pendingHistoryMessages(evento.texto) IN
           espera' = IF pendentes = <<>> THEN espera ELSE espera \cup {pendentes}
        /\ UNCHANGED <<pacotes, dono, historySeen, midia, grupos, erros>>
     \/ evento.tipo = "grupo" /\ leaveGroup /\ UNCHANGED <<recuperacao, midia, erros>>
  /\ UNCHANGED <<animada, chat>>

(* recoverHistoryMessages: any waiting recovery may be given the lock. *)
TravarHistorico ==
  /\ dono = <<>>
  /\ \E msgs \in espera : dono' = msgs /\ espera' = espera \ {msgs}
  /\ UNCHANGED <<animada, chat, eventos, pacotes, historySeen, midia, grupos, erros>>

(* A slip: the recovery returns at a message already taken. *)
restantes_ate_repetida ==
  dono' = IF Head(dono) \in historySeen THEN <<>> ELSE Tail(dono)
restantes == dono' = Tail(dono)

RecuperarUma ==
  /\ dono # <<>> /\ restantes
  /\ LET m == Head(dono) IN
     IF m \in historySeen THEN UNCHANGED <<historySeen, midia, erros>>
     ELSE historySeen' = historySeen \cup {m} /\ processMessage(m)
  /\ UNCHANGED <<animada, chat, eventos, pacotes, espera, grupos>>

(* The goroutine of leaveGroup. *)
Sair ==
  /\ grupo.saindo
  /\ \/ grupo' = [membro |-> FALSE, saindo |-> FALSE] /\ UNCHANGED erros
     \/ Erro /\ grupo' = [grupo EXCEPT !.saindo = FALSE]
  /\ UNCHANGED <<animada, chat, eventos, recuperacao, midia, desde>>

(* A restart loses the goroutines and what they had in hand. *)
EmMaos == {m \in Mensagens : conversoes[m] > 0} \cup ToSet(dono)
            \cup UNION {ToSet(msgs) : msgs \in espera}
ReiniciarPonte ==
  /\ Erro
  /\ perdidas' = perdidas \cup (EmMaos \ enfileiradas)
  /\ espera' = {} /\ dono' = <<>> /\ historySeen' = {}
  /\ conversoes' = [m \in Mensagens |-> 0] /\ vagas' = 0
  /\ grupo' = [grupo EXCEPT !.saindo = FALSE] /\ desde' = Intervalo
  /\ UNCHANGED <<animada, chat, eventos, pacotes, enfileiradas>>

NextRecebimento ==
  \/ Enviar \/ ResponderDaFila \/ Desvincular \/ Vincular \/ EnviarPacote
  \/ Adicionar \/ EscreverNoGrupo \/ Passar
  \/ handleEvent \/ TravarHistorico \/ RecuperarUma
  \/ \E m \in Mensagens : deliverAnimatedSticker(m)
  \/ Sair \/ ReiniciarPonte

SpecRecebimento == InitRecebimento /\ [][NextRecebimento]_estado

(* Goroutines run; a conversion and a LeaveGroup have a time limit. *)
FairSpecRecebimento ==
  /\ SpecRecebimento
  /\ WF_estado(handleEvent) /\ WF_estado(TravarHistorico) /\ WF_estado(RecuperarUma)
  /\ \A m \in Mensagens : WF_estado(deliverAnimatedSticker(m))
  /\ WF_estado(Sair) /\ WF_estado(Passar)

---------------------------------------------------------------------------
TypeOKRecebimento ==
  /\ enfileiradas \subseteq Mensagens /\ perdidas \subseteq Mensagens
  /\ conversoes \in [Mensagens -> 0 .. Vagas] /\ vagas \in 0 .. Vagas
  /\ desde \in 0 .. Intervalo /\ erros \in 0 .. MaxErros
  /\ ToSet(dono) \subseteq Mensagens /\ historySeen \subseteq Mensagens

(* Whatever reaches the bridge, live or in a history packet, is queued in  *)
(* the end, or was taken by an error or a restart: packets that repeat     *)
(* each other, recoveries that wait for the lock and stickers that find no *)
(* slot lose nothing.                                                      *)
TodaRecebidaSegue ==
  \A m \in Mensagens :
    Mensagem(m) \in ToSet(eventos) \/ m \in EmMaos ~> m \in enfileiradas \cup perdidas

(* The conversion slots come back, whatever happens to the stickers.       *)
VagasVoltam == []<>(vagas < Vagas)

(* Whatever sticker is being converted: its contact sheet is complete, and *)
(* the decoder takes its canvas exactly when it is small enough.           *)
FolhasCompletas == \A m \in Mensagens : conversoes[m] > 0 => GradeCompleta
TelasPeloTamanho == \A m \in Mensagens : conversoes[m] > 0 => TelaPeloTamanho

(* A group that keeps writing is left in the end, although an attempt may  *)
(* fail and attempts are held apart.                                       *)
SaiDoGrupo ==
  []<>(DoGrupo \in ToSet(eventos)) => (grupo.membro ~> ~grupo.membro)
============================================================================
