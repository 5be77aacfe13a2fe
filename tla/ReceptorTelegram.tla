-------------------------- MODULE ReceptorTelegram --------------------------
(***************************************************************************)
(* The Telegram poller (src/src/shell/receptor_telegram.gleam) in front of *)
(* the handlers of module Conversa.  The server keeps every update until   *)
(* getUpdates is called with an offset beyond it; the poller hands a batch *)
(* out one update at a time and asks for the next batch right away, so the *)
(* call that confirms a batch does not wait for its handlers.              *)
(***************************************************************************)
EXTENDS Conversa

VARIABLES
  servidor,  \* external: updates the Bot API has, and has been told to drop
  poller     \* loop: where it is, the offset, and the batch in hand

vars == <<conversa, servidor, poller>>

Pedindo(offset) == [pc |-> "pedir", offset |-> offset, prox |-> 1, ate |-> 0]

Init ==
  /\ InitConversa
  /\ servidor = [tem |-> 0, confirmado |-> 0]
  /\ poller = Pedindo(0)

(* The user sends the next message. *)
Chegar ==
  /\ servidor.tem < N
  /\ servidor' = [servidor EXCEPT !.tem = @ + 1]
  /\ UNCHANGED <<conversa, poller>>

(* getUpdates?offset: what lies before the offset is dropped for good. *)
confirmar == servidor' = [servidor EXCEPT
  !.confirmado = IF poller.offset > @ + 1 THEN poller.offset - 1 ELSE @]

obter_updates ==
  /\ poller.pc = "pedir" /\ confirmar
  /\ servidor.tem > servidor'.confirmado
  /\ poller' = [poller EXCEPT
       !.pc = "lote", !.prox = servidor'.confirmado + 1, !.ate = servidor.tem]
  /\ UNCHANGED conversa

(* FalhaPolling, and NovosUpdates([]): the server heard the offset, the    *)
(* poller has nothing to hand out and asks again.                          *)
FalhaPolling ==
  /\ poller.pc = "pedir" /\ confirmar
  /\ UNCHANGED <<conversa, poller>>

(* processar_updates: each update is dispatched, and the offset moves past *)
(* the last one.                                                           *)
processar_updates ==
  /\ poller.pc = "lote"
  /\ \E atrasada \in BOOLEAN : despachar_evento(poller.prox, atrasada)
  /\ poller' = IF poller.prox = poller.ate THEN Pedindo(poller.ate + 1)
               ELSE [poller EXCEPT !.prox = @ + 1]
  /\ UNCHANGED servidor

(* A 409 that names a webhook ends the loop, and nothing starts it again   *)
(* but a restart.                                                          *)
WebhookAtivo ==
  /\ poller.pc = "pedir"
  /\ poller' = [poller EXCEPT !.pc = "fim"]
  /\ UNCHANGED <<conversa, servidor>>

Reiniciar ==
  /\ Derrubar
  /\ poller' = Pedindo(0)
  /\ UNCHANGED servidor

Tratar(m) == Passo(m) /\ UNCHANGED <<servidor, poller>>

Next ==
  \/ Chegar \/ obter_updates \/ FalhaPolling \/ processar_updates \/ WebhookAtivo
  \/ Reiniciar
  \/ \E m \in Mensagens : Tratar(m)
  \/ \E m \in Mensagens : MatarTardia(m) /\ UNCHANGED <<servidor, poller>>

Spec == Init /\ [][Next]_vars

(* The poller asks again after every failure and each handler runs to its  *)
(* end; nothing obliges the user to write, the webhook to go away or the   *)
(* application to restart.                                                 *)
FairSpec == Spec /\ WF_vars(obter_updates) /\ WF_vars(processar_updates)
                 /\ \A m \in Mensagens : WF_vars(Tratar(m))

---------------------------------------------------------------------------
TypeOK ==
  /\ tipo \in [Mensagens -> Tipos] /\ recebidas \subseteq Mensagens
  /\ config.existe \in BOOLEAN
  /\ config.valor \in [campo.reset -> Mensagens \cup {0}]
  /\ \A m \in Mensagens : hdl[m].pc \in {"fora", "inicio", "config", "padrao",
       "historico", "salvar", "limpar", "pergunta", "resposta", "enfileirar",
       "descrever", "descricao", "ler", "compactar", "anotar", "fim", "morta"}
  /\ servidor.confirmado <= servidor.tem /\ poller.offset <= servidor.tem + 1

(* Everything a chat has said stays in its history, word for word or       *)
(* inside a summary, unless a reset erased it, it was written while a      *)
(* summary waited for the AI (resumir_historico clears what it never       *)
(* read), or the summary that replaced it was cleared for and not written. *)
(* A summary written while another one waits goes with all it stands for.  *)
MemoriaFica ==
  memoria.escritos \subseteq
    Lembrados \cup memoria.apagados \cup Cobertos(memoria.janela) \cup
    Cobertos(UNION {hdl[m].deve : m \in Mensagens})

(* What a reset erased comes back neither as a turn nor inside a summary,  *)
(* except out of a summary that had already read it when the reset came.   *)
ResetEsquece == Lembrados \cap memoria.apagados \subseteq memoria.copiados

(* What each field should have: the last command obeyed on it, unless that *)
(* came before the last start and is of a kind that every start undoes.    *)
Vigente ==
  [c \in campo.reset |->
     IF ajustes.ultimo[c] \in ajustes.vencidos THEN 0 ELSE ajustes.ultimo[c]]

(* As long as no two handlers ever held the settings at once and no        *)
(* statement failed, each field has the value of the last command obeyed   *)
(* on it, through restarts, redelivered updates and handlers killed half   *)
(* way: no command is obeyed a second time over a newer one, a default row *)
(* hides no choice, and a start undoes videos switched off and retired     *)
(* models, which config_sqlite.criar overwrites, and nothing else.         *)
UltimoAjusteVence ==
  ~ajustes.cruzados /\ faltas.avarias = 0 => config.valor = Vigente

(* A message was given up: its handler died after the poller confirmed it  *)
(* or after the message was marked, or the late queue killed it.           *)
Perdida(m) ==
  hdl[m].pc = "morta" /\
    (m \in recebidas \/ m <= servidor.confirmado \/ faltas.mortes > 0)

(* Every message the user sends is handled to its end or given up for one  *)
(* of the reasons above, unless the poller left for a webhook.             *)
TodaMensagemTratada ==
  \A m \in Mensagens :
    servidor.tem >= m ~> hdl[m].pc = "fim" \/ Perdida(m) \/ poller.pc = "fim"
============================================================================
