------------------------------- MODULE Canal -------------------------------
(***************************************************************************)
(* What stands between the bot and a chat, as far as delivery is           *)
(* concerned: the WhatsApp session the Go bridge holds                     *)
(* (src/whatsmeow-bridge/main.go), the Telegram Bot API, and the answer a  *)
(* send gets.  hist records what really happened to each reply; the code   *)
(* has no such record, only the properties read it.                        *)
(***************************************************************************)
EXTENDS Transacoes

CONSTANTS
  CodigosPonte,      \* codes the bridge answers while it has no usable session
  CodigosRecusa,     \* permanent refusals ("invalid_chat_id", "status 400", ...)
  CodigosPassageiros \* any other failure: timeout, 5xx, bridge unreachable

VARIABLES
  sessao,     \* "ok", or the bridge's current connection error
  hist        \* reply -> what happened to it so far

(* The codes fila_offline knows as "session down", as the source lists them. *)
codigos_sessao ==
  {"whatsapp_logged_out", "whatsapp_session_missing", "whatsapp_disconnected",
   "whatsapp_unauthenticated", "whatsapp_client_unavailable",
   "whatsapp_stream_replaced", "whatsapp_connect_failure",
   "whatsapp_stream_error", "whatsapp_client_outdated",
   "whatsapp_cat_refresh_failed", "whatsapp_temporarily_banned",
   "whatsapp_pair_failed"}

e_erro_sessao(cod) == cod \in codigos_sessao

e_erro_definitivo(cod) ==
  cod \in {"invalid_chat_id", "invalid_json", "chat not found", "bot was blocked",
           "user is deactivated", "status 400", "status 403", "status 404"}

Codigos == {"ok"} \cup CodigosPonte \cup CodigosRecusa \cup CodigosPassageiros

ASSUME CanalAssumption ==
  /\ "ok" \notin CodigosPonte \cup CodigosRecusa \cup CodigosPassageiros
  /\ \A c \in CodigosRecusa : e_erro_definitivo(c) /\ ~e_erro_sessao(c)
  /\ \A c \in CodigosPassageiros : ~e_erro_definitivo(c) /\ ~e_erro_sessao(c)
  /\ \A c \in CodigosPonte : ~e_erro_definitivo(c)
  /\ ~e_erro_sessao("ok") /\ ~e_erro_definitivo("ok")

(* recebidas: times the chat got the reply; gastas: failing sends that the *)
(* code counts as attempts; recusada: some send was refused for good.      *)
Historia == [recebidas : Nat, gastas : Nat, recusada : BOOLEAN]

TypeOKCanal ==
  /\ sessao \in {"ok"} \cup CodigosPonte
  /\ hist \in [Envios -> Historia]

InitCanal ==
  /\ sessao \in {"ok"} \cup CodigosPonte
  /\ hist = [e \in Envios |-> [recebidas |-> 0, gastas |-> 0, recusada |-> FALSE]]

---------------------------------------------------------------------------
Alcancavel(e) == e \in Telegram \/ sessao = "ok"

(* A send that reached the chat but whose answer was lost or was an error. *)
Incerta(chegou) ==
  \/ ~chegou /\ UNCHANGED orcamento
  \/ /\ chegou
     /\ orcamento.incertas < MaxIncertas
     /\ orcamento' = [orcamento EXCEPT !.incertas = @ + 1]

(* One call of mensageiro.enviar for reply e: the chat gets it or not      *)
(* (chegou) and the caller is answered cod.  handleSend refuses a bad chat *)
(* before it looks at the session, then answers the session's error code;  *)
(* it reads that code again after a send that failed.                      *)
enviar(e, cod, chegou) ==
  /\ \/ cod = "ok" /\ chegou /\ Alcancavel(e) /\ UNCHANGED orcamento
     \/ cod \in CodigosRecusa /\ ~chegou /\ UNCHANGED orcamento
     \/ cod \in CodigosPassageiros /\ Incerta(chegou)
     \/ ~Alcancavel(e) /\ cod = sessao /\ Incerta(chegou)
  /\ hist' = [hist EXCEPT ![e] =
       [recebidas |-> IF chegou THEN @.recebidas + 1 ELSE @.recebidas,
        gastas    |-> IF cod = "ok" \/ e_erro_sessao(cod) THEN @.gastas
                                                          ELSE @.gastas + 1,
        recusada  |-> @.recusada \/ e_erro_definitivo(cod)]]
  /\ UNCHANGED sessao

(* handleEvent, handleResetSession, renewPairing: the session comes and goes. *)
MudarSessao ==
  /\ sessao' \in ({"ok"} \cup CodigosPonte) \ {sessao}
  /\ UNCHANGED hist
============================================================================
