----------------------------- MODULE RetryMidia -----------------------------
(***************************************************************************)
(* Media that the WhatsApp servers no longer have: the bridge asks the     *)
(* sender's phone to upload it again and waits for the answer              *)
(* (src/whatsmeow-bridge/main.go).  The state is kept per message, so the  *)
(* module is about one message: a sticker (figurinha), which falls back on *)
(* its thumbnail or its metadata, or any other media, which does not.      *)
(*                                                                         *)
(* The event loop, the recovery of history and the answers of the phone    *)
(* each run processMessage in a goroutine of their own: a passage.  A step *)
(* is a section under retryMu, a download, or a statement on the queue.    *)
(***************************************************************************)
EXTENDS Naturals, FiniteSets

CONSTANTS
  Passagens,   \* goroutines that may handle the message at the same time
  MaxCopias,   \* bound: times the message arrives, live or by history sync
  MaxPedidos,  \* bound: requests that can be sent; after that sending fails
  MaxFaltas    \* bound: failures to write the file or the row, restarts

ASSUME RetryMidiaAssumption ==
  /\ IsFiniteSet(Passagens)
  /\ MaxCopias \in Nat /\ MaxPedidos \in Nat /\ MaxFaltas \in Nat

VARIABLES
  figurinha,   \* the message is a sticker
  pendente,    \* pendingMediaRetries has the message
  tentativas,  \* mediaRetryAttempts of the message
  passagem,    \* each goroutine: where it stands, what it will put in the queue
  relogios,    \* goroutines of scheduleStickerMetadataFallback that sleep
  correio,     \* requests that the phone may still answer
  fila,        \* kinds of the rows of webhook_queue for the message
  copias,      \* arrivals so far
  faltas,      \* what has been spent of MaxFaltas
  pedidos,     \* requests sent
  motivos      \* what may have lost the message; read by properties only

vars == <<figurinha, pendente, tentativas, passagem, relogios, correio, fila,
          copias, faltas, pedidos, motivos>>

Tipos == {"midia", "miniatura", "indisponivel"}

Passagem == [pc : {"livre", "baixar", "pedir", "recibo", "desistir", "recusada",
                   "verificar", "anexar", "contar", "inserir", "concluir"},
             tipo : Tipos]

Livre == [pc |-> "livre", tipo |-> "midia"]

Init ==
  /\ figurinha \in BOOLEAN
  /\ pendente = FALSE /\ tentativas = 0
  /\ passagem = [p \in Passagens |-> Livre]
  /\ relogios = 0 /\ correio = 0 /\ fila = {}
  /\ copias = 0 /\ faltas = 0
  /\ pedidos = 0 /\ motivos = {}

---------------------------------------------------------------------------
Segue(p, pc) == passagem' = [passagem EXCEPT ![p].pc = pc]
Comeca(p, pc, tipo) == passagem' = [passagem EXCEPT ![p] = [pc |-> pc, tipo |-> tipo]]
Termina(p) == passagem' = [passagem EXCEPT ![p] = Livre]

Falta == faltas < MaxFaltas /\ faltas' = faltas + 1

(* Without the media: a sticker looks for a fallback, the rest is dropped. *)
SemMidia(p) == IF figurinha THEN Segue(p, "verificar") ELSE Termina(p)

(* The message arrives, or a history sync brings it again. *)
Chegar(p) ==
  /\ passagem[p].pc = "livre" /\ copias < MaxCopias
  /\ copias' = copias + 1
  /\ Comeca(p, "baixar", "midia")
  /\ UNCHANGED <<figurinha, pendente, tentativas, relogios, correio, fila, faltas,
                 pedidos, motivos>>

(* downloadMediaBytes: the bytes arrive; or the servers no longer have     *)
(* them; or the download fails in a way that a retry does not mend.        *)
Baixar(p) ==
  /\ passagem[p].pc = "baixar"
  /\ \/ (Segue(p, "anexar") \/ Segue(p, "pedir")) /\ UNCHANGED motivos
     \/ SemMidia(p) /\ motivos' = motivos \cup {"download"}
  /\ UNCHANGED <<figurinha, pendente, tentativas, relogios, correio, fila, copias, faltas,
                 pedidos>>

(* A slip: attempts are counted, never limited. *)
PedirSempre(p) ==
  /\ passagem[p].pc = "pedir"
  /\ tentativas' = tentativas + 1 /\ pendente' = TRUE /\ Segue(p, "recibo")
  /\ UNCHANGED <<figurinha, relogios, correio, fila, copias, faltas, pedidos, motivos>>

(* requestMediaRetry, the locked section; a message without a key, or with *)
(* an attempt on record, is given up.                                      *)
Pedir(p) ==
  /\ passagem[p].pc = "pedir"
  /\ \/ Segue(p, "desistir") /\ UNCHANGED <<tentativas, pendente>>
     \/ /\ tentativas = 0
        /\ tentativas' = 1 /\ pendente' = TRUE /\ Segue(p, "recibo")
  /\ UNCHANGED <<figurinha, relogios, correio, fila, copias, faltas, pedidos, motivos>>

(* requestMediaRetry, SendMediaRetryReceipt; if it fails the state is      *)
(* cleared at once, and once more by downloadMediaBytes.                   *)
MandarRecibo(p) ==
  /\ passagem[p].pc = "recibo"
  /\ \/ /\ pedidos < MaxPedidos /\ correio' = correio + 1 /\ pedidos' = pedidos + 1
        /\ SemMidia(p) /\ UNCHANGED <<pendente, tentativas>>
     \/ /\ pendente' = FALSE /\ tentativas' = 0 /\ Segue(p, "desistir")
        /\ UNCHANGED <<correio, pedidos>>
  /\ UNCHANGED <<figurinha, relogios, fila, copias, faltas, motivos>>

(* clearMediaRetryState: whoever holds the pending entry loses it. *)
Limpar(p) ==
  /\ passagem[p].pc \in {"desistir", "recusada", "concluir"}
  /\ pendente' = FALSE /\ tentativas' = 0
  /\ motivos' = IF passagem[p].pc = "desistir" THEN motivos \cup {"download"} ELSE motivos
  /\ IF passagem[p].pc = "desistir" THEN SemMidia(p) ELSE Termina(p)
  /\ UNCHANGED <<figurinha, relogios, correio, fila, copias, faltas, pedidos>>

(* What a sticker without its media becomes. *)
Substituir(p) == Comeca(p, "anexar", "miniatura") \/ Comeca(p, "contar", "indisponivel")

(* A slip: a pending retry needs nobody to wait for it. *)
VerificarSemRelogio(p) ==
  /\ passagem[p].pc = "verificar"
  /\ IF pendente THEN Termina(p) ELSE Substituir(p)
  /\ UNCHANGED <<figurinha, pendente, tentativas, relogios, correio, fila, copias, faltas,
                 pedidos, motivos>>

(* A sticker without its media: hasPendingMediaRetry, and then either the  *)
(* 12 s of scheduleStickerMetadataFallback or a fallback at once.          *)
Verificar(p) ==
  /\ passagem[p].pc = "verificar"
  /\ IF pendente
     THEN relogios' = relogios + 1 /\ Termina(p)
     ELSE Substituir(p) /\ UNCHANGED relogios
  /\ UNCHANGED <<figurinha, pendente, tentativas, correio, fila, copias, faltas,
                 pedidos, motivos>>

(* attachMediaFile, after the conversion of an animated sticker if it is   *)
(* one: that goroutine clears the retry state also when the file fails.    *)
Anexar(p) ==
  /\ passagem[p].pc = "anexar"
  /\ \/ Segue(p, "contar") /\ UNCHANGED faltas
     \/ Falta /\ Termina(p)
     \/ Falta /\ figurinha /\ Segue(p, "concluir")
  /\ UNCHANGED <<figurinha, pendente, tentativas, relogios, correio, fila, copias,
                 pedidos, motivos>>

(* enqueueAndDeliver; the path of the textual fallback does not clear the  *)
(* retry state afterwards.                                                 *)
Enfileirada(p) ==
  IF passagem[p].tipo = "indisponivel" THEN Termina(p) ELSE Segue(p, "concluir")

Contar(p) ==
  /\ passagem[p].pc = "contar"
  /\ IF fila # {} THEN Enfileirada(p) ELSE Segue(p, "inserir")
  /\ UNCHANGED <<figurinha, pendente, tentativas, relogios, correio, fila, copias, faltas,
                 pedidos, motivos>>

Inserir(p) ==
  /\ passagem[p].pc = "inserir"
  /\ \/ fila' = fila \cup {passagem[p].tipo} /\ UNCHANGED faltas
     \/ Falta /\ UNCHANGED fila
  /\ Enfileirada(p)
  /\ UNCHANGED <<figurinha, pendente, tentativas, relogios, correio, copias, pedidos, motivos>>

(* handleMediaRetry: the phone uploaded the media again and the message is *)
(* processed once more, or it refused; without a pending entry the answer  *)
(* is ignored.                                                             *)
Responder(p) ==
  /\ correio > 0 /\ passagem[p].pc = "livre"
  /\ correio' = correio - 1
  /\ pendente' = FALSE
  /\ \/ pendente /\ Comeca(p, "baixar", "midia") /\ UNCHANGED motivos
     \/ pendente /\ Comeca(p, "recusada", "midia") /\ motivos' = motivos \cup {"recusa"}
     \/ ~pendente /\ UNCHANGED <<passagem, motivos>>
  /\ UNCHANGED <<figurinha, tentativas, relogios, fila, copias, faltas, pedidos>>

(* A slip: the sleeper takes the entry away and puts nothing in the queue. *)
AcordarSempre(p) ==
  /\ relogios > 0 /\ passagem[p].pc = "livre"
  /\ relogios' = relogios - 1
  /\ pendente' = FALSE /\ tentativas' = 0
  /\ UNCHANGED passagem
  /\ UNCHANGED <<figurinha, correio, fila, copias, faltas, pedidos, motivos>>

(* scheduleStickerMetadataFallback wakes up: takePendingMediaRetry, which  *)
(* forgets the attempt also when there is no entry.                        *)
Acordar(p) ==
  /\ relogios > 0 /\ passagem[p].pc = "livre"
  /\ relogios' = relogios - 1
  /\ pendente' = FALSE /\ tentativas' = 0
  /\ IF pendente THEN Comeca(p, "contar", "indisponivel") ELSE UNCHANGED passagem
  /\ UNCHANGED <<figurinha, correio, fila, copias, faltas, pedidos, motivos>>

(* The bridge is restarted: all but the queue is gone. *)
Reiniciar ==
  /\ Falta
  /\ pendente' = FALSE /\ tentativas' = 0 /\ relogios' = 0
  /\ passagem' = [p \in Passagens |-> Livre]
  /\ UNCHANGED <<figurinha, correio, fila, copias, pedidos, motivos>>

(* A goroutine that has begun goes on. *)
Prosseguir(p) ==
  \/ Baixar(p) \/ Pedir(p) \/ MandarRecibo(p) \/ Limpar(p) \/ Verificar(p)
  \/ Anexar(p) \/ Contar(p) \/ Inserir(p)

Next ==
  \/ \E p \in Passagens : Chegar(p) \/ Prosseguir(p) \/ Responder(p) \/ Acordar(p)
  \/ Reiniciar

Spec == Init /\ [][Next]_vars

(* Goroutines run and sleepers wake up; the phone need not answer. *)
Fairness ==
  /\ \A p \in Passagens : WF_vars(Prosseguir(p))
  /\ WF_vars(\E p \in Passagens : Acordar(p))

FairSpec == Spec /\ Fairness

---------------------------------------------------------------------------
(* The type of every variable; at most one request is counted. *)
TypeOK ==
  /\ figurinha \in BOOLEAN /\ pendente \in BOOLEAN
  /\ tentativas \in 0..1
  /\ passagem \in [Passagens -> Passagem]
  /\ relogios \in Nat /\ correio \in Nat /\ pedidos \in 0..MaxPedidos
  /\ fila \subseteq Tipos
  /\ copias \in 0..MaxCopias /\ faltas \in 0..MaxFaltas
  /\ motivos \subseteq {"download", "recusa"}

(* Nobody is at work on the message and nobody will wake up for it. *)
Quieta ==
  copias > 0 /\ relogios = 0 /\ \A p \in Passagens : passagem[p].pc = "livre"

(* A message that arrived is never given up silently, except when the      *)
(* phone refused, when the disk, the queue or the process failed, or, for  *)
(* media other than a sticker, when some copy of it gave the download up   *)
(* (and took the pending entry of the others away) or the phone is silent. *)
PerdaTemMotivo ==
  Quieta /\ fila = {} =>
    \/ faltas > 0 \/ "recusa" \in motivos
    \/ ~figurinha /\ (pendente \/ "download" \in motivos)

(* The pending entry of a sticker is never left behind: a sleeper will     *)
(* take it, or the goroutine that made it has not yet decided to wait.     *)
PendenteTemRelogio ==
  figurinha /\ pendente =>
    \/ relogios > 0
    \/ \E p \in Passagens : passagem[p].pc \in {"recibo", "desistir", "verificar"}

(* Every sticker gets an answer, its media or a fallback, even if the      *)
(* phone never answers - unless it refuses.                                *)
FigurinhaResponde ==
  figurinha /\ copias > 0 ~> fila # {} \/ "recusa" \in motivos \/ faltas > 0

(* The sender's phone is not asked for ever: media other than a sticker    *)
(* costs it at most one request per arrival and one more per failure,      *)
(* however answers, refusals and copies cross, although whoever ends a     *)
(* passage forgets the attempt of the others.                              *)
PedidosLimitados == ~figurinha => pedidos <= copias + faltas

---------------------------------------------------------------------------
(* README.md:31: if the servers no longer have a sticker, its declared     *)
(* data tell the user what it was.  Every sticker gets an answer.          *)
FigurinhaSempreResponde ==
  figurinha /\ copias > 0 ~> fila # {} \/ faltas > 0
============================================================================
