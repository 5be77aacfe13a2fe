----------------------------- MODULE FilaPonte -----------------------------
(***************************************************************************)
(* The bridge's persistent queue of incoming messages: table webhook_queue *)
(* (src/whatsmeow-bridge/main.go, queue_retention.go).  The goroutines     *)
(* that run processMessage (the event handler, the history recovery, the   *)
(* sticker conversions) insert a row and post it to Gleam themselves; one  *)
(* worker goroutine retries what is still undelivered.  Media travels as   *)
(* the path of a file of a spool directory both programs share.            *)
(*                                                                         *)
(* Time is counted in ticks; all messages were sent at tick 0.  The post   *)
(* itself is Postar of module Recepcao, a parameter of the actions here.   *)
(***************************************************************************)
EXTENDS Naturals, FiniteSets

CONSTANTS
  Mensagens,      \* incoming messages
  Midias,         \* those whose content is a file of the spool
  Vias,           \* goroutines that run processMessage
  Nenhuma,        \* message of a row not inserted
  MaxFila,        \* bound: rows the table may receive
  MaxHora,        \* bound: the clock stops here
  MaxTentativas,  \* 100 in the code
  JanelaEntregue, \* delivered rows are kept this long (1 h)
  JanelaFila,     \* rows are tried for this long (24 h)
  IdadeSpool,     \* the bridge deletes spooled files after this (26 h)
  MaxFaltas       \* bound: SQL statements that fail, posts Gleam takes although the
                  \* bridge sees an error, restarts, handlers killed

ASSUME FilaPonteAssumption ==
  /\ Midias \subseteq Mensagens /\ Nenhuma \notin Mensagens
  /\ MaxTentativas \in Nat \ {0, 1}
  /\ JanelaEntregue \in Nat /\ JanelaFila \in Nat /\ IdadeSpool \in Nat
  /\ MaxFila \in Nat /\ MaxHora \in Nat
  /\ MaxFaltas \in Nat

VARIABLES
  webhook_queue,  \* the table: row id -> row
  proxima,        \* the id AUTOINCREMENT gives to the next row
  spool,          \* rows whose media file is on disk
  via,            \* each goroutine: where it stands, its message, its row
  trabalhador,    \* the worker: where it stands, its row, rows still to go through
  hora,           \* unixepoch(), in ticks
  faltas          \* what has been spent of MaxFaltas

varsPonte == <<webhook_queue, proxima, spool, via, trabalhador>>

Filas == 1..MaxFila

Entrada == [estado : {"ausente", "pendente", "entregue"},
            msg : Mensagens \cup {Nenhuma}, attempts : 0..MaxTentativas,
            created_at : 0..MaxHora]

Via == [pc : {"livre", "inserir", "postar", "marcar"},
        msg : Mensagens \cup {Nenhuma}, id : 0..MaxFila]

Trabalhador == [pc : {"ocioso", "varrendo", "postar", "marcar"}, id : 0..MaxFila,
                lote : SUBSET Filas]

TypeOKPonte ==
  /\ webhook_queue \in [Filas -> Entrada]
  /\ proxima \in 1..(MaxFila + 1)
  /\ spool \subseteq Filas
  /\ via \in [Vias -> Via]
  /\ trabalhador \in Trabalhador
  /\ hora \in 0..MaxHora
  /\ faltas \in 0..MaxFaltas

ViaLivre == [pc |-> "livre", msg |-> Nenhuma, id |-> 0]
Ocioso == [pc |-> "ocioso", id |-> 0, lote |-> {}]

InitPonte ==
  /\ webhook_queue = [i \in Filas |-> [estado |-> "ausente", msg |-> Nenhuma,
                                       attempts |-> 0, created_at |-> 0]]
  /\ proxima = 1
  /\ spool = {}
  /\ via = [v \in Vias |-> ViaLivre]
  /\ trabalhador = Ocioso
  /\ hora = 0
  /\ faltas = 0

---------------------------------------------------------------------------
Na(id) == webhook_queue[id].estado # "ausente"
Idade(id) == hora - webhook_queue[id].created_at

(* Something goes wrong: a statement, a post, a process. *)
Falta == faltas < MaxFaltas /\ faltas' = faltas + 1

(* An UPDATE of row id, which may be gone; it happens or it fails. *)
Atualizar(id, nova) ==
  \/ /\ webhook_queue' = IF Na(id) THEN [webhook_queue EXCEPT ![id] = nova]
                                   ELSE webhook_queue
     /\ UNCHANGED faltas
  \/ Falta /\ UNCHANGED webhook_queue

(* enqueueAndDeliver, deduplication: a message with a row of any state is  *)
(* dropped; a SELECT that fails counts as none.                            *)
ContarIguais(v, m) ==
  /\ via[v].pc = "livre"
  /\ \/ /\ \A i \in Filas : webhook_queue[i].msg = m => ~Na(i)
        /\ UNCHANGED faltas
     \/ Falta
  /\ via' = [via EXCEPT ![v].pc = "inserir", ![v].msg = m]
  /\ UNCHANGED <<webhook_queue, proxima, spool, trabalhador, hora>>

(* enqueueAndDeliver, INSERT; the message is dropped if it fails. *)
Enfileirar(v) ==
  /\ via[v].pc = "inserir"
  /\ \/ /\ proxima <= MaxFila
        /\ webhook_queue' = [webhook_queue EXCEPT ![proxima] =
             [estado |-> "pendente", msg |-> via[v].msg, attempts |-> 0,
              created_at |-> hora]]
        /\ proxima' = proxima + 1
        /\ spool' = IF via[v].msg \in Midias THEN spool \cup {proxima} ELSE spool
        /\ via' = [via EXCEPT ![v].pc = "postar", ![v].id = proxima]
        /\ UNCHANGED faltas
     \/ /\ Falta
        /\ via' = [via EXCEPT ![v] = ViaLivre]
        /\ UNCHANGED <<webhook_queue, proxima, spool>>
  /\ UNCHANGED <<trabalhador, hora>>

(* enqueueAndDeliver, post of the new row: an error leaves it to the worker. *)
DepoisDePostarNova(v, ok) ==
  /\ via[v].pc = "postar"
  /\ via' = IF ok THEN [via EXCEPT ![v].pc = "marcar"] ELSE [via EXCEPT ![v] = ViaLivre]
  /\ UNCHANGED <<webhook_queue, proxima, trabalhador, hora>>

MarcarNova(v) ==
  /\ via[v].pc = "marcar"
  /\ Atualizar(via[v].id, [webhook_queue[via[v].id] EXCEPT !.estado = "entregue",
                                                           !.attempts = 1])
  /\ via' = [via EXCEPT ![v] = ViaLivre]
  /\ UNCHANGED <<proxima, spool, trabalhador, hora>>

---------------------------------------------------------------------------
(* The rows processQueue looks for, the oldest first.  Its LIMIT 50 is     *)
(* left out: it stops at the first row that fails anyway.                  *)
Elegivel(id) ==
  /\ webhook_queue[id].estado = "pendente"
  /\ webhook_queue[id].attempts < MaxTentativas
  /\ Idade(id) < JanelaFila

Elegiveis == {id \in Filas : Elegivel(id)}

ConsultarFila ==
  /\ trabalhador.pc = "ocioso"
  /\ Elegiveis # {}
  /\ trabalhador' = [Ocioso EXCEPT !.pc = "varrendo", !.lote = Elegiveis]
  /\ UNCHANGED <<webhook_queue, proxima, spool, via, hora, faltas>>

(* A slip: the attempt is not counted. *)
ContarTentativaNunca(id) ==
  /\ trabalhador.pc = "varrendo"
  /\ id \in trabalhador.lote /\ \A j \in trabalhador.lote : id <= j
  /\ trabalhador' = [pc |-> "postar", id |-> id, lote |-> trabalhador.lote \ {id}]
  /\ UNCHANGED <<webhook_queue, proxima, spool, via, hora, faltas>>

(* processQueue, rows.Next and the UPDATE of attempts before the post. *)
ContarTentativa(id) ==
  /\ trabalhador.pc = "varrendo"
  /\ id \in trabalhador.lote /\ \A j \in trabalhador.lote : id <= j
  /\ Atualizar(id, [webhook_queue[id] EXCEPT !.attempts = @ + 1])
  /\ trabalhador' = [pc |-> "postar", id |-> id, lote |-> trabalhador.lote \ {id}]
  /\ UNCHANGED <<proxima, spool, via, hora>>

(* A slip: the answer of Gleam is not looked at. *)
DepoisDeRepostarSemLer(ok) ==
  /\ trabalhador.pc = "postar"
  /\ trabalhador' = [trabalhador EXCEPT !.pc = "marcar"]
  /\ UNCHANGED <<webhook_queue, proxima, via, hora>>

(* processQueue after the post: the first failure ends the round. *)
DepoisDeRepostar(ok) ==
  /\ trabalhador.pc = "postar"
  /\ trabalhador' = IF ok THEN [trabalhador EXCEPT !.pc = "marcar"] ELSE Ocioso
  /\ UNCHANGED <<webhook_queue, proxima, via, hora>>

MarcarRepostada ==
  /\ trabalhador.pc = "marcar"
  /\ Atualizar(trabalhador.id, [webhook_queue[trabalhador.id] EXCEPT !.estado = "entregue"])
  /\ trabalhador' = [trabalhador EXCEPT !.pc = "varrendo", !.id = 0]
  /\ UNCHANGED <<proxima, spool, via, hora>>

TerminarVarredura ==
  /\ trabalhador.pc = "varrendo" /\ trabalhador.lote = {}
  /\ trabalhador' = Ocioso
  /\ UNCHANGED <<webhook_queue, proxima, spool, via, hora, faltas>>

(* cleanupQueue, in the worker goroutine: rows past their retention and    *)
(* spooled files past theirs go away.                                      *)
Expirada(id) ==
  \/ webhook_queue[id].estado = "entregue" /\ Idade(id) > JanelaEntregue
  \/ webhook_queue[id].estado = "pendente" /\ Idade(id) > JanelaFila

cleanupQueue ==
  /\ trabalhador.pc = "ocioso"
  /\ webhook_queue' = [i \in Filas |-> IF Expirada(i)
                                       THEN [webhook_queue[i] EXCEPT !.estado = "ausente"]
                                       ELSE webhook_queue[i]]
  /\ spool' = {i \in spool : Idade(i) < IdadeSpool}
  /\ UNCHANGED <<proxima, via, trabalhador, hora, faltas>>

(* The bridge is restarted: its goroutines are gone, table and spool stay. *)
ReiniciarPonte ==
  /\ Falta
  /\ via' = [v \in Vias |-> ViaLivre]
  /\ trabalhador' = Ocioso
  /\ UNCHANGED <<webhook_queue, proxima, spool, hora>>
============================================================================
