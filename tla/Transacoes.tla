---------------------------- MODULE Transacoes ----------------------------
(***************************************************************************)
(* The delivery journal of the bot: table "transacoes" on the one SQLite   *)
(* connection the whole Gleam application shares                           *)
(* (src/src/adaptadores/transacao_sqlite.gleam).  Every port operation is  *)
(* one SQL statement, so other processes run between any two of them; in   *)
(* particular between the INSERT of registrar and the SELECT               *)
(* last_insert_rowid() that follows it.                                    *)
(*                                                                         *)
(* A statement may fail (disk full, database locked beyond busy_timeout);  *)
(* that spends one unit of orcamento.avarias.                              *)
(***************************************************************************)
EXTENDS Naturals

CONSTANTS
  Envios,        \* calls of entrega_auditada.enviar: each one reply to one chat
  Telegram,      \* those whose chat is a Telegram chat; the others go by WhatsApp
  Ninguem,       \* owner of a row id that was never inserted
  MaxLinhas,     \* bound: rows the table may receive
  MaxDia,        \* bound: the clock, in days, stops here
  PrazoEspera,   \* days a reply waits for the session (1 in the code)
  Retencao,      \* days a closed row is kept (7 in the code)
  MaxAvarias,    \* bound: failing SQL statements
  MaxReinicios,  \* bound: restarts of the Gleam application
  MaxIncertas    \* bound: sends that reach the chat although an error comes back

ASSUME TransacoesAssumption ==
  /\ Telegram \subseteq Envios
  /\ Ninguem \notin Envios
  /\ MaxLinhas \in Nat /\ MaxDia \in Nat /\ PrazoEspera \in Nat /\ Retencao \in Nat
  /\ MaxAvarias \in Nat /\ MaxReinicios \in Nat /\ MaxIncertas \in Nat

VARIABLES
  linhas,      \* the table: row id -> row
  prox,        \* the id AUTOINCREMENT gives to the next row
  ultimo,      \* last_insert_rowid() of the shared connection
  dia,         \* unixepoch(), in days
  orcamento    \* what has been spent of the bounds on faults

Ids == 1..MaxLinhas

(* "ausente" stands for a row not inserted yet or already deleted. *)
Abertas  == {"pendente", "falha"}
Fechadas == {"entregue", "descartada"}
Estados  == Abertas \cup Fechadas \cup {"ausente"}

Linha == [estado : Estados, dono : Envios \cup {Ninguem}, tentativas : Nat,
          criado : 0..MaxDia]

Orcamento == [avarias : 0..MaxAvarias, reinicios : 0..MaxReinicios,
              incertas : 0..MaxIncertas]

TypeOKTransacoes ==
  /\ linhas \in [Ids -> Linha]
  /\ prox \in 1..(MaxLinhas + 1)
  /\ ultimo \in 0..MaxLinhas
  /\ dia \in 0..MaxDia
  /\ orcamento \in Orcamento

(* An empty table and a connection that has inserted nothing yet. *)
InitTransacoes ==
  /\ linhas = [i \in Ids |-> [estado |-> "ausente", dono |-> Ninguem,
                              tentativas |-> 0, criado |-> 0]]
  /\ prox = 1
  /\ ultimo = 0
  /\ dia = 0
  /\ orcamento = [avarias |-> 0, reinicios |-> 0, incertas |-> 0]

---------------------------------------------------------------------------
Existe(id) == id \in Ids /\ linhas[id].estado # "ausente"

(* A slip: the WHERE clause forgets "entregue". *)
PendentesComEntregues ==
  {id \in Ids : linhas[id].estado \in Abertas \cup {"entregue"}}

(* obter_pendentes: every row that is neither delivered nor discarded. *)
Pendentes == {id \in Ids : linhas[id].estado \in Abertas}

(* One failing statement: the database is left as it was. *)
Avaria ==
  /\ orcamento.avarias < MaxAvarias
  /\ orcamento' = [orcamento EXCEPT !.avarias = @ + 1]

(* The table after each UPDATE; one on a row that is not there is a no-op. *)
ComEstado(id, novo) ==
  IF Existe(id) THEN [linhas EXCEPT ![id].estado = novo] ELSE linhas

ComErro(id, n) ==
  IF Existe(id) THEN [linhas EXCEPT ![id].estado = "falha", ![id].tentativas = n]
                ELSE linhas

(* The callers ignore the result of an UPDATE: a failed one is skipped. *)
Gravar(tabela) ==
  \/ linhas' = tabela /\ UNCHANGED orcamento
  \/ Avaria /\ UNCHANGED linhas

marcar_entregue(id)        == Gravar(ComEstado(id, "entregue"))
atualizar_status(id, novo) == Gravar(ComEstado(id, novo))
atualizar_erro(id, n)      == Gravar(ComErro(id, n))

(* The INSERT of registrar, which also sets the connection's last rowid. *)
Inserir(e) ==
  /\ prox <= MaxLinhas
  /\ linhas' = [linhas EXCEPT ![prox] = [estado |-> "pendente", dono |-> e,
                                         tentativas |-> 0, criado |-> dia]]
  /\ prox' = prox + 1
  /\ ultimo' = prox

(* A slip: the DELETE looks at the age only. *)
limpar_antigas_todas ==
  /\ linhas' = [i \in Ids |-> IF dia - linhas[i].criado > Retencao
                              THEN [linhas[i] EXCEPT !.estado = "ausente"] ELSE linhas[i]]
  /\ linhas' # linhas
  /\ UNCHANGED <<prox, ultimo, dia, orcamento>>

(* limpar_antigas: hourly, closed rows older than the retention go away. *)
limpar_antigas ==
  /\ linhas' = [i \in Ids |->
       IF linhas[i].estado \in Fechadas /\ dia - linhas[i].criado > Retencao
       THEN [linhas[i] EXCEPT !.estado = "ausente"] ELSE linhas[i]]
  /\ linhas' # linhas
  /\ UNCHANGED <<prox, ultimo, dia, orcamento>>

(* An INSERT into another table of the same connection (history turns,     *)
(* received messages, video contexts, ...) moves the last rowid anywhere.  *)
InserirEmOutraTabela ==
  /\ ultimo' \in Ids
  /\ UNCHANGED <<linhas, prox, dia, orcamento>>

PassarDia ==
  /\ dia < MaxDia
  /\ dia' = dia + 1
  /\ UNCHANGED <<linhas, prox, ultimo, orcamento>>
===========================================================================
