----------------------------- MODULE Registro -----------------------------
(***************************************************************************)
(* What the delivery journal promises of each reply, without rows, ids,    *)
(* attempts, snapshots or statements: a recorded reply stays open until it *)
(* is delivered or given up, the verdict is one the facts allow, and only  *)
(* somebody who took the reply while it was open may still write about it. *)
(* EntregaRegistro shows that Entrega implements this module.              *)
(***************************************************************************)

CONSTANT Envios

VARIABLES
  situacao,      \* reply -> what the journal says of it
  recebidas,     \* replies that reached their chat
  justificadas,  \* replies there is a cause to give up
  alheias,       \* replies whose row id a foreign call holds
  emMaos         \* replies some process still holds to write about

varsRegistro == <<situacao, recebidas, justificadas, alheias, emMaos>>

Vereditos == {"entregue", "descartada"}
Situacoes == {"fora", "aberta", "esquecida"} \cup Vereditos

TypeOK ==
  /\ situacao \in [Envios -> Situacoes]
  /\ recebidas \subseteq Envios /\ justificadas \subseteq Envios
  /\ alheias \subseteq Envios /\ emMaos \subseteq Envios

Init ==
  /\ situacao = [e \in Envios |-> "fora"]
  /\ recebidas = {} /\ justificadas = {} /\ alheias = {} /\ emMaos = {}

---------------------------------------------------------------------------
(* The reply enters the journal in the hands of its handler; a foreign     *)
(* call may already hold the id its row gets.                              *)
Registrar(e) ==
  /\ situacao[e] = "fora"
  /\ situacao' = [situacao EXCEPT ![e] = "aberta"]
  /\ emMaos' = emMaos \cup {e}
  /\ alheias' \in {alheias, alheias \cup {e}}
  /\ UNCHANGED <<recebidas, justificadas>>

(* The chat got some replies, or giving them up became justified. *)
Acontecer ==
  /\ recebidas \subseteq recebidas' /\ justificadas \subseteq justificadas'
  /\ UNCHANGED <<situacao, alheias, emMaos>>

(* A process takes open replies; only a foreign call takes a closed one. *)
Pegar ==
  /\ emMaos \subseteq emMaos' /\ alheias \subseteq alheias'
  /\ \A e \in emMaos' \ emMaos : situacao[e] = "aberta" \/ e \in alheias'
  /\ UNCHANGED <<situacao, recebidas, justificadas>>

(* Processes are done with some replies, or die. *)
Soltar ==
  /\ emMaos' \subseteq emMaos
  /\ UNCHANGED <<situacao, recebidas, justificadas, alheias>>

(* Who holds a reply of the journal writes about it, and may let go of it: *)
(* a verdict the facts allow, or "still open" over a verdict that another  *)
(* holder wrote meanwhile.                                                 *)
Escrever(e, nova) ==
  /\ e \in emMaos /\ situacao[e] \notin {"fora", "esquecida"}
  /\ nova = "entregue" => e \in recebidas \cup alheias
  /\ nova = "descartada" => e \in justificadas \cup alheias
  /\ situacao' = [situacao EXCEPT ![e] = nova]
  /\ emMaos' \subseteq emMaos
  /\ UNCHANGED <<recebidas, justificadas, alheias>>

(* Maintenance forgets replies that have a verdict, never an open one. *)
Esquecer(S) ==
  /\ \A e \in S : situacao[e] \in Vereditos
  /\ situacao' = [e \in Envios |-> IF e \in S THEN "esquecida" ELSE situacao[e]]
  /\ UNCHANGED <<recebidas, justificadas, alheias, emMaos>>

Next ==
  \/ \E e \in Envios : Registrar(e)
  \/ Acontecer
  \/ Pegar
  \/ Soltar
  \/ \E e \in Envios, nova \in Vereditos \cup {"aberta"} : Escrever(e, nova)
  \/ \E S \in SUBSET Envios : Esquecer(S)

Spec == Init /\ [][Next]_varsRegistro

---------------------------------------------------------------------------
(* No step reopens a closed reply that no process holds, or takes it. *)
NaoReabre ==
  \A e \in Envios :
    situacao[e] \in Vereditos /\ e \notin emMaos /\ e \notin alheias'
      => situacao'[e] \in {situacao[e], "esquecida"} /\ e \notin emMaos'

(* A verdict nobody can still write about is final: once a reply is closed *)
(* and no process holds it, the journal never offers it for sending again, *)
(* unless registrar gave its id to a foreign call.                         *)
VereditoFinal == [][NaoReabre]_varsRegistro
===========================================================================
