-------------------------- MODULE EntregaRegistro --------------------------
(***************************************************************************)
(* Entrega implements Registro: what the table, the handlers and the queue *)
(* hold, read as what the journal promises of each reply.                  *)
(***************************************************************************)
EXTENDS Entrega

(* The journal's word on e: the status of the row its own INSERT created.  *)
Situacao(e) ==
  IF rem[e].linha = 0 THEN "fora"
  ELSE LET estado == linhas[rem[e].linha].estado IN
       IF estado \in Abertas THEN "aberta"
       ELSE IF estado = "ausente" THEN "esquecida" ELSE estado

(* The causes for which a reply may be given up. *)
Justificada(e) ==
  \/ hist[e].recusada
  \/ hist[e].gastas >= tentativas_max
  \/ rem[e].linha # 0 /\ dia - linhas[rem[e].linha].criado > PrazoEspera

(* The reply's own handler, the queue's snapshot, or a foreign handler with *)
(* the id of its row may still write about it.                              *)
Segura(e) ==
  /\ rem[e].linha # 0
  /\ \/ EmCurso(e)
     \/ rem[e].linha \in lote
     \/ \E f \in Envios : EmCurso(f) /\ rem[f].id = rem[e].linha

LivroSituacao     == [e \in Envios |-> Situacao(e)]
LivroRecebidas    == {e \in Envios : hist[e].recebidas > 0}
LivroJustificadas == {e \in Envios : Justificada(e)}
LivroAlheias      == {e \in Envios : rem[e].linha # 0 /\ IdAlheio(rem[e].linha)}
LivroEmMaos       == {e \in Envios : Segura(e)}

Livro == INSTANCE Registro WITH
  situacao <- LivroSituacao, recebidas <- LivroRecebidas,
  justificadas <- LivroJustificadas, alheias <- LivroAlheias, emMaos <- LivroEmMaos

(* Every behaviour of handlers, queue, maintenance and restarts over the   *)
(* table is one the abstract journal allows: open replies are never lost   *)
(* or forgotten, verdicts follow the facts, and a closed reply is reopened *)
(* only by a process that took it while it was open.                       *)
CumpreRegistro == Livro!Spec

(* In particular a verdict is final once nobody holds the reply: neither a *)
(* late handler nor a late queue reopens it.                               *)
VereditoFinal == Livro!VereditoFinal
============================================================================
