-------------------------- MODULE EntregaAuditada --------------------------
(***************************************************************************)
(* entrega_auditada.enviar / enviar_citando                                *)
(* (src/src/shell/entrega_auditada.gleam): a handler process records the   *)
(* reply, sends it itself, and writes the outcome back under the row id it *)
(* read.  One record per call: where it stands, the row its INSERT really  *)
(* created (linha; 0 if none, never read by the code), the id that         *)
(* last_insert_rowid() gave it and the answer of the send.                 *)
(***************************************************************************)
EXTENDS Canal

VARIABLE rem

PassosEnvio == {"novo", "inserido", "envio", "gravacao", "descarte", "fim"}

Remetente == [pc : PassosEnvio, linha : 0..MaxLinhas, id : 0..MaxLinhas,
              cod : Codigos]

TypeOKRemetente == rem \in [Envios -> Remetente]

InitRemetente ==
  rem = [e \in Envios |-> [pc |-> "novo", linha |-> 0, id |-> 0, cod |-> "ok"]]

(* The handler of e is between two statements of enviar. *)
EmCurso(e) == rem[e].pc \notin {"novo", "fim"}

(* The call is over; its record keeps only which row it was given. *)
Terminado(r) == [r EXCEPT !.pc = "fim", !.cod = "ok"]

---------------------------------------------------------------------------
(* registrar, first statement.  A failing INSERT is ignored. *)
RegistrarInsert(e) ==
  /\ rem[e].pc = "novo"
  /\ dia + PrazoEspera < MaxDia  \* bound: the deadline falls within the clock
  /\ \/ /\ Inserir(e)
        /\ rem' = [rem EXCEPT ![e].pc = "inserido", ![e].linha = prox]
        /\ UNCHANGED orcamento
     \/ /\ Avaria
        /\ rem' = [rem EXCEPT ![e].pc = "inserido"]
        /\ UNCHANGED <<linhas, prox, ultimo>>
  /\ UNCHANGED <<dia, sessao, hist>>

(* registrar, second statement: the connection's last rowid, whoever set   *)
(* it.  If this SELECT fails, enviar returns the error without sending.    *)
RegistrarLerId(e) ==
  /\ rem[e].pc = "inserido"
  /\ \/ /\ rem' = [rem EXCEPT ![e].pc = "envio", ![e].id = ultimo]
        /\ UNCHANGED orcamento
     \/ /\ Avaria
        /\ rem' = [rem EXCEPT ![e] = Terminado(@)]
  /\ UNCHANGED <<linhas, prox, ultimo, dia, sessao, hist>>

EnviarResposta(e) ==
  /\ rem[e].pc = "envio"
  /\ \E cod \in Codigos, chegou \in BOOLEAN :
       /\ enviar(e, cod, chegou)
       /\ rem' = [rem EXCEPT ![e].pc = "gravacao", ![e].cod = cod]
  /\ UNCHANGED <<linhas, prox, ultimo, dia>>

(* marcar_entregue or the first write of marcar_falha.  registrada.tentativas *)
(* is the 0 of transacao.novo.                                                *)
GravarResultado(e) ==
  /\ rem[e].pc = "gravacao"
  /\ LET cod == rem[e].cod  id == rem[e].id IN
       \/ /\ cod = "ok"
          /\ marcar_entregue(id)
          /\ rem' = [rem EXCEPT ![e] = Terminado(@)]
       \/ /\ e_erro_sessao(cod)
          /\ atualizar_erro(id, 0)
          /\ rem' = [rem EXCEPT ![e] = Terminado(@)]
       \/ /\ e_erro_definitivo(cod) /\ ~e_erro_sessao(cod)
          /\ atualizar_erro(id, 1)
          /\ rem' = [rem EXCEPT ![e].pc = "descarte"]
       \/ /\ cod # "ok" /\ ~e_erro_sessao(cod) /\ ~e_erro_definitivo(cod)
          /\ atualizar_erro(id, 1)
          /\ rem' = [rem EXCEPT ![e] = Terminado(@)]
  /\ UNCHANGED <<prox, ultimo, dia, sessao, hist>>

(* marcar_falha, definitive error: the second write. *)
DescartarResposta(e) ==
  /\ rem[e].pc = "descarte"
  /\ atualizar_status(rem[e].id, "descartada")
  /\ rem' = [rem EXCEPT ![e] = Terminado(@)]
  /\ UNCHANGED <<prox, ultimo, dia, sessao, hist>>

(* fila_atrasadas kills a handler that runs for more than 300 s. *)
MatarTratador(e) ==
  /\ EmCurso(e)
  /\ rem' = [rem EXCEPT ![e] = Terminado(@)]
  /\ UNCHANGED <<linhas, prox, ultimo, dia, orcamento, sessao, hist>>

PassoRemetente(e) ==
  \/ RegistrarInsert(e)
  \/ RegistrarLerId(e)
  \/ EnviarResposta(e)
  \/ GravarResultado(e)
  \/ DescartarResposta(e)
============================================================================
