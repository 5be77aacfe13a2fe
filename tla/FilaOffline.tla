---------------------------- MODULE FilaOffline ----------------------------
(***************************************************************************)
(* The actor fila_offline (src/src/shell/fila_offline.gleam): every tick it *)
(* reads all open rows, asks the bridge once whether the WhatsApp session  *)
(* is up, and goes through that snapshot row by row.                       *)
(***************************************************************************)
EXTENDS Canal

CONSTANT tentativas_max   \* 3 in the code

ASSUME FilaAssumption == tentativas_max \in Nat \ {0}

VARIABLES
  fila,    \* the actor: where it stands, the bridge's answer, its clock, the answer of a send
  lote,    \* ids of the snapshot not gone through yet
  visto    \* tentativas of those rows when the snapshot was taken

PassosFila == {"ociosa", "saude", "lote", "gravacao", "descarte"}

Fila == [pc : PassosFila, whatsapp_disponivel : BOOLEAN, agora : 0..MaxDia,
         cod : Codigos]

TypeOKFila ==
  /\ fila \in Fila
  /\ lote \subseteq Ids
  /\ visto \in [Ids -> Nat]

FilaOciosa == [pc |-> "ociosa", whatsapp_disponivel |-> FALSE, agora |-> 0,
               cod |-> "ok"]

InitFila ==
  /\ fila = FilaOciosa
  /\ lote = {}
  /\ visto = [i \in Ids |-> 0]

Whatsapp(id) == linhas[id].dono \notin Telegram

(* ORDER BY criado_em: ids grow with time, the oldest row is the first. *)
Primeira(id) == id \in lote /\ \A j \in lote : id <= j

Mantem == UNCHANGED <<prox, ultimo, dia, sessao>>

(* Row id is done with: the actor takes the next one of the snapshot. *)
Seguir(id) ==
  /\ lote' = lote \ {id}
  /\ visto' = [visto EXCEPT ![id] = 0]
  /\ fila' = [fila EXCEPT !.pc = "lote", !.cod = "ok"]

---------------------------------------------------------------------------
IniciarCiclo ==
  /\ fila.pc = "ociosa"
  /\ Pendentes # {}
  /\ lote' = Pendentes
  /\ visto' = [i \in Ids |-> IF i \in Pendentes THEN linhas[i].tentativas ELSE 0]
  /\ fila' = [fila EXCEPT !.pc = "saude"]
  /\ UNCHANGED <<linhas, orcamento, hist>> /\ Mantem

(* GET /health, only if the snapshot holds a WhatsApp row; an unreachable  *)
(* bridge counts as a session that is down.  agora is read right after.    *)
ConsultarPonte ==
  /\ fila.pc = "saude"
  /\ \E disponivel \in BOOLEAN :
       /\ disponivel => sessao = "ok" /\ \E id \in lote : Whatsapp(id)
       /\ fila' = [fila EXCEPT !.pc = "lote", !.whatsapp_disponivel = disponivel,
                               !.agora = dia]
  /\ UNCHANGED <<linhas, orcamento, hist, lote, visto>> /\ Mantem

Espera(id) == Whatsapp(id) /\ ~fila.whatsapp_disponivel

(* aguardar_sessao within the deadline: the row is left as it is. *)
Aguardar(id) ==
  /\ fila.pc = "lote" /\ Primeira(id) /\ Espera(id)
  /\ fila.agora - linhas[id].criado <= PrazoEspera
  /\ Seguir(id)
  /\ UNCHANGED <<linhas, orcamento, hist>> /\ Mantem

(* aguardar_sessao beyond the deadline: first write of two. *)
VencerPrazo(id) ==
  /\ fila.pc = "lote" /\ Primeira(id) /\ Espera(id)
  /\ fila.agora - linhas[id].criado > PrazoEspera
  /\ atualizar_erro(id, visto[id])
  /\ fila' = [fila EXCEPT !.pc = "descarte"]
  /\ UNCHANGED <<lote, visto, hist>> /\ Mantem

(* Slips: the last attempt is not made; the row is skipped, not closed. *)
EsgotarCedo(id) ==
  /\ fila.pc = "lote" /\ Primeira(id) /\ ~Espera(id)
  /\ visto[id] + 1 >= tentativas_max
  /\ atualizar_status(id, "descartada")
  /\ Seguir(id)
  /\ UNCHANGED hist /\ Mantem

EsgotarSemFechar(id) ==
  /\ fila.pc = "lote" /\ Primeira(id) /\ ~Espera(id)
  /\ visto[id] >= tentativas_max
  /\ Seguir(id)
  /\ UNCHANGED <<linhas, orcamento, hist>> /\ Mantem

(* reenviar_transacao of a row whose attempts are used up. *)
Esgotar(id) ==
  /\ fila.pc = "lote" /\ Primeira(id) /\ ~Espera(id)
  /\ visto[id] >= tentativas_max
  /\ atualizar_status(id, "descartada")
  /\ Seguir(id)
  /\ UNCHANGED hist /\ Mantem

Reenviar(id) ==
  /\ fila.pc = "lote" /\ Primeira(id) /\ ~Espera(id)
  /\ visto[id] < tentativas_max
  /\ \E cod \in Codigos, chegou \in BOOLEAN :
       /\ enviar(linhas[id].dono, cod, chegou)
       /\ fila' = [fila EXCEPT !.pc = "gravacao", !.cod = cod]
  /\ UNCHANGED <<linhas, prox, ultimo, dia, lote, visto>>

(* Slips: the answer is not read; a session failure costs an attempt; a    *)
(* failure costs none.                                                     *)
GravarReenvioSemLer(id) ==
  /\ fila.pc = "gravacao" /\ Primeira(id)
  /\ marcar_entregue(id)
  /\ Seguir(id)
  /\ UNCHANGED hist /\ Mantem

GravarReenvioCaro(id) ==
  /\ fila.pc = "gravacao" /\ Primeira(id)
  /\ IF fila.cod = "ok" THEN marcar_entregue(id) ELSE atualizar_erro(id, visto[id] + 1)
  /\ Seguir(id)
  /\ UNCHANGED hist /\ Mantem

GravarReenvioGratis(id) ==
  /\ fila.pc = "gravacao" /\ Primeira(id)
  /\ IF fila.cod = "ok" THEN marcar_entregue(id) ELSE atualizar_erro(id, visto[id])
  /\ Seguir(id)
  /\ UNCHANGED hist /\ Mantem

(* The outcome of the resend, written with the snapshot's tentativas. *)
GravarReenvio(id) ==
  /\ fila.pc = "gravacao" /\ Primeira(id)
  /\ \/ /\ fila.cod = "ok"
        /\ marcar_entregue(id)
        /\ Seguir(id)
     \/ /\ e_erro_sessao(fila.cod)
        /\ atualizar_erro(id, visto[id])
        /\ Seguir(id)
     \/ /\ e_erro_definitivo(fila.cod) /\ ~e_erro_sessao(fila.cod)
        /\ atualizar_erro(id, visto[id] + 1)
        /\ fila' = [fila EXCEPT !.pc = "descarte"]
        /\ UNCHANGED <<lote, visto>>
     \/ /\ fila.cod # "ok" /\ ~e_erro_sessao(fila.cod) /\ ~e_erro_definitivo(fila.cod)
        /\ atualizar_erro(id, visto[id] + 1)
        /\ Seguir(id)
  /\ UNCHANGED hist /\ Mantem

(* The second write of a discard. *)
Descartar(id) ==
  /\ fila.pc = "descarte" /\ Primeira(id)
  /\ atualizar_status(id, "descartada")
  /\ Seguir(id)
  /\ UNCHANGED hist /\ Mantem

TerminarCiclo ==
  /\ fila.pc = "lote" /\ lote = {}
  /\ fila' = FilaOciosa
  /\ UNCHANGED <<linhas, orcamento, hist, lote, visto>> /\ Mantem

PassoFila ==
  \/ IniciarCiclo
  \/ ConsultarPonte
  \/ TerminarCiclo
  \/ \E id \in Ids :
       \/ Aguardar(id)
       \/ VencerPrazo(id)
       \/ Esgotar(id)
       \/ Reenviar(id)
       \/ GravarReenvio(id)
       \/ Descartar(id)
============================================================================
