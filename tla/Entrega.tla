------------------------------ MODULE Entrega ------------------------------
(***************************************************************************)
(* Delivery of replies: the handlers of entrega_auditada, the actor        *)
(* fila_offline, the hourly maintenance and the other users of the shared  *)
(* connection, all running against one journal and one channel, with       *)
(* restarts of the application.                                            *)
(***************************************************************************)
EXTENDS EntregaAuditada, FilaOffline

vars == <<linhas, prox, ultimo, dia, orcamento, sessao, hist, rem, fila, lote, visto>>

varsFila == <<fila, lote, visto>>

Init == InitTransacoes /\ InitCanal /\ InitRemetente /\ InitFila

(* The application is restarted: handlers in flight and the actor's state  *)
(* are gone, the connection is a new one, the table stays.                 *)
Reiniciar ==
  /\ orcamento.reinicios < MaxReinicios
  /\ orcamento' = [orcamento EXCEPT !.reinicios = @ + 1]
  /\ rem' = [e \in Envios |-> IF EmCurso(e) THEN Terminado(rem[e]) ELSE rem[e]]
  /\ fila' = FilaOciosa /\ lote' = {} /\ visto' = [i \in Ids |-> 0]
  /\ ultimo' = 0
  /\ UNCHANGED <<linhas, prox, dia, sessao, hist>>

Manutencao == limpar_antigas /\ UNCHANGED <<sessao, hist, rem>> /\ UNCHANGED varsFila
(* Only a registrar between its two statements reads the last rowid, so    *)
(* other moments of an INSERT elsewhere make no difference.                *)
OutrasTabelas ==
  /\ \E e \in Envios : rem[e].pc = "inserido"
  /\ InserirEmOutraTabela
  /\ UNCHANGED <<sessao, hist, rem>> /\ UNCHANGED varsFila

Relogio == PassarDia /\ UNCHANGED <<sessao, hist, rem>> /\ UNCHANGED varsFila
Ponte == MudarSessao /\ UNCHANGED <<linhas, prox, ultimo, dia, orcamento, rem>>
                     /\ UNCHANGED varsFila

Remetentes ==
  /\ \E e \in Envios : PassoRemetente(e) \/ MatarTratador(e)
  /\ UNCHANGED varsFila

FilaAnda == PassoFila /\ UNCHANGED rem

Next ==
  \/ Remetentes
  \/ FilaAnda
  \/ Manutencao
  \/ OutrasTabelas
  \/ Relogio
  \/ Ponte
  \/ Reiniciar

Spec == Init /\ [][Next]_vars

(* The actor gets its tick every 30 s, a handler is a running process until *)
(* it ends or is killed, and time passes.  Nothing is assumed of the        *)
(* session, of maintenance or of other writers.                             *)
Fairness ==
  /\ WF_vars(FilaAnda)
  /\ \A e \in Envios : WF_vars(PassoRemetente(e) /\ UNCHANGED varsFila)
  /\ WF_vars(Relogio)

FairSpec == Spec /\ Fairness

---------------------------------------------------------------------------
(* The type of every variable. *)
TypeOK == TypeOKTransacoes /\ TypeOKCanal /\ TypeOKRemetente /\ TypeOKFila

(* Row id has been handed to a call that did not insert it: registrar read *)
(* a last_insert_rowid() that another statement had moved meanwhile.       *)
IdAlheio(id) == \E e \in Envios : rem[e].id = id /\ rem[e].linha # id

(* A row says "entregue" only when its chat did get the reply, whichever   *)
(* of the handler and the queue sent it, in whatever order their writes    *)
(* landed - unless registrar gave the row's id to a foreign call.          *)
EntregueFoiRecebida ==
  \A id \in Ids :
    linhas[id].estado = "entregue" /\ ~IdAlheio(id)
      => hist[linhas[id].dono].recebidas > 0

(* A reply is given up only for a cause: the channel refused it for good,  *)
(* tentativas_max counted failures, or it waited beyond the deadline.      *)
DescarteTemCausa ==
  \A id \in Ids :
    linhas[id].estado = "descartada" /\ ~IdAlheio(id)
      => \/ hist[linhas[id].dono].recusada
         \/ hist[linhas[id].dono].gastas >= tentativas_max
         \/ dia - linhas[id].criado > PrazoEspera

(* The counter never exceeds the limit nor the failures that happened,     *)
(* although handler and queue write it from values they read earlier.      *)
TentativasSaoFalhas ==
  \A id \in Ids :
    ~IdAlheio(id) /\ linhas[id].dono # Ninguem
      => /\ linhas[id].tentativas <= tentativas_max
         /\ linhas[id].tentativas <= hist[linhas[id].dono].gastas

(* The handler's late write can put the counter back to 1 under the queue, *)
(* so a reply may be tried more than tentativas_max times; but at most     *)
(* twice that, plus one per failed SQL statement or restart.               *)
FalhasLimitadas ==
  \A id \in Ids :
    ~IdAlheio(id) /\ linhas[id].dono # Ninguem
      => hist[linhas[id].dono].gastas
           <= 2 * tentativas_max + orcamento.avarias + orcamento.reinicios

(* A chat gets a reply at most twice (handler and queue overlapping), plus *)
(* once per answer lost after delivery, failed SQL statement or restart.   *)
RecebidasLimitadas ==
  \A id \in Ids :
    ~IdAlheio(id) /\ linhas[id].dono # Ninguem
      => hist[linhas[id].dono].recebidas
           <= 2 + orcamento.incertas + orcamento.avarias + orcamento.reinicios

(* Once the WhatsApp session stops flapping, up or down, the journal       *)
(* drains: every recorded reply ends up delivered or discarded, whatever   *)
(* the channel answers and whoever writes last.                            *)
FilaEsvazia ==
  (<>[](sessao = "ok") \/ <>[](sessao # "ok")) => <>[](Pendentes = {})

---------------------------------------------------------------------------
(* What the comments promise and the code does not keep.                   *)

(* fila_offline.gleam:50-51: failures caused by the session being down do  *)
(* not use up attempts.  No step that records the answer of a bridge       *)
(* without a session raises a row's counter.                               *)
FalhaDeSessaoNaoGasta ==
  [][\A id \in Ids :
       linhas'[id].tentativas > linhas[id].tentativas
         => /\ ~(fila.pc = "gravacao" /\ fila.cod \in CodigosPonte /\ fila' # fila)
            /\ \A e \in Envios : ~(rem[e].pc = "gravacao" /\ rem[e].cod \in CodigosPonte
                                                        /\ rem'[e] # rem[e])]_vars

---------------------------------------------------------------------------
(* The inductive invariant behind EntregueFoiRecebida, DescarteTemCausa    *)
(* and TentativasSaoFalhas: what the handlers and the queue know between   *)
(* reading, sending and writing.                                           *)

(* Row ids are handed out once, each to the call whose INSERT created it. *)
LinhasComDono ==
  \A id \in Ids : /\ linhas[id].dono \in Envios <=> id < prox
                  /\ id >= prox => linhas[id].estado = "ausente"
                  /\ id < prox => rem[linhas[id].dono].linha = id

(* A call owns the row its INSERT created and reads its id afterwards. *)
ChamadasComLinha ==
  \A e \in Envios :
    /\ rem[e].linha # 0 => rem[e].linha < prox /\ linhas[rem[e].linha].dono = e
    /\ rem[e].pc = "novo" => rem[e].linha = 0
    /\ rem[e].pc \in {"novo", "inserido"} => rem[e].id = 0

DonosCertos == LinhasComDono /\ ChamadasComLinha

(* What a handler is about to write is what happened to its reply. *)
RemetenteSabe ==
  \A e \in Envios :
    /\ rem[e].pc = "gravacao" /\ rem[e].cod = "ok" => hist[e].recebidas > 0
    /\ rem[e].pc = "gravacao" /\ e_erro_definitivo(rem[e].cod) => hist[e].recusada
    /\ rem[e].pc = "gravacao" /\ rem[e].cod # "ok" /\ ~e_erro_sessao(rem[e].cod)
         => hist[e].gastas >= 1
    /\ rem[e].pc = "descarte" => hist[e].recusada /\ hist[e].gastas >= 1

(* The counter the queue remembers of a row is one the row really had. *)
LoteSabe ==
  \A id \in lote :
    /\ id < prox
    /\ ~IdAlheio(id) => /\ visto[id] <= tentativas_max
                        /\ visto[id] <= hist[linhas[id].dono].gastas

(* What the queue is about to write is what its send of the row was told. *)
EnvioSabe ==
  fila.pc = "gravacao" => \A id \in lote : Primeira(id) =>
    /\ fila.cod = "ok" => hist[linhas[id].dono].recebidas > 0
    /\ e_erro_definitivo(fila.cod) => hist[linhas[id].dono].recusada
    /\ visto[id] < tentativas_max
    /\ ~IdAlheio(id) /\ fila.cod # "ok" /\ ~e_erro_sessao(fila.cod)
         => visto[id] + 1 <= hist[linhas[id].dono].gastas

DescarteSabe ==
  fila.pc = "descarte" => \A id \in lote : Primeira(id) =>
    hist[linhas[id].dono].recusada \/ dia - linhas[id].criado > PrazoEspera

FilaSabe ==
  /\ fila.agora <= dia
  /\ fila.pc = "ociosa" => lote = {}
  /\ LoteSabe
  /\ EnvioSabe
  /\ DescarteSabe

IInv ==
  /\ TypeOK
  /\ DonosCertos
  /\ RemetenteSabe
  /\ FilaSabe
  /\ EntregueFoiRecebida
  /\ DescarteTemCausa
  /\ TentativasSaoFalhas
============================================================================
