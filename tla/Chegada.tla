------------------------------ MODULE Chegada ------------------------------
(***************************************************************************)
(* The way of an incoming message from WhatsApp to the bot: the bridge's   *)
(* goroutines and queue worker, the webhook between the two programs, the  *)
(* handlers of Gleam, the maintenance of both, and restarts of either.     *)
(***************************************************************************)
EXTENDS Recepcao

vars == <<varsPonte, hora, faltas, varsGleam>>

Init == InitPonte /\ InitGleam

---------------------------------------------------------------------------
PostarNova(v) ==
  /\ via[v].pc = "postar"
  /\ \E ok \in BOOLEAN : Postar(via[v].id, ok) /\ DepoisDePostarNova(v, ok)

Repostar ==
  /\ trabalhador.pc = "postar"
  /\ \E ok \in BOOLEAN : Postar(trabalhador.id, ok) /\ DepoisDeRepostar(ok)

(* A goroutine that has a message goes on with it. *)
PassoVia(v) ==
  \/ (Enfileirar(v) \/ MarcarNova(v)) /\ UNCHANGED varsGleam
  \/ PostarNova(v)

PassoTrabalhador ==
  \/ /\ ConsultarFila \/ MarcarRepostada \/ TerminarVarredura
        \/ \E id \in Filas : ContarTentativa(id)
     /\ UNCHANGED varsGleam
  \/ Repostar

(* A message arrives: an event, a redelivery or the history sync. *)
Chegar ==
  /\ \E v \in Vias, m \in Mensagens : ContarIguais(v, m)
  /\ UNCHANGED varsGleam

Limpezas ==
  \/ cleanupQueue /\ UNCHANGED varsGleam
  \/ Manutencao /\ UNCHANGED <<webhook_queue, proxima, via, trabalhador, hora>>

PassoGleam(h) ==
  PassoTratador(h) /\ UNCHANGED <<webhook_queue, proxima, via, trabalhador, hora>>

Falhas ==
  \/ ReiniciarPonte /\ UNCHANGED varsGleam
  \/ /\ Cair \/ Subir \/ \E h \in Tratadores : MatarTardia(h)
     /\ UNCHANGED <<webhook_queue, proxima, via, trabalhador, hora>>

Relogio ==
  /\ hora < MaxHora
  /\ hora' = hora + 1
  /\ UNCHANGED <<varsPonte, faltas, varsGleam>>

Next ==
  \/ Chegar
  \/ \E v \in Vias : PassoVia(v)
  \/ PassoTrabalhador
  \/ \E h \in Tratadores : PassoGleam(h)
  \/ Limpezas
  \/ Falhas
  \/ Relogio

Spec == Init /\ [][Next]_vars

(* The worker ticks every 5 s, handlers run; Gleam need not come back. *)
Fairness ==
  /\ WF_vars(PassoTrabalhador)
  /\ \A h \in Tratadores : WF_vars(PassoGleam(h))

FairSpec == Spec /\ Fairness

---------------------------------------------------------------------------
(* The type of every variable; no row is tried more than MaxTentativas times. *)
TypeOK == TypeOKPonte /\ TypeOKGleam

Aceita(id) == \E h \in Tratadores : tratador[h].linha = id

(* A row is marked delivered only after Gleam took a post of it, although  *)
(* the goroutine that inserted it and the worker may both post it and      *)
(* their marks may land after a restart, a cleanup or each other.          *)
EntregueFoiAceita ==
  \A id \in Filas : webhook_queue[id].estado = "entregue" => Aceita(id)

(* The bot acts twice on a message only if two handlers could find it new: *)
(* their checks overlapped, or the database failed.  Rows the bridge       *)
(* forgets after an hour and the history sync brings back never cause it,  *)
(* because a message is too old before its id is forgotten.                *)
SoRepeteSobreposta ==
  \A m \in Mensagens : processadas[m] > 1 => m \in sobrepostas

(* The user is told that the media could not be read only if the row was   *)
(* posted twice, or the file was old enough for the maintenance of Gleam.  *)
SoFaltaMidiaRepetida ==
  \A h \in Tratadores :
    tratador[h].faltou =>
      \/ \E g \in Tratadores \ {h} : tratador[g].linha = tratador[h].linha
      \/ Idade(tratador[h].linha) >= IdadeMidia

(* No row is tried for ever: each ends up delivered, used up or expired,   *)
(* even if its media is gone and Gleam refuses it each time, and the rows  *)
(* behind it get their turn.                                               *)
TodaLinhaResolve ==
  \A id \in Filas : Elegivel(id) ~> ~Elegivel(id)

(* A message Gleam took is acted on, unless a handler of it was cut short  *)
(* or it had become too old.                                               *)
AceitaProcessada ==
  \A m \in Mensagens :
    (\E h \in Tratadores : tratador[h].msg = m)
      ~> processadas[m] > 0 \/ m \in interrompidas \/ hora > IdadeMaxima

---------------------------------------------------------------------------
(* What the comments promise and the code does not keep.                   *)

(* Nobody has row id in hand. *)
Parada(id) == trabalhador.id # id /\ \A v \in Vias : via[v].id # id

(* main.go:1383-1387: a spooled file is deleted only once the queue has    *)
(* given its message up.  A row that will be tried again, and that Gleam   *)
(* has not taken yet, still has its media.                                 *)
ArquivoEsperaALinha ==
  \A id \in Filas :
    Elegivel(id) /\ Parada(id) /\ webhook_queue[id].msg \in Midias /\ ~Aceita(id)
      => id \in spool

============================================================================
