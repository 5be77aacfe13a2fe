--------------------------- MODULE Chegada_proofs ---------------------------
(***************************************************************************)
(* The way of a message through both programs, for any number of messages, *)
(* goroutines, rows and handlers: a delivered row was taken by Gleam, the  *)
(* bot acts once, media is missed only for a cause, and what one program   *)
(* hands to the other stays in somebody's hands until it is acted on.      *)
(***************************************************************************)
EXTENDS Chegada, Integers, TLAPS

(* Rows, goroutines and handlers refer to rows that were inserted. *)
RefsPonte ==
  /\ \A i \in Filas : i >= proxima => webhook_queue[i].estado = "ausente"
  /\ \A i \in Filas : i < proxima => webhook_queue[i].msg \in Mensagens
  /\ \A v \in Vias : via[v].pc # "livre" => via[v].msg \in Mensagens
  /\ \A v \in Vias : via[v].pc \in {"postar", "marcar"} => via[v].id \in 1..(proxima - 1)
  /\ trabalhador.pc \in {"postar", "marcar"} => trabalhador.id \in 1..(proxima - 1)
  /\ \A i \in trabalhador.lote :
       i < proxima /\ webhook_queue[i].attempts < MaxTentativas

RefsGleam ==
  \A h \in Tratadores :
    IF tratador[h].pc = "ausente" THEN tratador[h].linha = 0
    ELSE tratador[h].msg \in Mensagens /\ tratador[h].linha \in 1..(proxima - 1)

Ponte == TypeOKPonte /\ RefsPonte
Gleam == TypeOKGleam /\ RefsGleam

(* Constants. *)
LEMMA Limites ==
  /\ MaxTentativas \in Nat /\ MaxTentativas > 1 /\ MaxFila \in Nat /\ MaxHora \in Nat
  /\ MaxFaltas \in Nat /\ MaxTratadores \in Nat /\ IdadeMidia \in Nat /\ IdadeSpool \in Nat
  /\ IdadeMaxima \in Nat /\ RetencaoRecebidas \in Nat
  /\ IdadeMaxima <= RetencaoRecebidas /\ IdadeMidia <= IdadeSpool
  /\ Midias \subseteq Mensagens /\ Nenhuma \notin Mensagens
  BY FilaPonteAssumption, RecepcaoAssumption

(* An UPDATE keeps the message, the insertion and the place of every row. *)
LEMMA Atualizacao ==
  ASSUME Ponte, NEW id \in Filas, NEW nova \in Entrada, Atualizar(id, nova),
         nova.msg = webhook_queue[id].msg, nova.created_at = webhook_queue[id].created_at
  PROVE  /\ webhook_queue' \in [Filas -> Entrada] /\ faltas' \in 0..MaxFaltas
         /\ \A i \in Filas : /\ webhook_queue'[i].msg = webhook_queue[i].msg
                             /\ webhook_queue'[i].created_at = webhook_queue[i].created_at
                             /\ webhook_queue'[i] = webhook_queue[i]
                                  \/ (i = id /\ Na(id) /\ webhook_queue'[i] = nova)
<1> USE Limites DEF Ponte, TypeOKPonte
<1>1. CASE webhook_queue' = [webhook_queue EXCEPT ![id] = nova] /\ Na(id) /\ UNCHANGED faltas
  BY <1>1
<1>2. CASE UNCHANGED webhook_queue /\ faltas' \in 0..MaxFaltas
  BY <1>2
<1>3. Falta => faltas' \in 0..MaxFaltas
  BY DEF Falta
<1> QED
  BY <1>1, <1>2, <1>3 DEF Atualizar

(* Numbers in their ranges. *)
LEMMA Faixas ==
  /\ 0 \in 0..MaxFila /\ 0 \in 0..MaxTentativas /\ 1 \in 0..MaxTentativas
  /\ \A i \in Filas : i \in 0..MaxFila /\ i \in Nat
  BY Limites DEF Filas

(* What goroutines and worker have in hand when they have nothing. *)
LEMMA Livres ==
  /\ ViaLivre \in Via /\ ViaLivre.pc = "livre" /\ ViaLivre.id = 0
  /\ Ocioso \in Trabalhador /\ Ocioso.pc = "ocioso" /\ Ocioso.lote = {} /\ Ocioso.id = 0
  BY Faixas DEF Via, ViaLivre, Trabalhador, Ocioso

(* The types, one by one. *)
LEMMA TiposPonte ==
  ASSUME TypeOKPonte
  PROVE  /\ webhook_queue \in [Filas -> Entrada] /\ proxima \in 1..(MaxFila + 1)
         /\ spool \subseteq Filas /\ via \in [Vias -> Via] /\ trabalhador \in Trabalhador
         /\ hora \in 0..MaxHora /\ faltas \in 0..MaxFaltas
         /\ trabalhador.lote \subseteq Filas
  BY DEF TypeOKPonte, Trabalhador

(* A fault stays within its bound. *)
LEMMA Faltou ==
  ASSUME faltas \in 0..MaxFaltas, Falta \/ UNCHANGED faltas
  PROVE  faltas' \in 0..MaxFaltas
  BY Limites DEF Falta

(* The steps of a goroutine of the bridge keep the table well formed. *)
LEMMA PonteVia ==
  ASSUME Ponte, NEW v \in Vias,
         (\E m \in Mensagens : ContarIguais(v, m)) \/ Enfileirar(v) \/ MarcarNova(v)
  PROVE  Ponte' /\ proxima' >= proxima
<1>0. /\ webhook_queue \in [Filas -> Entrada] /\ proxima \in 1..(MaxFila + 1)
      /\ spool \subseteq Filas /\ via \in [Vias -> Via] /\ trabalhador \in Trabalhador
      /\ hora \in 0..MaxHora /\ faltas \in 0..MaxFaltas
      /\ trabalhador.lote \subseteq Filas
  BY TiposPonte DEF Ponte
<1>1. ASSUME NEW m \in Mensagens, ContarIguais(v, m) PROVE Ponte' /\ proxima' >= proxima
  <2> DEFINE x == [via[v] EXCEPT !.pc = "inserir", !.msg = m]
  <2>1. x \in Via /\ x.pc = "inserir" /\ x.msg = m
    BY <1>0 DEF Via
  <2>2. via' = [via EXCEPT ![v] = x] /\ UNCHANGED <<webhook_queue, proxima, spool, trabalhador, hora>>
    BY <1>1 DEF ContarIguais
  <2> HIDE DEF x
  <2>3. faltas' \in 0..MaxFaltas
    <3>1. Falta \/ UNCHANGED faltas
      BY <1>1 DEF ContarIguais
    <3> QED
      BY <1>0, <3>1, Faltou
  <2>4. TypeOKPonte'
    BY <1>0, <2>1, <2>2, <2>3 DEF TypeOKPonte
  <2> QED
    BY <1>0, <2>1, <2>2, <2>4 DEF Ponte, RefsPonte
<1>2. CASE Enfileirar(v)
  <2>0. via[v].pc = "inserir" /\ via[v].msg \in Mensagens
    BY <1>2 DEF Enfileirar, Ponte, RefsPonte
  <2>1. CASE /\ proxima <= MaxFila
             /\ webhook_queue' = [webhook_queue EXCEPT ![proxima] =
                  [estado |-> "pendente", msg |-> via[v].msg, attempts |-> 0,
                   created_at |-> hora]]
             /\ proxima' = proxima + 1
             /\ spool' = IF via[v].msg \in Midias THEN spool \cup {proxima} ELSE spool
             /\ via' = [via EXCEPT ![v].pc = "postar", ![v].id = proxima]
             /\ UNCHANGED faltas
    <3> DEFINE e == [estado |-> "pendente", msg |-> via[v].msg, attempts |-> 0, created_at |-> hora]
               x == [via[v] EXCEPT !.pc = "postar", !.id = proxima]
    <3>0. proxima \in Filas
      BY <1>0, <2>1, Limites DEF Filas
    <3>1. e \in Entrada /\ e.msg = via[v].msg /\ e.attempts = 0
      BY <1>0, <2>0, Faixas DEF Entrada
    <3>2. x \in Via /\ x.pc = "postar" /\ x.id = proxima /\ x.msg = via[v].msg
      BY <1>0, <3>0, Faixas DEF Via
    <3>3. webhook_queue' = [webhook_queue EXCEPT ![proxima] = e] /\ via' = [via EXCEPT ![v] = x]
      BY <2>1
    <3> HIDE DEF e, x
    <3>4. spool' \subseteq Filas /\ UNCHANGED <<trabalhador, hora>>
      BY <1>0, <1>2, <2>1, <3>0 DEF Enfileirar
    <3>5. TypeOKPonte'
      <4>1. proxima' \in 1..(MaxFila + 1)
        BY <1>0, <2>1, Limites
      <4>2. webhook_queue' \in [Filas -> Entrada] /\ via' \in [Vias -> Via]
        BY <1>0, <3>0, <3>1, <3>2, <3>3
      <4>3. faltas' = faltas
        BY <2>1
      <4> QED
        BY <1>0, <3>4, <4>1, <4>2, <4>3 DEF TypeOKPonte
    <3>6. /\ \A i \in Filas : i >= proxima' => webhook_queue'[i].estado = "ausente"
          /\ \A i \in Filas : i < proxima' => webhook_queue'[i].msg \in Mensagens
      BY <1>0, <2>0, <2>1, <3>0, <3>1, <3>3 DEF Ponte, RefsPonte, Filas
    <3>7. /\ \A w \in Vias : via'[w].pc # "livre" => via'[w].msg \in Mensagens
          /\ \A w \in Vias : via'[w].pc \in {"postar", "marcar"} => via'[w].id \in 1..(proxima' - 1)
      BY <1>0, <2>0, <2>1, <3>2, <3>3 DEF Ponte, RefsPonte
    <3>8. /\ trabalhador'.pc \in {"postar", "marcar"} => trabalhador'.id \in 1..(proxima' - 1)
          /\ \A i \in trabalhador'.lote :
               i < proxima' /\ webhook_queue'[i].attempts < MaxTentativas
      BY <1>0, <2>1, <3>0, <3>3, <3>4 DEF Ponte, RefsPonte, Filas
    <3> QED
      BY <1>0, <2>1, <3>5, <3>6, <3>7, <3>8 DEF Ponte, RefsPonte
  <2>2. CASE Falta /\ via' = [via EXCEPT ![v] = ViaLivre] /\ UNCHANGED <<webhook_queue, proxima, spool>>
    <3>1. faltas' \in 0..MaxFaltas /\ UNCHANGED <<trabalhador, hora>>
      BY <1>0, <1>2, <2>2, Faltou DEF Enfileirar
    <3>2. TypeOKPonte'
      BY <1>0, <2>2, <3>1, Livres DEF TypeOKPonte
    <3> QED
      BY <1>0, <2>2, <3>1, <3>2, Livres DEF Ponte, RefsPonte
  <2> QED
    BY <1>2, <2>1, <2>2 DEF Enfileirar
<1>3. CASE MarcarNova(v)
  <2> DEFINE id == via[v].id
             nova == [webhook_queue[id] EXCEPT !.estado = "entregue", !.attempts = 1]
  <2>1. id \in Filas /\ id < proxima
    BY <1>0, <1>3, Limites DEF MarcarNova, Ponte, RefsPonte, Filas
  <2>2. /\ nova \in Entrada /\ nova.msg = webhook_queue[id].msg
        /\ nova.created_at = webhook_queue[id].created_at /\ nova.attempts = 1
    BY <1>0, <2>1, Faixas DEF Entrada
  <2>3. Atualizar(id, nova) /\ via' = [via EXCEPT ![v] = ViaLivre]
        /\ UNCHANGED <<proxima, spool, trabalhador, hora>>
    BY <1>3 DEF MarcarNova
  <2> HIDE DEF id, nova
  <2>4. /\ webhook_queue' \in [Filas -> Entrada] /\ faltas' \in 0..MaxFaltas
        /\ \A i \in Filas : /\ webhook_queue'[i].msg = webhook_queue[i].msg
                            /\ webhook_queue'[i] = webhook_queue[i]
                                 \/ (i = id /\ Na(id) /\ webhook_queue'[i] = nova)
    BY <2>1, <2>2, <2>3, Atualizacao
  <2>5. TypeOKPonte'
    BY <1>0, <2>3, <2>4, Livres DEF TypeOKPonte
  <2>6. \A i \in Filas : i >= proxima => webhook_queue'[i].estado = "ausente"
    BY <1>0, <2>1, <2>4 DEF Ponte, RefsPonte, Na, Filas
  <2>7. \A i \in trabalhador.lote : webhook_queue'[i].attempts < MaxTentativas
    BY <1>0, <2>2, <2>4, Limites DEF Ponte, RefsPonte
  <2> QED
    BY <1>0, <2>3, <2>4, <2>5, <2>6, <2>7, Livres DEF Ponte, RefsPonte
<1> QED
  BY <1>1, <1>2, <1>3

(* The steps of the worker, but for the post, and the cleanup of the queue. *)
LEMMA PonteTrabalhador ==
  ASSUME Ponte,
         \/ ConsultarFila \/ MarcarRepostada \/ TerminarVarredura \/ cleanupQueue
         \/ \E id \in Filas : ContarTentativa(id)
  PROVE  Ponte' /\ proxima' = proxima
<1>0. /\ webhook_queue \in [Filas -> Entrada] /\ proxima \in 1..(MaxFila + 1)
      /\ spool \subseteq Filas /\ via \in [Vias -> Via] /\ trabalhador \in Trabalhador
      /\ hora \in 0..MaxHora /\ faltas \in 0..MaxFaltas
      /\ trabalhador.lote \subseteq Filas
  BY TiposPonte DEF Ponte
<1>1. CASE ConsultarFila
  <2> DEFINE x == [Ocioso EXCEPT !.pc = "varrendo", !.lote = Elegiveis]
  <2>1. Elegiveis \subseteq Filas
    BY DEF Elegiveis
  <2>2. x \in Trabalhador /\ x.pc = "varrendo" /\ x.lote = Elegiveis
    BY <2>1, Livres DEF Trabalhador
  <2>3. trabalhador' = x /\ UNCHANGED <<webhook_queue, proxima, spool, via, hora, faltas>>
    BY <1>1 DEF ConsultarFila
  <2> HIDE DEF x
  <2>4. TypeOKPonte'
    BY <1>0, <2>2, <2>3 DEF TypeOKPonte
  <2>5. \A i \in Elegiveis : i < proxima /\ webhook_queue[i].attempts < MaxTentativas
    <3>1. \A i \in Elegiveis : i \in Filas /\ webhook_queue[i].estado = "pendente"
                               /\ webhook_queue[i].attempts < MaxTentativas
      BY DEF Elegiveis, Elegivel
    <3> QED
      BY <1>0, <3>1, Faixas DEF Ponte, RefsPonte
  <2> QED
    BY <1>0, <2>2, <2>3, <2>4, <2>5 DEF Ponte, RefsPonte
<1>2. CASE TerminarVarredura
  <2>1. trabalhador' = Ocioso /\ UNCHANGED <<webhook_queue, proxima, spool, via, hora, faltas>>
    BY <1>2 DEF TerminarVarredura
  <2>2. TypeOKPonte'
    BY <1>0, <2>1, Livres DEF TypeOKPonte
  <2> QED
    BY <1>0, <2>1, <2>2, Livres DEF Ponte, RefsPonte
<1>3. CASE MarcarRepostada
  <2> DEFINE id == trabalhador.id
             nova == [webhook_queue[id] EXCEPT !.estado = "entregue"]
             x == [trabalhador EXCEPT !.pc = "varrendo", !.id = 0]
  <2>1. id \in Filas /\ id < proxima
    BY <1>0, <1>3, Limites DEF MarcarRepostada, Ponte, RefsPonte, Filas
  <2>2. /\ nova \in Entrada /\ nova.msg = webhook_queue[id].msg
        /\ nova.created_at = webhook_queue[id].created_at
        /\ nova.attempts = webhook_queue[id].attempts
    BY <1>0, <2>1, Faixas DEF Entrada
  <2>3. x \in Trabalhador /\ x.pc = "varrendo" /\ x.lote = trabalhador.lote
    BY <1>0, Faixas DEF Trabalhador
  <2>4. Atualizar(id, nova) /\ trabalhador' = x /\ UNCHANGED <<proxima, spool, via, hora>>
    BY <1>3 DEF MarcarRepostada
  <2> HIDE DEF id, nova, x
  <2>5. /\ webhook_queue' \in [Filas -> Entrada] /\ faltas' \in 0..MaxFaltas
        /\ \A i \in Filas : /\ webhook_queue'[i].msg = webhook_queue[i].msg
                            /\ webhook_queue'[i] = webhook_queue[i]
                                 \/ (i = id /\ Na(id) /\ webhook_queue'[i] = nova)
    BY <2>1, <2>2, <2>4, Atualizacao
  <2>6. TypeOKPonte'
    BY <1>0, <2>3, <2>4, <2>5 DEF TypeOKPonte
  <2>7. \A i \in Filas : i >= proxima => webhook_queue'[i].estado = "ausente"
    BY <1>0, <2>1, <2>5 DEF Ponte, RefsPonte, Na, Filas
  <2>8. \A i \in trabalhador.lote : webhook_queue'[i].attempts < MaxTentativas
    BY <1>0, <2>2, <2>5, Limites DEF Ponte, RefsPonte
  <2> QED
    BY <1>0, <2>3, <2>4, <2>5, <2>6, <2>7, <2>8 DEF Ponte, RefsPonte
<1>4. CASE cleanupQueue
  <2> DEFINE Fora(i) == [webhook_queue[i] EXCEPT !.estado = "ausente"]
  <2>1. \A i \in Filas : /\ Fora(i) \in Entrada /\ Fora(i).estado = "ausente"
                         /\ Fora(i).msg = webhook_queue[i].msg
                         /\ Fora(i).attempts = webhook_queue[i].attempts
    BY <1>0 DEF Entrada
  <2>2. /\ webhook_queue' = [i \in Filas |-> IF Expirada(i) THEN Fora(i) ELSE webhook_queue[i]]
        /\ spool' \subseteq spool /\ UNCHANGED <<proxima, via, trabalhador, hora, faltas>>
    BY <1>4 DEF cleanupQueue
  <2> HIDE DEF Fora
  <2>3. /\ webhook_queue' \in [Filas -> Entrada]
        /\ \A i \in Filas : webhook_queue'[i] = Fora(i) \/ webhook_queue'[i] = webhook_queue[i]
    BY <1>0, <2>1, <2>2
  <2>4. TypeOKPonte'
    BY <1>0, <2>2, <2>3 DEF TypeOKPonte
  <2> QED
    BY <1>0, <2>1, <2>2, <2>3, <2>4 DEF Ponte, RefsPonte
<1>5. ASSUME NEW id \in Filas, ContarTentativa(id) PROVE Ponte' /\ proxima' = proxima
  <2> DEFINE nova == [webhook_queue[id] EXCEPT !.attempts = @ + 1]
             x == [pc |-> "postar", id |-> id, lote |-> trabalhador.lote \ {id}]
  <2>1. id \in trabalhador.lote /\ id < proxima /\ webhook_queue[id].attempts < MaxTentativas
    BY <1>5 DEF ContarTentativa, Ponte, RefsPonte
  <2>2. /\ nova \in Entrada /\ nova.msg = webhook_queue[id].msg
        /\ nova.created_at = webhook_queue[id].created_at
    <3>1. webhook_queue[id].attempts + 1 \in 0..MaxTentativas
      BY <1>0, <2>1, Limites DEF Entrada
    <3> QED
      BY <1>0, <3>1 DEF Entrada
  <2>3. x \in Trabalhador /\ x.pc = "postar" /\ x.id = id /\ x.lote = trabalhador.lote \ {id}
    BY <1>0, Faixas DEF Trabalhador
  <2>4. Atualizar(id, nova) /\ trabalhador' = x /\ UNCHANGED <<proxima, spool, via, hora>>
    BY <1>5 DEF ContarTentativa
  <2> HIDE DEF nova, x
  <2>5. /\ webhook_queue' \in [Filas -> Entrada] /\ faltas' \in 0..MaxFaltas
        /\ \A i \in Filas : /\ webhook_queue'[i].msg = webhook_queue[i].msg
                            /\ webhook_queue'[i] = webhook_queue[i]
                                 \/ (i = id /\ Na(id) /\ webhook_queue'[i] = nova)
    BY <2>2, <2>4, Atualizacao
  <2>6. TypeOKPonte'
    BY <1>0, <2>3, <2>4, <2>5 DEF TypeOKPonte
  <2>7. \A i \in Filas : i >= proxima => webhook_queue'[i].estado = "ausente"
    BY <1>0, <2>1, <2>5 DEF Ponte, RefsPonte, Na, Filas
  <2>8. \A i \in trabalhador.lote \ {id} : webhook_queue'[i] = webhook_queue[i]
    BY <1>0, <2>5
  <2>9. id \in 1..(proxima - 1)
    BY <1>0, <2>1, Limites DEF Filas
  <2> QED
    BY <1>0, <2>3, <2>4, <2>5, <2>6, <2>7, <2>8, <2>9 DEF Ponte, RefsPonte
<1> QED
  BY <1>1, <1>2, <1>3, <1>4, <1>5

(* The rest of what changes the bridge: the outcomes of a post, a restart, *)
(* and what Gleam does to the spool.                                       *)
LEMMA PonteResto ==
  ASSUME Ponte, UNCHANGED <<webhook_queue, proxima>>, spool' \subseteq spool,
         Falta \/ UNCHANGED faltas,
         \/ UNCHANGED <<via, trabalhador, hora>>
         \/ UNCHANGED <<trabalhador, hora>> /\ \E v \in Vias, ok \in BOOLEAN : DepoisDePostarNova(v, ok)
         \/ UNCHANGED <<via, hora>> /\ \E ok \in BOOLEAN : DepoisDeRepostar(ok)
         \/ UNCHANGED hora /\ ReiniciarPonte
         \/ UNCHANGED <<via, trabalhador>> /\ hora' \in 0..MaxHora
  PROVE  Ponte'
<1>0. /\ webhook_queue \in [Filas -> Entrada] /\ proxima \in 1..(MaxFila + 1)
      /\ spool \subseteq Filas /\ via \in [Vias -> Via] /\ trabalhador \in Trabalhador
      /\ hora \in 0..MaxHora /\ faltas \in 0..MaxFaltas /\ faltas' \in 0..MaxFaltas
      /\ trabalhador.lote \subseteq Filas
  BY TiposPonte, Faltou DEF Ponte
<1>1. ASSUME UNCHANGED <<via, trabalhador>>, hora' \in 0..MaxHora PROVE Ponte'
  BY <1>0, <1>1 DEF Ponte, TypeOKPonte, RefsPonte
<1>2. ASSUME UNCHANGED <<trabalhador, hora>>,
             NEW v \in Vias, NEW ok \in BOOLEAN, DepoisDePostarNova(v, ok) PROVE Ponte'
  <2> DEFINE x == [via[v] EXCEPT !.pc = "marcar"]
  <2>1. x \in Via /\ x.pc = "marcar" /\ x.id = via[v].id /\ x.msg = via[v].msg
    BY <1>0 DEF Via
  <2>2. via[v].pc = "postar" /\ (via' = [via EXCEPT ![v] = x] \/ via' = [via EXCEPT ![v] = ViaLivre])
    BY <1>2 DEF DepoisDePostarNova
  <2> HIDE DEF x
  <2>3. TypeOKPonte'
    BY <1>0, <1>2, <2>1, <2>2, Livres DEF TypeOKPonte
  <2> QED
    BY <1>0, <1>2, <2>1, <2>2, <2>3, Livres DEF Ponte, RefsPonte
<1>3. ASSUME UNCHANGED <<via, hora>>, NEW ok \in BOOLEAN, DepoisDeRepostar(ok) PROVE Ponte'
  <2> DEFINE x == [trabalhador EXCEPT !.pc = "marcar"]
  <2>1. x \in Trabalhador /\ x.pc = "marcar" /\ x.id = trabalhador.id /\ x.lote = trabalhador.lote
    BY <1>0 DEF Trabalhador
  <2>2. trabalhador.pc = "postar" /\ (trabalhador' = x \/ trabalhador' = Ocioso)
    BY <1>3 DEF DepoisDeRepostar
  <2> HIDE DEF x
  <2>3. TypeOKPonte'
    BY <1>0, <1>3, <2>1, <2>2, Livres DEF TypeOKPonte
  <2> QED
    BY <1>0, <1>3, <2>1, <2>2, <2>3, Livres DEF Ponte, RefsPonte
<1>4. ASSUME UNCHANGED hora, ReiniciarPonte PROVE Ponte'
  <2>1. via' = [v \in Vias |-> ViaLivre] /\ trabalhador' = Ocioso
    BY <1>4 DEF ReiniciarPonte
  <2>2. TypeOKPonte'
    BY <1>0, <1>4, <2>1, Livres DEF TypeOKPonte
  <2> QED
    BY <1>0, <2>1, <2>2, Livres DEF Ponte, RefsPonte
<1> QED
  BY <1>0, <1>1, <1>2, <1>3, <1>4

---------------------------------------------------------------------------
(* Handler h goes on to pc with its message and its row. *)
Segue(h, pc) ==
  /\ tratador' \in [Tratadores -> Tratador]
  /\ \A g \in Tratadores \ {h} : tratador'[g] = tratador[g]
  /\ tratador'[h].pc = pc
  /\ tratador'[h].msg = tratador[h].msg /\ tratador'[h].linha = tratador[h].linha

(* The types, one by one. *)
LEMMA TiposGleam ==
  ASSUME TypeOKGleam
  PROVE  /\ gleam \in {"no ar", "fora"} /\ tratador \in [Tratadores -> Tratador]
         /\ recebidas \in [Mensagens -> 0..Ausente] /\ processadas \in [Mensagens -> Nat]
         /\ sobrepostas \subseteq Mensagens /\ interrompidas \subseteq Mensagens
  BY DEF TypeOKGleam

(* The record of a handler that ends. *)
LEMMA Fins ==
  ASSUME tratador \in [Tratadores -> Tratador]
  PROVE  \A h \in Tratadores :
           /\ Fim(h) \in Tratador /\ Fim(h).pc = "fim"
           /\ Fim(h).msg = tratador[h].msg /\ Fim(h).linha = tratador[h].linha
           /\ Fim(h).faltou = tratador[h].faltou
  BY DEF Tratador, Fim, Passos

(* What the steps of a handler do to it. *)
LEMMA Andares ==
  ASSUME TypeOKGleam, NEW h \in Tratadores
  PROVE  /\ CarregarMidia(h) => tratador[h].pc = "carregar" /\ Segue(h, "checar")
         /\ Checar(h) => /\ tratador[h].pc = "checar"
                         /\ Segue(h, "marcar") \/ Segue(h, "processar") \/ Segue(h, "fim")
         /\ Marcar(h) => tratador[h].pc = "marcar" /\ Segue(h, "processar")
         /\ Processar(h) => tratador[h].pc = "processar" /\ Segue(h, "fim")
         /\ MatarTardia(h) => tratador[h].pc # "ausente" /\ Segue(h, "fim")
<1>0. tratador \in [Tratadores -> Tratador] /\ tratador[h] \in Tratador
  BY TiposGleam
<1>1. ASSUME NEW pc \in Passos, tratador' = [tratador EXCEPT ![h].pc = pc] PROVE Segue(h, pc)
  <2> DEFINE x == [tratador[h] EXCEPT !.pc = pc]
  <2>1. /\ x \in Tratador /\ x.pc = pc /\ x.msg = tratador[h].msg
        /\ x.linha = tratador[h].linha
    BY <1>0 DEF Tratador
  <2>2. tratador' = [tratador EXCEPT ![h] = x]
    BY <1>1
  <2> HIDE DEF x
  <2> QED
    BY <1>0, <2>1, <2>2 DEF Segue
<1>2. ASSUME tratador' = [tratador EXCEPT ![h] = Fim(h)] PROVE Segue(h, "fim")
  BY <1>0, <1>2, Fins DEF Segue
<1>3. {"checar", "marcar", "processar"} \subseteq Passos
  BY DEF Passos
<1>4. ASSUME CarregarMidia(h) PROVE tratador[h].pc = "carregar" /\ Segue(h, "checar")
  <2> DEFINE faltou == ~Valida(tratador[h].linha)
             x == [tratador[h] EXCEPT !.pc = "checar", !.faltou = faltou]
  <2>1. faltou \in BOOLEAN
    OBVIOUS
  <2> HIDE DEF faltou
  <2>2. /\ x \in Tratador /\ x.pc = "checar" /\ x.msg = tratador[h].msg
        /\ x.linha = tratador[h].linha
    BY <1>0, <1>3, <2>1 DEF Tratador
  <2>3. tratador' = [tratador EXCEPT ![h] = x]
    BY <1>4 DEF CarregarMidia, faltou
  <2> HIDE DEF x
  <2>4. tratador[h].pc = "carregar"
    BY <1>4 DEF CarregarMidia, Passo
  <2> QED
    BY <1>0, <2>2, <2>3, <2>4 DEF Segue
<1>5. ASSUME Checar(h)
      PROVE  /\ tratador[h].pc = "checar"
             /\ Segue(h, "marcar") \/ Segue(h, "processar") \/ Segue(h, "fim")
  <2>1. \/ tratador' = [tratador EXCEPT ![h] = [@ EXCEPT !.pc = "marcar"]]
        \/ tratador' = [tratador EXCEPT ![h] = Fim(h)]
        \/ tratador' = [tratador EXCEPT ![h].pc = "processar"]
    BY <1>5 DEF Checar
  <2>2. tratador[h].pc = "checar"
    BY <1>5 DEF Checar, Passo
  <2> QED
    BY <1>1, <1>2, <1>3, <2>1, <2>2
<1>6. ASSUME Marcar(h) PROVE tratador[h].pc = "marcar" /\ Segue(h, "processar")
  BY <1>1, <1>3, <1>6 DEF Marcar, Passo
<1>7. ASSUME Processar(h) PROVE tratador[h].pc = "processar" /\ Segue(h, "fim")
  BY <1>2, <1>7 DEF Processar, Passo
<1>8. ASSUME MatarTardia(h) PROVE tratador[h].pc # "ausente" /\ Segue(h, "fim")
  BY <1>2, <1>8 DEF MatarTardia, Vivo
<1> QED
  BY <1>4, <1>5, <1>6, <1>7, <1>8

(* Handler h starts on row id. *)
Comeca(h, id) ==
  /\ tratador[h].pc = "ausente"
  /\ tratador' \in [Tratadores -> Tratador]
  /\ \A g \in Tratadores \ {h} : tratador'[g] = tratador[g]
  /\ tratador'[h].pc \in {"checar", "carregar"}
  /\ tratador'[h].msg = webhook_queue[id].msg /\ tratador'[h].linha = id
  /\ tratador'[h].faltou = FALSE
  /\ spool' = spool \/ (spool' = spool \ {id} /\ tratador'[h].pc = "checar")
  /\ sobrepostas' = IF \E g \in Tratadores : SemMarca(g) /\ tratador[g].msg = webhook_queue[id].msg
                    THEN sobrepostas \cup {webhook_queue[id].msg} ELSE sobrepostas
  /\ webhook_queue[id].msg \in Mensagens
  /\ UNCHANGED <<gleam, recebidas, processadas, interrompidas>>

(* A post that Gleam takes starts one handler on the row. *)
LEMMA Despacho ==
  ASSUME TypeOKGleam, Ponte, RefsGleam, NEW id \in 1..(proxima - 1), Despachar(id)
  PROVE  \E h \in Tratadores : Comeca(h, id)
<1>0. tratador \in [Tratadores -> Tratador]
  BY TiposGleam
<1>1. id \in Filas /\ id \in 0..MaxFila /\ webhook_queue[id].msg \in Mensagens
  BY TiposPonte, Limites DEF Ponte, RefsPonte, Filas
<1> DEFINE x(tardia) == [pc |-> IF tardia THEN "checar" ELSE "carregar",
                         msg |-> webhook_queue[id].msg, linha |-> id,
                         tardia |-> tardia, faltou |-> FALSE]
<1>2. PICK h \in Tratadores, tardia \in BOOLEAN :
        /\ Livre(h)
        /\ tratador' = [tratador EXCEPT ![h] = x(tardia)]
        /\ spool' = IF tardia THEN spool \ {id} ELSE spool
        /\ sobrepostas' = IF \E g \in Tratadores : SemMarca(g) /\ tratador[g].msg = webhook_queue[id].msg
                          THEN sobrepostas \cup {webhook_queue[id].msg} ELSE sobrepostas
        /\ UNCHANGED <<gleam, recebidas, processadas, interrompidas>>
  BY Zenon DEF Despachar
<1>3. tratador[h].pc = "ausente"
  BY <1>2 DEF Livre
<1>4. /\ x(tardia) \in Tratador
      /\ x(tardia).pc = IF tardia THEN "checar" ELSE "carregar"
      /\ x(tardia).msg = webhook_queue[id].msg /\ x(tardia).linha = id
      /\ x(tardia).faltou = FALSE
  BY <1>1 DEF Tratador, Passos
<1> HIDE DEF x
<1>5. /\ tratador' \in [Tratadores -> Tratador] /\ tratador'[h] = x(tardia)
      /\ \A g \in Tratadores \ {h} : tratador'[g] = tratador[g]
  BY <1>0, <1>2, <1>4
<1>6. /\ tratador'[h].pc \in {"checar", "carregar"}
      /\ spool' = spool \/ (spool' = spool \ {id} /\ tratador'[h].pc = "checar")
  BY <1>2, <1>4, <1>5
<1> QED
  BY <1>1, <1>2, <1>3, <1>4, <1>5, <1>6 DEF Comeca

(* The steps of a handler keep the types. *)
LEMMA GleamTratador ==
  ASSUME Ponte, Gleam, UNCHANGED proxima, NEW h \in Tratadores,
         PassoTratador(h) \/ MatarTardia(h)
  PROVE  Gleam' /\ spool' \subseteq spool /\ (Falta \/ UNCHANGED faltas)
<1>0. /\ gleam \in {"no ar", "fora"} /\ tratador \in [Tratadores -> Tratador]
      /\ recebidas \in [Mensagens -> 0..Ausente] /\ processadas \in [Mensagens -> Nat]
      /\ sobrepostas \subseteq Mensagens /\ interrompidas \subseteq Mensagens
      /\ hora \in 0..MaxHora
  BY TiposGleam, TiposPonte DEF Gleam, Ponte
<1>1. ASSUME tratador[h].pc # "ausente", NEW pc \in Passos \ {"ausente"}, Segue(h, pc)
      PROVE  tratador' \in [Tratadores -> Tratador] /\ RefsGleam'
  <2>1. /\ tratador' \in [Tratadores -> Tratador] /\ tratador'[h].pc # "ausente"
        /\ \A g \in Tratadores \ {h} : tratador'[g] = tratador[g]
        /\ tratador'[h].msg = tratador[h].msg /\ tratador'[h].linha = tratador[h].linha
    BY <1>1 DEF Segue
  <2> QED
    BY <1>1, <2>1 DEF Gleam, RefsGleam
<1>2. {"checar", "marcar", "processar", "fim"} \subseteq Passos \ {"ausente"}
  BY DEF Passos
<1>3. tratador[h].pc # "ausente" /\ tratador' \in [Tratadores -> Tratador] /\ RefsGleam'
  BY <1>1, <1>2, Andares DEF PassoTratador, Gleam
<1>4. tratador[h].msg \in Mensagens
  BY <1>3 DEF Gleam, RefsGleam
<1>5. CASE CarregarMidia(h)
  <2>1. /\ spool' \subseteq spool
        /\ UNCHANGED <<gleam, recebidas, processadas, sobrepostas, interrompidas, faltas>>
    BY <1>5 DEF CarregarMidia
  <2> QED
    BY <1>0, <1>3, <2>1 DEF Gleam, TypeOKGleam
<1>6. CASE Checar(h)
  <2>1. /\ sobrepostas' = sobrepostas \/ sobrepostas' = sobrepostas \cup {tratador[h].msg}
        /\ UNCHANGED <<spool, gleam, recebidas, processadas, interrompidas>>
        /\ Falta \/ UNCHANGED faltas
    BY <1>6 DEF Checar
  <2> QED
    BY <1>0, <1>3, <1>4, <2>1 DEF Gleam, TypeOKGleam
<1>7. CASE Marcar(h)
  <2>1. /\ recebidas' = recebidas
             \/ recebidas' = [recebidas EXCEPT ![tratador[h].msg] = IF @ = Ausente THEN hora ELSE @]
        /\ sobrepostas' = sobrepostas \/ sobrepostas' = sobrepostas \cup {tratador[h].msg}
        /\ UNCHANGED <<spool, gleam, processadas, interrompidas>>
        /\ Falta \/ UNCHANGED faltas
    BY <1>7 DEF Marcar
  <2>2. hora \in 0..Ausente
    <3>1. hora \in 0..MaxHora
      BY <1>0
    <3> QED
      BY <3>1, Limites DEF Ausente
  <2>3. recebidas' \in [Mensagens -> 0..Ausente]
    BY <1>0, <2>1, <2>2
  <2> QED
    BY <1>0, <1>3, <1>4, <2>1, <2>3 DEF Gleam, TypeOKGleam
<1>8. CASE Processar(h)
  <2>1. /\ processadas' = [processadas EXCEPT ![tratador[h].msg] = @ + 1]
        /\ UNCHANGED <<spool, gleam, recebidas, sobrepostas, interrompidas, faltas>>
    BY <1>8 DEF Processar
  <2>2. processadas' \in [Mensagens -> Nat]
    <3>1. processadas \in [Mensagens -> Nat]
      BY <1>0
    <3> QED
      BY <1>4, <2>1, <3>1
  <2> QED
    BY <1>0, <1>3, <2>1, <2>2 DEF Gleam, TypeOKGleam
<1>9. CASE MatarTardia(h)
  <2>1. /\ interrompidas' = interrompidas \cup {tratador[h].msg} /\ Falta
        /\ UNCHANGED <<spool, gleam, recebidas, processadas, sobrepostas>>
    BY <1>9 DEF MatarTardia
  <2> QED
    BY <1>0, <1>3, <1>4, <2>1 DEF Gleam, TypeOKGleam
<1> QED
  BY <1>5, <1>6, <1>7, <1>8, <1>9 DEF PassoTratador

(* A post keeps the types. *)
LEMMA GleamPostar ==
  ASSUME Ponte, Gleam, UNCHANGED proxima, NEW id \in 1..(proxima - 1),
         NEW ok \in BOOLEAN, Postar(id, ok)
  PROVE  Gleam' /\ spool' \subseteq spool /\ (Falta \/ UNCHANGED faltas)
<1>1. (Despachar(id) /\ (Falta \/ UNCHANGED faltas)) \/ UNCHANGED <<spool, faltas, varsGleam>>
  BY Zenon DEF Postar
<1>2. CASE Despachar(id) /\ (Falta \/ UNCHANGED faltas)
  <2>1. PICK h \in Tratadores : Comeca(h, id)
    BY <1>2, Despacho DEF Gleam
  <2>2. RefsGleam'
    BY <2>1 DEF Gleam, RefsGleam, Comeca
  <2> QED
    BY <1>2, <2>1, <2>2 DEF Gleam, TypeOKGleam, Comeca
<1>3. CASE UNCHANGED <<spool, faltas, varsGleam>>
  BY <1>3 DEF Gleam, TypeOKGleam, RefsGleam, varsGleam, SemMarca
<1> QED
  BY <1>1, <1>2, <1>3

(* A handler is where it was, or was cut short. *)
LEMMA Queda ==
  ASSUME TypeOKGleam, Cair
  PROVE  /\ tratador' \in [Tratadores -> Tratador]
         /\ \A h \in Tratadores : \/ tratador'[h] = tratador[h]
                                  \/ tratador[h].pc # "ausente" /\ tratador'[h] = Fim(h)
<1>1. tratador' = [h \in Tratadores |-> IF Vivo(h) THEN Fim(h) ELSE tratador[h]]
  BY DEF Cair
<1>2. \A h \in Tratadores : Fim(h) \in Tratador /\ tratador[h] \in Tratador
  BY TiposGleam, Fins
<1> QED
  BY <1>1, <1>2 DEF Vivo

(* Maintenance and the stops of Gleam keep the types. *)
LEMMA GleamResto ==
  ASSUME Ponte, Gleam, UNCHANGED proxima, Manutencao \/ Cair \/ Subir
  PROVE  Gleam' /\ spool' \subseteq spool /\ (Falta \/ UNCHANGED faltas)
<1>0. /\ gleam \in {"no ar", "fora"} /\ tratador \in [Tratadores -> Tratador]
      /\ recebidas \in [Mensagens -> 0..Ausente] /\ processadas \in [Mensagens -> Nat]
      /\ sobrepostas \subseteq Mensagens /\ interrompidas \subseteq Mensagens
      /\ hora \in 0..MaxHora
  BY TiposGleam, TiposPonte DEF Gleam, Ponte
<1>1. CASE Manutencao
  <2>1. /\ recebidas' = [m \in Mensagens |->
             IF recebidas[m] # Ausente /\ hora - recebidas[m] > RetencaoRecebidas
             THEN Ausente ELSE recebidas[m]]
        /\ spool' \subseteq spool
        /\ UNCHANGED <<gleam, tratador, processadas, sobrepostas, interrompidas, faltas>>
    BY <1>1 DEF Manutencao
  <2>2. Ausente \in 0..Ausente
    BY Limites DEF Ausente
  <2>3. recebidas' \in [Mensagens -> 0..Ausente]
    BY <1>0, <2>1, <2>2
  <2> QED
    BY <1>0, <2>1, <2>3 DEF Gleam, TypeOKGleam, RefsGleam
<1>2. CASE Cair
  <2>1. /\ gleam' = "fora" /\ Falta
        /\ interrompidas' = interrompidas \cup {tratador[h].msg : h \in {g \in Tratadores : Vivo(g)}}
        /\ UNCHANGED <<spool, recebidas, processadas, sobrepostas>>
    BY <1>2 DEF Cair
  <2>2. \A h \in Tratadores : Vivo(h) => tratador[h].msg \in Mensagens
    BY DEF Vivo, Gleam, RefsGleam
  <2>3. /\ tratador' \in [Tratadores -> Tratador]
        /\ \A h \in Tratadores :
             /\ tratador'[h].pc = "ausente" => tratador[h].pc = "ausente"
             /\ tratador[h].pc = "ausente" => tratador'[h].pc = "ausente"
             /\ tratador'[h].msg = tratador[h].msg /\ tratador'[h].linha = tratador[h].linha
    BY <1>0, <1>2, Queda, Fins DEF Gleam
  <2>4. RefsGleam'
    BY <2>3 DEF Gleam, RefsGleam
  <2> QED
    BY <1>0, <2>1, <2>2, <2>3, <2>4 DEF Gleam, TypeOKGleam
<1>3. CASE Subir
  <2>1. /\ gleam' = "no ar"
        /\ UNCHANGED <<spool, tratador, recebidas, processadas, sobrepostas, interrompidas, faltas>>
    BY <1>3 DEF Subir
  <2> QED
    BY <1>0, <2>1 DEF Gleam, TypeOKGleam, RefsGleam
<1> QED
  BY <1>1, <1>2, <1>3

(* Rows that were inserted stay inserted. *)
LEMMA GleamFica ==
  ASSUME Ponte, Gleam, proxima' \in Nat, proxima' >= proxima, UNCHANGED varsGleam
  PROVE  Gleam'
<1>1. proxima \in Nat
  BY TiposPonte DEF Ponte
<1>2. TypeOKGleam'
  BY DEF Gleam, TypeOKGleam, varsGleam
<1>3. UNCHANGED tratador
  BY DEF varsGleam
<1>4. RefsGleam'
  BY <1>1, <1>3 DEF Gleam, RefsGleam
<1> QED
  BY <1>2, <1>4 DEF Gleam

(* Every step keeps the types. *)
LEMMA TipoSempre == Ponte /\ Gleam /\ [Next]_vars => Ponte' /\ Gleam' /\ proxima' >= proxima
<1> SUFFICES ASSUME Ponte, Gleam, [Next]_vars PROVE Ponte' /\ Gleam' /\ proxima' >= proxima
  OBVIOUS
<1>0. proxima \in Nat /\ (Ponte' => proxima' \in Nat)
  BY TiposPonte DEF Ponte, TypeOKPonte
<1>1. ASSUME NEW v \in Vias, UNCHANGED varsGleam,
             (\E m \in Mensagens : ContarIguais(v, m)) \/ Enfileirar(v) \/ MarcarNova(v)
      PROVE  Ponte' /\ Gleam' /\ proxima' >= proxima
  BY <1>0, <1>1, PonteVia, GleamFica
<1>2. ASSUME NEW v \in Vias, PostarNova(v) PROVE Ponte' /\ Gleam' /\ proxima' >= proxima
  <2>1. PICK ok \in BOOLEAN : Postar(via[v].id, ok) /\ DepoisDePostarNova(v, ok)
    BY <1>2 DEF PostarNova
  <2>2. via[v].id \in 1..(proxima - 1)
    BY <1>2 DEF PostarNova, Ponte, RefsPonte
  <2>3. UNCHANGED <<webhook_queue, proxima, trabalhador, hora>>
    BY <2>1 DEF DepoisDePostarNova
  <2> QED
    BY <1>0, <2>1, <2>2, <2>3, GleamPostar, PonteResto
<1>3. CASE Repostar
  <2>1. PICK ok \in BOOLEAN : Postar(trabalhador.id, ok) /\ DepoisDeRepostar(ok)
    BY <1>3 DEF Repostar
  <2>2. trabalhador.id \in 1..(proxima - 1)
    BY <1>3 DEF Repostar, Ponte, RefsPonte
  <2>3. UNCHANGED <<webhook_queue, proxima, via, hora>>
    BY <2>1 DEF DepoisDeRepostar
  <2> QED
    BY <1>0, <2>1, <2>2, <2>3, GleamPostar, PonteResto
<1>4. ASSUME UNCHANGED varsGleam,
             \/ ConsultarFila \/ MarcarRepostada \/ TerminarVarredura \/ cleanupQueue
             \/ \E id \in Filas : ContarTentativa(id)
      PROVE  Ponte' /\ Gleam' /\ proxima' >= proxima
  BY <1>0, <1>4, PonteTrabalhador, GleamFica
<1>5. ASSUME UNCHANGED <<webhook_queue, proxima, via, trabalhador, hora>>,
             \/ Manutencao \/ Cair \/ Subir
             \/ \E h \in Tratadores : PassoTratador(h) \/ MatarTardia(h)
      PROVE  Ponte' /\ Gleam' /\ proxima' >= proxima
  BY <1>0, <1>5, GleamTratador, GleamResto, PonteResto
<1>6. ASSUME ReiniciarPonte, UNCHANGED varsGleam PROVE Ponte' /\ Gleam' /\ proxima' >= proxima
  <2>1. UNCHANGED <<webhook_queue, proxima, spool, hora>> /\ Falta
    BY <1>6 DEF ReiniciarPonte
  <2> QED
    BY <1>0, <1>6, <2>1, PonteResto, GleamFica
<1>7. CASE Relogio
  <2>1. UNCHANGED <<webhook_queue, proxima, spool, via, trabalhador, faltas, varsGleam>>
    BY <1>7 DEF Relogio, varsPonte
  <2>2. hora' \in 0..MaxHora
    BY <1>7, TiposPonte, Limites DEF Relogio, Ponte
  <2> QED
    BY <1>0, <2>1, <2>2, PonteResto, GleamFica
<1>8. CASE UNCHANGED vars
  <2>1. UNCHANGED <<webhook_queue, proxima, spool, via, trabalhador, hora, faltas, varsGleam>>
    BY <1>8 DEF vars, varsPonte
  <2> QED
    BY <1>0, <2>1, PonteResto, GleamFica
<1> QED
  BY <1>1, <1>2, <1>3, <1>4, <1>5, <1>6, <1>7, <1>8
     DEF Next, Chegar, PassoVia, PassoTrabalhador, PassoGleam, Limpezas, Falhas

(* At the start nothing was inserted. *)
LEMMA TipoInicial == Init => Ponte /\ Gleam
<1> SUFFICES ASSUME Init PROVE Ponte /\ Gleam
  OBVIOUS
<1>1. TypeOKPonte
  <2> DEFINE e == [estado |-> "ausente", msg |-> Nenhuma, attempts |-> 0, created_at |-> 0]
  <2>1. e \in Entrada
    BY Faixas, Limites DEF Entrada
  <2>2. webhook_queue = [i \in Filas |-> e] /\ via = [v \in Vias |-> ViaLivre]
        /\ trabalhador = Ocioso /\ proxima = 1 /\ spool = {} /\ hora = 0 /\ faltas = 0
    BY DEF Init, InitPonte
  <2> HIDE DEF e
  <2>3. 1 \in 1..(MaxFila + 1) /\ 0 \in 0..MaxHora /\ 0 \in 0..MaxFaltas
    BY Limites
  <2> QED
    BY <2>1, <2>2, <2>3, Livres DEF TypeOKPonte
<1>2. RefsPonte
  BY Livres DEF Init, InitPonte, RefsPonte, Filas
<1>3. TypeOKGleam /\ RefsGleam
  <2> DEFINE t == [pc |-> "ausente", msg |-> Nenhuma, linha |-> 0, tardia |-> FALSE, faltou |-> FALSE]
  <2>1. t \in Tratador /\ t.pc = "ausente" /\ t.linha = 0
    BY Faixas DEF Tratador, Passos
  <2>2. tratador = [h \in Tratadores |-> t] /\ gleam = "no ar"
        /\ recebidas = [m \in Mensagens |-> Ausente] /\ processadas = [m \in Mensagens |-> 0]
        /\ sobrepostas = {} /\ interrompidas = {}
    BY DEF Init, InitGleam
  <2> HIDE DEF t
  <2>3. Ausente \in 0..Ausente
    BY Limites DEF Ausente
  <2> QED
    BY <2>1, <2>2, <2>3 DEF TypeOKGleam, RefsGleam
<1> QED
  BY <1>1, <1>2, <1>3 DEF Ponte, Gleam

(* Every reachable state is well typed; in particular no row is tried more *)
(* than MaxTentativas times, whatever its marks overwrite.                 *)
THEOREM TypeCorrect == Spec => []TypeOK
<1>1. Ponte /\ Gleam => TypeOK
  BY DEF Ponte, Gleam, TypeOK
<1> QED
  BY <1>1, TipoInicial, TipoSempre, PTL DEF Spec

---------------------------------------------------------------------------
(* What no step takes back: a handler keeps its row and its message and    *)
(* does not load its media twice, a row keeps its message and its age, and *)
(* the clock does not go back.                                             *)
Avanca ==
  /\ \A h \in Tratadores : tratador[h].pc # "ausente" =>
       /\ tratador'[h].pc # "ausente"
       /\ tratador'[h].linha = tratador[h].linha /\ tratador'[h].msg = tratador[h].msg
       /\ tratador[h].pc # "carregar" => tratador'[h].pc # "carregar"
  /\ \A i \in Filas : i < proxima =>
       /\ webhook_queue'[i].msg = webhook_queue[i].msg
       /\ webhook_queue'[i].created_at = webhook_queue[i].created_at
  /\ hora' >= hora

(* Rows change only in their state and their attempts. *)
LEMMA LinhasFicam ==
  ASSUME Ponte,
         \/ \E v \in Vias : \/ \E m \in Mensagens : ContarIguais(v, m)
                            \/ Enfileirar(v) \/ MarcarNova(v)
         \/ ConsultarFila \/ MarcarRepostada \/ TerminarVarredura \/ cleanupQueue
         \/ \E id \in Filas : ContarTentativa(id)
  PROVE  /\ hora' = hora
         /\ \A i \in Filas : i < proxima =>
              /\ webhook_queue'[i].msg = webhook_queue[i].msg
              /\ webhook_queue'[i].created_at = webhook_queue[i].created_at
<1>0. /\ webhook_queue \in [Filas -> Entrada] /\ via \in [Vias -> Via]
      /\ trabalhador \in Trabalhador /\ proxima \in 1..(MaxFila + 1)
  BY TiposPonte DEF Ponte
<1>1. ASSUME NEW v \in Vias, MarcarNova(v)
      PROVE  /\ hora' = hora
             /\ \A i \in Filas : /\ webhook_queue'[i].msg = webhook_queue[i].msg
                                 /\ webhook_queue'[i].created_at = webhook_queue[i].created_at
  <2> DEFINE id == via[v].id
             nova == [webhook_queue[id] EXCEPT !.estado = "entregue", !.attempts = 1]
  <2>1. id \in Filas
    <3>1. id \in 1..(proxima - 1)
      BY <1>1 DEF MarcarNova, Ponte, RefsPonte
    <3> QED
      BY <1>0, <3>1, Limites DEF Filas
  <2>2. /\ nova \in Entrada /\ nova.msg = webhook_queue[id].msg
        /\ nova.created_at = webhook_queue[id].created_at
    BY <1>0, <2>1, Faixas DEF Entrada
  <2>3. Atualizar(id, nova) /\ hora' = hora
    BY <1>1 DEF MarcarNova
  <2> HIDE DEF id, nova
  <2> QED
    BY <2>1, <2>2, <2>3, Atualizacao
<1>2. CASE MarcarRepostada
  <2> DEFINE id == trabalhador.id
             nova == [webhook_queue[id] EXCEPT !.estado = "entregue"]
  <2>1. id \in Filas
    BY <1>0, <1>2, Limites DEF MarcarRepostada, Ponte, RefsPonte, Filas
  <2>2. /\ nova \in Entrada /\ nova.msg = webhook_queue[id].msg
        /\ nova.created_at = webhook_queue[id].created_at
    BY <1>0, <2>1 DEF Entrada
  <2>3. Atualizar(id, nova) /\ hora' = hora
    BY <1>2 DEF MarcarRepostada
  <2> HIDE DEF id, nova
  <2> QED
    BY <2>1, <2>2, <2>3, Atualizacao
<1>3. ASSUME NEW id \in Filas, ContarTentativa(id)
      PROVE  /\ hora' = hora
             /\ \A i \in Filas : /\ webhook_queue'[i].msg = webhook_queue[i].msg
                                 /\ webhook_queue'[i].created_at = webhook_queue[i].created_at
  <2> DEFINE nova == [webhook_queue[id] EXCEPT !.attempts = @ + 1]
  <2>1. webhook_queue[id].attempts + 1 \in 0..MaxTentativas
    BY <1>0, <1>3, Limites DEF ContarTentativa, Ponte, RefsPonte, Entrada
  <2>2. /\ nova \in Entrada /\ nova.msg = webhook_queue[id].msg
        /\ nova.created_at = webhook_queue[id].created_at
    BY <1>0, <2>1 DEF Entrada
  <2>3. Atualizar(id, nova) /\ hora' = hora
    BY <1>3 DEF ContarTentativa
  <2> HIDE DEF nova
  <2> QED
    BY <2>2, <2>3, Atualizacao
<1>4. ASSUME NEW v \in Vias, Enfileirar(v)
      PROVE  /\ hora' = hora
             /\ \A i \in Filas : i < proxima => webhook_queue'[i] = webhook_queue[i]
  <2>1. \/ UNCHANGED webhook_queue
        \/ \E e : webhook_queue' = [webhook_queue EXCEPT ![proxima] = e]
    BY <1>4, Zenon DEF Enfileirar
  <2>2. hora' = hora
    BY <1>4 DEF Enfileirar
  <2> QED
    BY <1>0, <2>1, <2>2, Faixas
<1>5. CASE cleanupQueue
  <2> DEFINE Fora(i) == [webhook_queue[i] EXCEPT !.estado = "ausente"]
  <2>1. \A i \in Filas : /\ Fora(i).msg = webhook_queue[i].msg
                         /\ Fora(i).created_at = webhook_queue[i].created_at
    BY <1>0 DEF Entrada
  <2>2. /\ webhook_queue' = [i \in Filas |-> IF Expirada(i) THEN Fora(i) ELSE webhook_queue[i]]
        /\ hora' = hora
    BY <1>5 DEF cleanupQueue
  <2> HIDE DEF Fora
  <2>3. \A i \in Filas : webhook_queue'[i] = Fora(i) \/ webhook_queue'[i] = webhook_queue[i]
    BY <2>2
  <2> QED
    BY <2>1, <2>2, <2>3
<1>6. CASE ConsultarFila \/ TerminarVarredura \/ \E v \in Vias, m \in Mensagens : ContarIguais(v, m)
  <2>1. UNCHANGED <<webhook_queue, hora>>
    BY <1>6 DEF ConsultarFila, TerminarVarredura, ContarIguais
  <2> QED
    BY <2>1
<1> QED
  BY <1>1, <1>2, <1>3, <1>4, <1>5, <1>6

(* Every step goes forward. *)
LEMMA Avancos == Ponte /\ Gleam /\ [Next]_vars => Avanca
<1> SUFFICES ASSUME Ponte, Gleam, [Next]_vars PROVE Avanca
  OBVIOUS
<1>0. hora \in Nat
  BY TiposPonte, Limites DEF Ponte
<1>1. ASSUME NEW v \in Vias, UNCHANGED varsGleam,
             (\E m \in Mensagens : ContarIguais(v, m)) \/ Enfileirar(v) \/ MarcarNova(v)
      PROVE  Avanca
  BY <1>0, <1>1, LinhasFicam DEF Avanca, varsGleam
<1>2. ASSUME UNCHANGED varsGleam,
             \/ ConsultarFila \/ MarcarRepostada \/ TerminarVarredura \/ cleanupQueue
             \/ \E id \in Filas : ContarTentativa(id)
      PROVE  Avanca
  BY <1>0, <1>2, LinhasFicam DEF Avanca, varsGleam
<1>3. ASSUME NEW id \in 1..(proxima - 1), NEW ok \in BOOLEAN, Postar(id, ok),
             UNCHANGED <<webhook_queue, proxima, hora>>
      PROVE  Avanca
  <2>1. Despachar(id) \/ UNCHANGED varsGleam
    BY <1>3, Zenon DEF Postar
  <2>2. CASE Despachar(id)
    <3>1. PICK h \in Tratadores : Comeca(h, id)
      BY <2>2, Despacho DEF Gleam
    <3> QED
      BY <1>0, <1>3, <3>1 DEF Avanca, Comeca
  <2>3. CASE UNCHANGED varsGleam
    BY <1>0, <1>3, <2>3 DEF Avanca, varsGleam
  <2> QED
    BY <2>1, <2>2, <2>3
<1>4. ASSUME NEW h \in Tratadores, PassoTratador(h) \/ MatarTardia(h),
             UNCHANGED <<webhook_queue, hora>>
      PROVE  Avanca
  <2>1. PICK pc \in {"checar", "marcar", "processar", "fim"} : Segue(h, pc)
    BY <1>4, Andares DEF Gleam, PassoTratador
  <2> QED
    BY <1>0, <1>4, <2>1 DEF Avanca, Segue
<1>5. ASSUME Cair, UNCHANGED <<webhook_queue, hora>> PROVE Avanca
  <2>1. tratador \in [Tratadores -> Tratador] /\ TypeOKGleam
    BY TiposGleam DEF Gleam
  <2>2. \A h \in Tratadores : \/ tratador'[h] = tratador[h]
                              \/ tratador[h].pc # "ausente" /\ tratador'[h] = Fim(h)
    BY <1>5, <2>1, Queda
  <2> QED
    BY <1>0, <1>5, <2>1, <2>2, Fins DEF Avanca
<1>6. ASSUME UNCHANGED <<webhook_queue, tratador>>, hora' = hora \/ hora' = hora + 1 PROVE Avanca
  BY <1>0, <1>6 DEF Avanca
<1>7. ASSUME NEW v \in Vias, PostarNova(v) PROVE Avanca
  <2>1. PICK ok \in BOOLEAN : Postar(via[v].id, ok) /\ DepoisDePostarNova(v, ok)
    BY <1>7 DEF PostarNova
  <2>2. via[v].id \in 1..(proxima - 1)
    BY <1>7 DEF PostarNova, Ponte, RefsPonte
  <2> QED
    BY <1>3, <2>1, <2>2 DEF DepoisDePostarNova
<1>8. CASE Repostar
  <2>1. PICK ok \in BOOLEAN : Postar(trabalhador.id, ok) /\ DepoisDeRepostar(ok)
    BY <1>8 DEF Repostar
  <2>2. trabalhador.id \in 1..(proxima - 1)
    BY <1>8 DEF Repostar, Ponte, RefsPonte
  <2> QED
    BY <1>3, <2>1, <2>2 DEF DepoisDeRepostar
<1>9. CASE Manutencao /\ UNCHANGED <<webhook_queue, proxima, via, trabalhador, hora>>
  BY <1>6, <1>9 DEF Manutencao
<1>10. CASE Falhas
  <2>1. CASE ReiniciarPonte /\ UNCHANGED varsGleam
    BY <1>6, <2>1 DEF ReiniciarPonte, varsGleam
  <2>2. CASE Subir /\ UNCHANGED <<webhook_queue, proxima, via, trabalhador, hora>>
    BY <1>6, <2>2 DEF Subir
  <2> QED
    BY <1>4, <1>5, <1>10, <2>1, <2>2 DEF Falhas
<1>11. CASE Relogio
  BY <1>6, <1>11 DEF Relogio, varsPonte, varsGleam
<1>12. CASE UNCHANGED vars
  BY <1>6, <1>12 DEF vars, varsPonte, varsGleam
<1> QED
  BY <1>1, <1>2, <1>4, <1>7, <1>8, <1>9, <1>10, <1>11, <1>12
     DEF Next, Chegar, PassoVia, PassoTrabalhador, PassoGleam, Limpezas

---------------------------------------------------------------------------
(* A row marked delivered, or about to be, was taken by Gleam. *)
Provada ==
  /\ EntregueFoiAceita
  /\ \A v \in Vias : via[v].pc = "marcar" => Aceita(via[v].id)
  /\ trabalhador.pc = "marcar" => Aceita(trabalhador.id)

(* Gleam took row i, after the step. *)
Depois(i) == \E h \in Tratadores : tratador'[h].linha = i

(* A post that succeeds started a handler. *)
LEMMA PostarAceita ==
  ASSUME Ponte, Gleam, NEW id \in 1..(proxima - 1), Postar(id, TRUE)
  PROVE  Depois(id)
<1>1. Despachar(id)
  BY Zenon DEF Postar
<1>2. PICK h \in Tratadores : Comeca(h, id)
  BY <1>1, Despacho DEF Gleam
<1> QED
  BY <1>2 DEF Depois, Comeca

(* A step keeps it: the mark follows the post. *)
LEMMA ProvadaSempre == Ponte /\ Gleam /\ Provada /\ [Next]_vars => Provada'
<1> SUFFICES ASSUME Ponte, Gleam, Provada, [Next]_vars PROVE Provada'
  OBVIOUS
<1>0. /\ webhook_queue \in [Filas -> Entrada] /\ via \in [Vias -> Via]
      /\ trabalhador \in Trabalhador /\ proxima \in 1..(MaxFila + 1)
  BY TiposPonte DEF Ponte
<1>1. \A i \in Nat \ {0} : Aceita(i) => Depois(i)
  BY Avancos DEF Avanca, Aceita, Depois, Gleam, RefsGleam
<1>2. \A v \in Vias : via[v].pc = "marcar" => Aceita(via[v].id) /\ Depois(via[v].id)
                        /\ via[v].id \in Filas
  <2>1. \A v \in Vias : via[v].pc = "marcar" => via[v].id \in 1..(proxima - 1)
    BY DEF Ponte, RefsPonte
  <2>2. 1..(proxima - 1) \subseteq Nat \ {0} /\ 1..(proxima - 1) \subseteq Filas
    BY <1>0, Limites DEF Filas
  <2> QED
    BY <1>1, <2>1, <2>2 DEF Provada
<1>3. trabalhador.pc = "marcar" => Aceita(trabalhador.id) /\ Depois(trabalhador.id)
                        /\ trabalhador.id \in Filas
  <2>1. trabalhador.pc = "marcar" => trabalhador.id \in 1..(proxima - 1)
    BY DEF Ponte, RefsPonte
  <2>2. 1..(proxima - 1) \subseteq Nat \ {0} /\ 1..(proxima - 1) \subseteq Filas
    BY <1>0, Limites DEF Filas
  <2> QED
    BY <1>1, <2>1, <2>2 DEF Provada
<1>4. \A i \in Filas : webhook_queue[i].estado = "entregue" => Depois(i)
  <2>1. \A i \in Filas : i \in Nat \ {0}
    BY DEF Filas
  <2> QED
    BY <1>1, <2>1 DEF Provada, EntregueFoiAceita
<1>5. ASSUME UNCHANGED <<webhook_queue, via, trabalhador>> PROVE Provada'
  BY <1>2, <1>3, <1>4, <1>5 DEF Provada, EntregueFoiAceita, Aceita, Depois
<1>6. ASSUME NEW v \in Vias, (\E m \in Mensagens : ContarIguais(v, m)) \/ Enfileirar(v)
      PROVE  Provada'
  <2>1. UNCHANGED trabalhador
    BY <1>6 DEF ContarIguais, Enfileirar
  <2>2. \A w \in Vias : via'[w].pc = "marcar" => w # v /\ via'[w] = via[w]
    <3>1. CASE \E m \in Mensagens : ContarIguais(v, m)
      <4>1. PICK m \in Mensagens : via' = [via EXCEPT ![v].pc = "inserir", ![v].msg = m]
        BY <3>1 DEF ContarIguais
      <4>2. via'[v].pc = "inserir"
        BY <1>0, <4>1 DEF Via
      <4> QED
        BY <1>0, <4>1, <4>2
    <3>2. CASE Enfileirar(v)
      <4>1. \/ via' = [via EXCEPT ![v].pc = "postar", ![v].id = proxima]
            \/ via' = [via EXCEPT ![v] = ViaLivre]
        BY <3>2 DEF Enfileirar
      <4>2. via'[v].pc \in {"postar", "livre"}
        BY <1>0, <4>1, Livres DEF Via
      <4> QED
        BY <1>0, <4>1, <4>2
    <3> QED
      BY <1>6, <3>1, <3>2
  <2>3. \A i \in Filas : webhook_queue'[i].estado = "entregue" => webhook_queue[i].estado = "entregue"
    <3>1. \/ UNCHANGED webhook_queue
          \/ \E e : e.estado = "pendente" /\ webhook_queue' = [webhook_queue EXCEPT ![proxima] = e]
      <4>1. CASE \E m \in Mensagens : ContarIguais(v, m)
        BY <4>1 DEF ContarIguais
      <4>2. CASE Enfileirar(v)
        <5> DEFINE e == [estado |-> "pendente", msg |-> via[v].msg, attempts |-> 0, created_at |-> hora]
        <5>1. UNCHANGED webhook_queue \/ webhook_queue' = [webhook_queue EXCEPT ![proxima] = e]
          BY <4>2 DEF Enfileirar
        <5>2. e.estado = "pendente"
          OBVIOUS
        <5> HIDE DEF e
        <5> QED
          BY <5>1, <5>2
      <4> QED
        BY <1>6, <4>1, <4>2
    <3> QED
      BY <1>0, <3>1
  <2> QED
    BY <1>2, <1>3, <1>4, <2>1, <2>2, <2>3 DEF Provada, EntregueFoiAceita, Aceita, Depois
<1>7. ASSUME NEW v \in Vias, MarcarNova(v) PROVE Provada'
  <2> DEFINE id == via[v].id
             nova == [webhook_queue[id] EXCEPT !.estado = "entregue", !.attempts = 1]
  <2>1. via[v].pc = "marcar" /\ Atualizar(id, nova) /\ via' = [via EXCEPT ![v] = ViaLivre]
        /\ UNCHANGED trabalhador
    BY <1>7 DEF MarcarNova
  <2>2. \A i \in Filas \ {id} : webhook_queue'[i] = webhook_queue[i]
    BY <1>0, <2>1, Zenon DEF Atualizar
  <2>3. Depois(id)
    BY <1>2, <2>1
  <2> HIDE DEF id, nova
  <2>4. \A i \in Filas : webhook_queue'[i].estado = "entregue" => Depois(i)
    BY <1>4, <2>2, <2>3
  <2>5. \A w \in Vias : via'[w].pc = "marcar" => via'[w] = via[w]
    BY <1>0, <2>1, Livres
  <2> QED
    BY <1>2, <1>3, <2>1, <2>4, <2>5 DEF Provada, EntregueFoiAceita, Aceita, Depois
<1>8. CASE MarcarRepostada
  <2> DEFINE id == trabalhador.id
             nova == [webhook_queue[id] EXCEPT !.estado = "entregue"]
  <2>1. trabalhador.pc = "marcar" /\ Atualizar(id, nova) /\ UNCHANGED via
        /\ trabalhador' = [trabalhador EXCEPT !.pc = "varrendo", !.id = 0]
    BY <1>8 DEF MarcarRepostada
  <2>2. \A i \in Filas \ {id} : webhook_queue'[i] = webhook_queue[i]
    BY <1>0, <2>1, Zenon DEF Atualizar
  <2>3. Depois(id)
    BY <1>3, <2>1
  <2>4. trabalhador'.pc = "varrendo"
    BY <1>0, <2>1 DEF Trabalhador
  <2> HIDE DEF id, nova
  <2>5. \A i \in Filas : webhook_queue'[i].estado = "entregue" => Depois(i)
    BY <1>4, <2>2, <2>3
  <2> QED
    BY <1>2, <2>1, <2>4, <2>5 DEF Provada, EntregueFoiAceita, Aceita, Depois
<1>9. CASE ConsultarFila \/ TerminarVarredura
  <2>1. trabalhador'.pc \in {"varrendo", "ocioso"} /\ UNCHANGED <<webhook_queue, via>>
    BY <1>9, Livres DEF ConsultarFila, TerminarVarredura, Trabalhador
  <2> QED
    BY <1>2, <1>4, <2>1 DEF Provada, EntregueFoiAceita, Aceita, Depois
<1>10. ASSUME NEW id \in Filas, ContarTentativa(id) PROVE Provada'
  <2> DEFINE nova == [webhook_queue[id] EXCEPT !.attempts = @ + 1]
  <2>1. Atualizar(id, nova) /\ trabalhador'.pc = "postar" /\ UNCHANGED via
    BY <1>10 DEF ContarTentativa
  <2>2. nova.estado = webhook_queue[id].estado
    BY <1>0 DEF Entrada
  <2> HIDE DEF nova
  <2>3. \A i \in Filas : webhook_queue'[i].estado = webhook_queue[i].estado
    BY <1>0, <2>1, <2>2 DEF Atualizar
  <2> QED
    BY <1>2, <1>4, <2>1, <2>3 DEF Provada, EntregueFoiAceita, Aceita, Depois
<1>11. CASE cleanupQueue
  <2> DEFINE Fora(i) == [webhook_queue[i] EXCEPT !.estado = "ausente"]
  <2>1. \A i \in Filas : Fora(i).estado = "ausente"
    BY <1>0 DEF Entrada
  <2>2. /\ webhook_queue' = [i \in Filas |-> IF Expirada(i) THEN Fora(i) ELSE webhook_queue[i]]
        /\ UNCHANGED <<via, trabalhador>>
    BY <1>11 DEF cleanupQueue
  <2> HIDE DEF Fora
  <2>3. \A i \in Filas : webhook_queue'[i] = Fora(i) \/ webhook_queue'[i] = webhook_queue[i]
    BY <2>2
  <2> QED
    BY <1>2, <1>3, <1>4, <2>1, <2>2, <2>3 DEF Provada, EntregueFoiAceita, Aceita, Depois
<1>12. ASSUME NEW v \in Vias, PostarNova(v) PROVE Provada'
  <2>1. PICK ok \in BOOLEAN : Postar(via[v].id, ok) /\ DepoisDePostarNova(v, ok)
    BY <1>12 DEF PostarNova
  <2>2. via[v].id \in 1..(proxima - 1)
    BY <1>12 DEF PostarNova, Ponte, RefsPonte
  <2>3. UNCHANGED <<webhook_queue, trabalhador>>
    BY <2>1 DEF DepoisDePostarNova
  <2>4. CASE ok = TRUE
    <3>1. Depois(via[v].id)
      BY <2>1, <2>2, <2>4, PostarAceita
    <3>2. via' = [via EXCEPT ![v].pc = "marcar"]
      BY <2>1, <2>4 DEF DepoisDePostarNova
    <3>3. \A w \in Vias : via'[w].id = via[w].id /\ (w # v => via'[w] = via[w])
      BY <1>0, <3>2 DEF Via
    <3> QED
      BY <1>2, <1>3, <1>4, <2>3, <3>1, <3>3 DEF Provada, EntregueFoiAceita, Aceita, Depois
  <2>5. CASE ok = FALSE
    <3>1. via' = [via EXCEPT ![v] = ViaLivre]
      BY <2>1, <2>5 DEF DepoisDePostarNova
    <3>2. \A w \in Vias : via'[w].pc = "marcar" => via'[w] = via[w]
      BY <1>0, <3>1, Livres
    <3> QED
      BY <1>2, <1>3, <1>4, <2>3, <3>2 DEF Provada, EntregueFoiAceita, Aceita, Depois
  <2> QED
    BY <2>4, <2>5
<1>13. CASE Repostar
  <2>1. PICK ok \in BOOLEAN : Postar(trabalhador.id, ok) /\ DepoisDeRepostar(ok)
    BY <1>13 DEF Repostar
  <2>2. trabalhador.id \in 1..(proxima - 1)
    BY <1>13 DEF Repostar, Ponte, RefsPonte
  <2>3. UNCHANGED <<webhook_queue, via>>
    BY <2>1 DEF DepoisDeRepostar
  <2>4. CASE ok = TRUE
    <3>1. Depois(trabalhador.id)
      BY <2>1, <2>2, <2>4, PostarAceita
    <3>2. trabalhador' = [trabalhador EXCEPT !.pc = "marcar"]
      BY <2>1, <2>4 DEF DepoisDeRepostar
    <3>3. trabalhador'.id = trabalhador.id
      BY <1>0, <3>2 DEF Trabalhador
    <3> QED
      BY <1>2, <1>4, <2>3, <3>1, <3>3 DEF Provada, EntregueFoiAceita, Aceita, Depois
  <2>5. CASE ok = FALSE
    <3>1. trabalhador' = Ocioso
      BY <2>1, <2>5 DEF DepoisDeRepostar
    <3> QED
      BY <1>2, <1>4, <2>3, <3>1, Livres DEF Provada, EntregueFoiAceita, Aceita, Depois
  <2> QED
    BY <2>4, <2>5
<1>14. ASSUME ReiniciarPonte PROVE Provada'
  <2>1. /\ via' = [v \in Vias |-> ViaLivre] /\ trabalhador' = Ocioso /\ UNCHANGED webhook_queue
    BY <1>14 DEF ReiniciarPonte
  <2> QED
    BY <1>4, <2>1, Livres DEF Provada, EntregueFoiAceita, Aceita, Depois
<1>15. CASE Relogio \/ UNCHANGED vars
  BY <1>5, <1>15 DEF Relogio, vars, varsPonte
<1> QED
  BY <1>5, <1>6, <1>7, <1>8, <1>9, <1>10, <1>11, <1>12, <1>13, <1>14, <1>15
     DEF Next, Chegar, PassoVia, PassoTrabalhador, PassoGleam, Limpezas, Falhas

(* For any number of goroutines, rows and restarts: a row marked delivered *)
(* was taken by Gleam.                                                     *)
THEOREM EntregueCorrect == Spec => []EntregueFoiAceita
<1>1. Init => Provada
  <2> SUFFICES ASSUME Init PROVE Provada
    OBVIOUS
  <2>1. /\ \A i \in Filas : webhook_queue[i].estado = "ausente"
        /\ via = [v \in Vias |-> ViaLivre] /\ trabalhador = Ocioso
    BY DEF Init, InitPonte
  <2> QED
    BY <2>1, Livres DEF Provada, EntregueFoiAceita
<1>2. Provada => EntregueFoiAceita
  BY DEF Provada
<1> QED
  BY <1>1, <1>2, TipoInicial, TipoSempre, ProvadaSempre, PTL DEF Spec

---------------------------------------------------------------------------
(* Handler h found message m new, or has yet to look; h acts on m. *)
Espera(h, m) == SemMarca(h) /\ tratador[h].msg = m
Marca(h, m) == tratador[h].pc = "marcar" /\ tratador[h].msg = m
Age(h, m) == tratador[h].pc = "processar" /\ tratador[h].msg = m

Atendida(m) == processadas[m] > 0 \/ \E h \in Tratadores : Age(h, m)

(* One handler at a time has m, and while m may still be found new, or is  *)
(* about to be marked, nobody has acted on it.                             *)
Uma(m) ==
  /\ \A g, h \in Tratadores : Espera(g, m) /\ Espera(h, m) => g = h
  /\ \A g, h \in Tratadores : Age(g, m) /\ Age(h, m) => g = h
  /\ \A h \in Tratadores : Age(h, m) => processadas[m] = 0
  /\ \A h \in Tratadores : Marca(h, m) => ~Atendida(m)
  /\ recebidas[m] = Ausente /\ hora <= IdadeMaxima => ~Atendida(m)
  /\ processadas[m] <= 1

Unica == \A m \in Mensagens \ sobrepostas : Uma(m)

(* Handlers that stop, ids that are kept and time that passes break nothing. *)
LEMMA UmaFica ==
  ASSUME Ponte, NEW m \in Mensagens, Uma(m), processadas'[m] = processadas[m],
         hora' \in Nat, hora' >= hora,
         recebidas'[m] = recebidas[m] \/ recebidas'[m] # Ausente \/ hora > IdadeMaxima,
         \A h \in Tratadores : /\ Espera(h, m)' => Espera(h, m)
                               /\ Marca(h, m)' => Marca(h, m)
                               /\ Age(h, m)' => Age(h, m)
  PROVE  Uma(m)'
<1>1. hora \in Nat
  BY TiposPonte, Limites DEF Ponte
<1>2. Atendida(m)' => Atendida(m)
  BY DEF Atendida
<1>3. /\ (\A g, h \in Tratadores : Espera(g, m) /\ Espera(h, m) => g = h)'
      /\ (\A g, h \in Tratadores : Age(g, m) /\ Age(h, m) => g = h)'
      /\ (\A h \in Tratadores : Age(h, m) => processadas[m] = 0)'
      /\ (\A h \in Tratadores : Marca(h, m) => ~Atendida(m))'
      /\ processadas'[m] <= 1
  BY <1>2, Zenon DEF Uma
<1>4. recebidas'[m] = Ausente /\ hora' <= IdadeMaxima => ~Atendida(m)'
  BY <1>1, <1>2, Limites DEF Uma
<1> QED
  BY <1>3, <1>4 DEF Uma, Ausente

(* A step that leaves the handlers alone. *)
LEMMA UnicaFica ==
  ASSUME Ponte, Gleam, Unica, UNCHANGED <<tratador, processadas, sobrepostas>>,
         hora' \in Nat, hora' >= hora, UNCHANGED recebidas \/ Manutencao
  PROVE  Unica'
<1> SUFFICES ASSUME NEW m \in Mensagens \ sobrepostas PROVE Uma(m)'
  BY DEF Unica
<1>1. recebidas'[m] = recebidas[m] \/ hora > IdadeMaxima
  <2>1. CASE Manutencao
    <3>1. recebidas[m] \in 0..Ausente /\ hora \in 0..MaxHora
      BY TiposGleam, TiposPonte DEF Gleam, Ponte
    <3>2. recebidas'[m] = recebidas[m] \/ hora - recebidas[m] > RetencaoRecebidas
      BY <2>1 DEF Manutencao
    <3> QED
      BY <3>1, <3>2, Limites DEF Ausente
  <2> QED
    BY <2>1
<1>2. \A h \in Tratadores : /\ Espera(h, m)' => Espera(h, m)
                            /\ Marca(h, m)' => Marca(h, m)
                            /\ Age(h, m)' => Age(h, m)
  BY DEF Espera, Marca, Age, SemMarca
<1> QED
  BY <1>1, <1>2, UmaFica DEF Unica

(* A post: if the message is with a handler that has not marked it, the    *)
(* checks of the two overlap.                                              *)
LEMMA UnicaPostar ==
  ASSUME Ponte, Gleam, Unica, NEW id \in 1..(proxima - 1), NEW ok \in BOOLEAN,
         Postar(id, ok), UNCHANGED hora
  PROVE  Unica'
<1>0. hora \in Nat
  BY TiposPonte, Limites DEF Ponte
<1>1. Despachar(id) \/ UNCHANGED varsGleam
  BY Zenon DEF Postar
<1>2. CASE UNCHANGED varsGleam
  BY <1>0, <1>2, UnicaFica DEF varsGleam
<1>3. ASSUME NEW h \in Tratadores, Comeca(h, id), NEW m \in Mensagens \ sobrepostas' PROVE Uma(m)'
  <2>1. m \in Mensagens \ sobrepostas /\ Uma(m)
    BY <1>3 DEF Comeca, Unica
  <2>2. /\ \A g \in Tratadores \ {h} : tratador'[g] = tratador[g]
        /\ tratador'[h].pc \in {"checar", "carregar"}
        /\ tratador'[h].msg = webhook_queue[id].msg
        /\ UNCHANGED <<recebidas, processadas>>
    BY <1>3 DEF Comeca
  <2>3. CASE m # webhook_queue[id].msg
    <3>1. \A g \in Tratadores : /\ Espera(g, m)' => Espera(g, m)
                                /\ Marca(g, m)' => Marca(g, m)
                                /\ Age(g, m)' => Age(g, m)
      BY <2>2, <2>3 DEF Espera, Marca, Age, SemMarca
    <3> QED
      BY <1>0, <2>1, <2>2, <3>1, UmaFica
  <2>4. CASE m = webhook_queue[id].msg
    <3>1. \A g \in Tratadores : ~Espera(g, m)
      BY <1>3, <2>4 DEF Comeca, Espera
    <3>2. \A g \in Tratadores : /\ Espera(g, m)' => g = h
                                /\ ~Marca(g, m)'
                                /\ Age(g, m)' => Age(g, m)
      BY <2>2, <3>1 DEF Espera, Marca, Age, SemMarca
    <3>3. Atendida(m)' => Atendida(m)
      BY <2>2, <3>2 DEF Atendida
    <3> QED
      BY <2>1, <2>2, <3>2, <3>3, Zenon DEF Uma, Ausente
  <2> QED
    BY <2>3, <2>4
<1>4. CASE Despachar(id)
  BY <1>3, <1>4, Despacho DEF Gleam, Unica
<1> QED
  BY <1>1, <1>2, <1>4

(* The steps of a handler: it acts only after the mark, and marks only if  *)
(* nobody has acted.                                                       *)
LEMMA UnicaTratador ==
  ASSUME Ponte, Gleam, Unica, NEW h \in Tratadores, UNCHANGED hora,
         PassoTratador(h) \/ MatarTardia(h)
  PROVE  Unica'
<1>0. /\ hora \in Nat /\ hora \in 0..MaxHora
      /\ recebidas \in [Mensagens -> 0..Ausente] /\ processadas \in [Mensagens -> Nat]
  <2>1. hora \in 0..MaxHora
    BY TiposPonte DEF Ponte
  <2>2. recebidas \in [Mensagens -> 0..Ausente] /\ processadas \in [Mensagens -> Nat]
    BY TiposGleam DEF Gleam
  <2>3. hora \in Nat
    BY <2>1, Limites
  <2> QED
    BY <2>1, <2>2, <2>3
<1> DEFINE t == tratador[h].msg
<1>1. tratador[h].pc # "ausente" => t \in Mensagens
  BY DEF Gleam, RefsGleam
<1> SUFFICES ASSUME NEW m \in Mensagens \ sobrepostas' PROVE Uma(m)'
  BY DEF Unica
<1>2. m \in Mensagens \ sobrepostas /\ Uma(m)
  <2>1. sobrepostas \subseteq sobrepostas'
    BY DEF PassoTratador, CarregarMidia, Checar, Marcar, Processar, MatarTardia
  <2> QED
    BY <2>1 DEF Unica
<1>3. ASSUME NEW pc \in Passos, Segue(h, pc), processadas'[m] = processadas[m],
             recebidas'[m] = recebidas[m],
             \/ m # t \/ pc = "fim"
             \/ pc = "checar" /\ tratador[h].pc = "carregar"
      PROVE  Uma(m)'
  <2>1. \A g \in Tratadores : /\ Espera(g, m)' => Espera(g, m)
                              /\ Marca(g, m)' => Marca(g, m)
                              /\ Age(g, m)' => Age(g, m)
    BY <1>3 DEF Segue, Espera, Marca, Age, SemMarca
  <2> QED
    BY <1>0, <1>2, <1>3, <2>1, UmaFica
<1>4. {"checar", "marcar", "processar", "fim"} \subseteq Passos
  BY DEF Passos
<1>5. CASE CarregarMidia(h)
  BY <1>3, <1>4, <1>5, Andares DEF CarregarMidia, Gleam
<1>6. CASE Checar(h)
  <2>1. UNCHANGED <<recebidas, processadas>> /\ tratador[h].pc = "checar"
    BY <1>6 DEF Checar, Passo
  <2>2. PICK pc \in {"marcar", "processar", "fim"} : Segue(h, pc)
    BY <1>6, Andares DEF Gleam
  <2>3. CASE m # t \/ pc = "fim"
    BY <1>3, <1>4, <2>1, <2>2, <2>3
  <2>4. CASE m = t /\ pc # "fim"
    <3>1. hora <= IdadeMaxima /\ recebidas[m] = Ausente /\ pc = "marcar"
      <4>1. \/ /\ ~mensagem_antiga /\ recebidas[t] = Ausente
               /\ tratador' = [tratador EXCEPT ![h] = [@ EXCEPT !.pc = "marcar"]]
            \/ tratador' = [tratador EXCEPT ![h] = Fim(h)]
            \/ sobrepostas' = sobrepostas \cup {t}
        BY <1>6 DEF Checar
      <4>2. tratador \in [Tratadores -> Tratador]
        BY TiposGleam DEF Gleam
      <4>3. tratador' # [tratador EXCEPT ![h] = Fim(h)]
        BY <2>2, <2>4, <4>2, Fins DEF Segue
      <4>4. /\ ~mensagem_antiga /\ recebidas[t] = Ausente
            /\ tratador' = [tratador EXCEPT ![h] = [@ EXCEPT !.pc = "marcar"]]
        BY <2>4, <4>1, <4>3
      <4>5. tratador'[h].pc = "marcar"
        BY <4>2, <4>4 DEF Tratador
      <4> QED
        BY <1>0, <2>2, <2>4, <4>4, <4>5, Limites DEF Segue, mensagem_antiga
    <3>2. ~Atendida(m)
      BY <1>2, <3>1 DEF Uma
    <3>3. \A g \in Tratadores : /\ Espera(g, m)' => Espera(g, m)
                                /\ Age(g, m)' => Age(g, m)
      BY <2>1, <2>2, <3>1 DEF Segue, Espera, Age, SemMarca
    <3>4. ~Atendida(m)'
      BY <2>1, <3>2, <3>3 DEF Atendida
    <3> QED
      BY <1>2, <2>1, <3>3, <3>4, Zenon DEF Uma
  <2> QED
    BY <2>3, <2>4
<1>7. CASE Marcar(h)
  <2>1. /\ Segue(h, "processar") /\ tratador[h].pc = "marcar"
        /\ UNCHANGED processadas
    BY <1>7, Andares DEF Gleam, Marcar
  <2>2. recebidas' = recebidas
          \/ recebidas' = [recebidas EXCEPT ![t] = IF @ = Ausente THEN hora ELSE @]
    BY <1>7 DEF Marcar
  <2>3. CASE m # t
    <3>1. recebidas'[m] = recebidas[m]
      BY <1>0, <2>2, <2>3
    <3> QED
      BY <1>3, <1>4, <2>1, <2>3, <3>1
  <2>4. CASE m = t
    <3>1. recebidas' = [recebidas EXCEPT ![t] = IF @ = Ausente THEN hora ELSE @]
      BY <1>7, <2>4 DEF Marcar
    <3>2. recebidas'[m] # Ausente
      BY <1>0, <2>4, <3>1, Limites DEF Ausente
    <3>3. Espera(h, m) /\ Marca(h, m)
      BY <2>1, <2>4 DEF Espera, Marca, SemMarca
    <3>4. ~Atendida(m) /\ \A g \in Tratadores : Espera(g, m) => g = h
      BY <1>2, <3>3 DEF Uma
    <3>5. processadas[m] = 0 /\ \A g \in Tratadores : ~Age(g, m)
      BY <1>0, <3>4 DEF Atendida
    <3>6. \A g \in Tratadores : /\ ~Espera(g, m)' /\ ~Marca(g, m)'
                                /\ Age(g, m)' => g = h
      BY <2>1, <3>4, <3>5 DEF Segue, Espera, Marca, Age, SemMarca
    <3>7. processadas'[m] = 0
      BY <2>1, <3>5
    <3> QED
      BY <3>2, <3>6, <3>7 DEF Uma, Ausente
  <2> QED
    BY <2>3, <2>4
<1>8. CASE Processar(h)
  <2>1. /\ Segue(h, "fim") /\ tratador[h].pc = "processar"
        /\ UNCHANGED recebidas /\ processadas' = [processadas EXCEPT ![t] = @ + 1]
    BY <1>8, Andares DEF Gleam, Processar
  <2>2. CASE m # t
    <3>1. processadas'[m] = processadas[m]
      BY <1>0, <2>1, <2>2
    <3> QED
      BY <1>3, <1>4, <2>1, <2>2, <3>1
  <2>3. CASE m = t
    <3>1. Age(h, m) /\ Atendida(m)
      BY <2>1, <2>3 DEF Age, Atendida
    <3>2. /\ processadas[m] = 0 /\ ~(recebidas[m] = Ausente /\ hora <= IdadeMaxima)
          /\ \A g \in Tratadores : ~Marca(g, m) /\ (Age(g, m) => g = h)
          /\ \A g, k \in Tratadores : Espera(g, m) /\ Espera(k, m) => g = k
      BY <1>2, <3>1, Zenon DEF Uma
    <3>3. processadas'[m] = 1
      BY <1>0, <2>1, <2>3, <3>2
    <3>4. \A g \in Tratadores : /\ Espera(g, m)' => Espera(g, m)
                                /\ ~Marca(g, m)' /\ ~Age(g, m)'
      BY <2>1, <3>2 DEF Segue, Espera, Marca, Age, SemMarca
    <3>5. ~(recebidas'[m] = Ausente /\ hora' <= IdadeMaxima)
      BY <2>1, <3>2
    <3>6. (\A g, k \in Tratadores : Espera(g, m) /\ Espera(k, m) => g = k)'
      BY <3>2, <3>4
    <3> QED
      BY <3>3, <3>4, <3>5, <3>6 DEF Uma, Ausente
  <2> QED
    BY <2>2, <2>3
<1>9. CASE MatarTardia(h)
  BY <1>3, <1>4, <1>9, Andares DEF MatarTardia, Gleam
<1> QED
  BY <1>5, <1>6, <1>7, <1>8, <1>9 DEF PassoTratador

(* Every step keeps it. *)
LEMMA UnicaSempre == Ponte /\ Gleam /\ Unica /\ [Next]_vars => Unica'
<1> SUFFICES ASSUME Ponte, Gleam, Unica, [Next]_vars PROVE Unica'
  OBVIOUS
<1>0. hora \in Nat
  BY TiposPonte, Limites DEF Ponte
<1>1. ASSUME UNCHANGED varsGleam, hora' = hora \/ hora' = hora + 1 PROVE Unica'
  BY <1>0, <1>1, UnicaFica DEF varsGleam
<1>2. ASSUME NEW v \in Vias, UNCHANGED varsGleam,
             (\E m \in Mensagens : ContarIguais(v, m)) \/ Enfileirar(v) \/ MarcarNova(v)
      PROVE  Unica'
  BY <1>1, <1>2 DEF ContarIguais, Enfileirar, MarcarNova
<1>3. ASSUME UNCHANGED varsGleam,
             \/ ConsultarFila \/ MarcarRepostada \/ TerminarVarredura \/ cleanupQueue
             \/ \E id \in Filas : ContarTentativa(id)
      PROVE  Unica'
  BY <1>1, <1>3 DEF ConsultarFila, MarcarRepostada, TerminarVarredura, cleanupQueue, ContarTentativa
<1>4. ASSUME NEW v \in Vias, PostarNova(v) PROVE Unica'
  <2>1. PICK ok \in BOOLEAN : Postar(via[v].id, ok) /\ DepoisDePostarNova(v, ok)
    BY <1>4 DEF PostarNova
  <2>2. via[v].id \in 1..(proxima - 1)
    BY <1>4 DEF PostarNova, Ponte, RefsPonte
  <2> QED
    BY <2>1, <2>2, UnicaPostar DEF DepoisDePostarNova
<1>5. CASE Repostar
  <2>1. PICK ok \in BOOLEAN : Postar(trabalhador.id, ok) /\ DepoisDeRepostar(ok)
    BY <1>5 DEF Repostar
  <2>2. trabalhador.id \in 1..(proxima - 1)
    BY <1>5 DEF Repostar, Ponte, RefsPonte
  <2> QED
    BY <2>1, <2>2, UnicaPostar DEF DepoisDeRepostar
<1>6. ASSUME Manutencao \/ Subir, UNCHANGED hora PROVE Unica'
  <2>1. /\ UNCHANGED <<tratador, processadas, sobrepostas>>
        /\ UNCHANGED recebidas \/ Manutencao
    BY <1>6 DEF Manutencao, Subir
  <2> QED
    BY <1>0, <1>6, <2>1, UnicaFica
<1>7. ASSUME Cair, UNCHANGED hora PROVE Unica'
  <2>1. UNCHANGED <<recebidas, processadas, sobrepostas>>
    BY <1>7 DEF Cair
  <2>2. \A h \in Tratadores : \/ tratador'[h] = tratador[h]
                              \/ tratador'[h].pc = "fim"
    BY <1>7, Queda, TiposGleam, Fins DEF Gleam
  <2>3. ASSUME NEW m \in Mensagens \ sobrepostas PROVE Uma(m)'
    <3>1. \A h \in Tratadores : /\ Espera(h, m)' => Espera(h, m)
                                /\ Marca(h, m)' => Marca(h, m)
                                /\ Age(h, m)' => Age(h, m)
      BY <2>2 DEF Espera, Marca, Age, SemMarca
    <3> QED
      BY <1>0, <1>7, <2>1, <2>3, <3>1, UmaFica DEF Unica
  <2> QED
    BY <2>1, <2>3 DEF Unica
<1>8. CASE Falhas
  <2>1. CASE ReiniciarPonte /\ UNCHANGED varsGleam
    BY <1>1, <2>1 DEF ReiniciarPonte
  <2> QED
    BY <1>6, <1>7, <1>8, <2>1, UnicaTratador DEF Falhas
<1>9. CASE Relogio \/ UNCHANGED vars
  BY <1>1, <1>9 DEF Relogio, vars
<1> QED
  BY <1>2, <1>3, <1>4, <1>5, <1>6, <1>8, <1>9, UnicaTratador
     DEF Next, Chegar, PassoVia, PassoTrabalhador, PassoGleam, Limpezas

(* For any number of goroutines, rows, handlers and faults: the bot acts   *)
(* twice on a message only if two handlers could find it new.              *)
THEOREM RepeteCorrect == Spec => []SoRepeteSobreposta
<1>1. Init => Unica
  <2> SUFFICES ASSUME Init PROVE Unica
    OBVIOUS
  <2>1. /\ \A h \in Tratadores : tratador[h].pc = "ausente"
        /\ \A m \in Mensagens : processadas[m] = 0
    BY DEF Init, InitGleam
  <2> QED
    BY <2>1 DEF Unica, Uma, Atendida, Espera, Marca, Age, SemMarca
<1>2. Gleam /\ Unica => SoRepeteSobreposta
  <2> SUFFICES ASSUME Gleam, Unica, NEW m \in Mensagens, m \notin sobrepostas
               PROVE ~(processadas[m] > 1)
    BY DEF SoRepeteSobreposta
  <2>1. processadas[m] \in Nat
    BY TiposGleam DEF Gleam
  <2> QED
    BY <2>1 DEF Unica, Uma
<1> QED
  BY <1>1, <1>2, TipoInicial, TipoSempre, UnicaSempre, PTL DEF Spec

---------------------------------------------------------------------------
(* Handler h, about to load its media, does not find it. *)
SemArquivo(h) == tratador[h].pc = "carregar" /\ ~Valida(tratador[h].linha)

(* Somebody has loaded, or found missing, the media of row i. *)
Levada(i) == \E g \in Tratadores : /\ tratador[g].linha = i
                                   /\ tratador[g].pc \notin {"ausente", "carregar"}

(* A media file is gone only if it was read or is old, and only a handler  *)
(* that looked for one misses it.                                          *)
MidiaLevada ==
  /\ \A i \in Filas : i < proxima /\ ~Valida(i) => Idade(i) >= IdadeMidia \/ Levada(i)
  /\ \A h \in Tratadores : tratador[h].faltou => tratador[h].pc # "ausente"
  /\ SoFaltaMidiaRepetida

(* A handler comes to miss its media only by looking for it. *)
LEMMA FaltouPorque ==
  ASSUME Ponte, Gleam, [Next]_vars
  PROVE  \A h \in Tratadores : tratador'[h].faltou => tratador[h].faltou \/ SemArquivo(h)
<1>0. tratador \in [Tratadores -> Tratador]
  BY TiposGleam DEF Gleam
<1> DEFINE Fica == \A h \in Tratadores : tratador'[h].faltou => tratador[h].faltou \/ SemArquivo(h)
<1> SUFFICES Fica
  OBVIOUS
<1>1. ASSUME UNCHANGED tratador PROVE Fica
  BY <1>1
<1>2. ASSUME NEW h \in Tratadores, NEW x \in Tratador, tratador' = [tratador EXCEPT ![h] = x],
             x.faltou => tratador[h].faltou \/ SemArquivo(h)
      PROVE  Fica
  BY <1>0, <1>2
<1>3. ASSUME NEW h \in Tratadores, NEW pc \in Passos, tratador' = [tratador EXCEPT ![h].pc = pc]
      PROVE  Fica
  <2> DEFINE x == [tratador[h] EXCEPT !.pc = pc]
  <2>1. x \in Tratador /\ x.faltou = tratador[h].faltou
    BY <1>0 DEF Tratador
  <2>2. tratador' = [tratador EXCEPT ![h] = x]
    BY <1>3
  <2> HIDE DEF x, Fica
  <2> QED
    BY <1>2, <2>1, <2>2
<1>4. ASSUME NEW h \in Tratadores, tratador' = [tratador EXCEPT ![h] = Fim(h)] PROVE Fica
  <2>1. Fim(h) \in Tratador /\ Fim(h).faltou = tratador[h].faltou
    BY <1>0, Fins
  <2> HIDE DEF Fica
  <2> QED
    BY <1>2, <1>4, <2>1
<1>5. ASSUME NEW h \in Tratadores, CarregarMidia(h) PROVE Fica
  <2> DEFINE falta == ~Valida(tratador[h].linha)
             x == [tratador[h] EXCEPT !.pc = "checar", !.faltou = falta]
  <2>1. falta \in BOOLEAN /\ (falta => SemArquivo(h))
    BY <1>5 DEF CarregarMidia, Passo, SemArquivo
  <2>2. tratador' = [tratador EXCEPT ![h] = x]
    BY <1>5 DEF CarregarMidia
  <2> HIDE DEF falta
  <2>3. x \in Tratador /\ x.faltou = falta
    BY <1>0, <2>1 DEF Tratador, Passos
  <2> HIDE DEF x, Fica
  <2> QED
    BY <1>2, <2>1, <2>2, <2>3
<1>6. {"marcar", "processar"} \subseteq Passos
  BY DEF Passos
<1>7. ASSUME NEW h \in Tratadores, PassoTratador(h) \/ MatarTardia(h) PROVE Fica
  <2>1. \/ CarregarMidia(h) \/ tratador' = [tratador EXCEPT ![h] = Fim(h)]
        \/ tratador' = [tratador EXCEPT ![h].pc = "processar"]
        \/ tratador' = [tratador EXCEPT ![h] = [@ EXCEPT !.pc = "marcar"]]
    BY <1>7, Zenon DEF PassoTratador, Checar, Marcar, Processar, MatarTardia
  <2>2. tratador' = [tratador EXCEPT ![h] = [@ EXCEPT !.pc = "marcar"]]
          => tratador' = [tratador EXCEPT ![h].pc = "marcar"]
    OBVIOUS
  <2> HIDE DEF Fica
  <2> QED
    BY <1>3, <1>4, <1>5, <1>6, <2>1, <2>2
<1>8. ASSUME NEW id \in 1..(proxima - 1), NEW ok \in BOOLEAN, Postar(id, ok) PROVE Fica
  <2>1. Despachar(id) \/ UNCHANGED tratador
    BY <1>8, Zenon DEF Postar, varsGleam
  <2>2. ASSUME NEW h \in Tratadores, Comeca(h, id) PROVE Fica
    BY <2>2 DEF Comeca
  <2> HIDE DEF Fica
  <2> QED
    BY <1>1, <2>1, <2>2, Despacho DEF Gleam
<1>9. ASSUME Cair PROVE Fica
  BY <1>0, <1>9, Queda, Fins DEF Gleam
<1> HIDE DEF Fica
<1>10. ASSUME NEW v \in Vias, PostarNova(v) PROVE Fica
  <2>1. PICK ok \in BOOLEAN : Postar(via[v].id, ok)
    BY <1>10 DEF PostarNova
  <2>2. via[v].id \in 1..(proxima - 1)
    BY <1>10 DEF PostarNova, Ponte, RefsPonte
  <2> QED
    BY <1>8, <2>1, <2>2
<1>11. CASE Repostar
  <2>1. PICK ok \in BOOLEAN : Postar(trabalhador.id, ok)
    BY <1>11 DEF Repostar
  <2>2. trabalhador.id \in 1..(proxima - 1)
    BY <1>11 DEF Repostar, Ponte, RefsPonte
  <2> QED
    BY <1>8, <2>1, <2>2
<1>12. CASE UNCHANGED varsGleam \/ Manutencao \/ Subir \/ Relogio \/ UNCHANGED vars
  BY <1>1, <1>12 DEF varsGleam, Manutencao, Subir, Relogio, vars
<1>13. Fica
  BY <1>7, <1>9, <1>10, <1>11, <1>12
     DEF Next, Chegar, PassoVia, PassoTrabalhador, PassoGleam, Limpezas, Falhas
<1> QED
  BY <1>13

(* Row i has its media file, or it is old, or somebody took it in the step. *)
Explicada(i) ==
  \/ i \in spool'
  \/ i < proxima /\ i \notin spool
  \/ i < proxima /\ Idade(i) >= IdadeMidia
  \/ \E g \in Tratadores : tratador'[g].linha = i /\ tratador'[g].pc = "checar"
  \/ webhook_queue'[i].msg \notin Midias

(* A media file leaves the spool only when it is read or old. *)
LEMMA ArquivoSai ==
  ASSUME Ponte, Gleam, [Next]_vars
  PROVE  \A i \in Filas : i < proxima' => Explicada(i)
<1>0. /\ webhook_queue \in [Filas -> Entrada] /\ proxima \in Nat /\ spool \subseteq Filas
      /\ hora \in Nat
  BY TiposPonte, Limites DEF Ponte
<1> DEFINE Todas == \A i \in Filas : i < proxima' => Explicada(i)
<1> SUFFICES Todas
  OBVIOUS
<1>1. ASSUME UNCHANGED proxima, spool \subseteq spool' PROVE Todas
  BY <1>1 DEF Explicada
<1>2. ASSUME UNCHANGED proxima, NEW id \in Filas, NEW g \in Tratadores,
             spool' = spool \ {id}, tratador'[g].linha = id, tratador'[g].pc = "checar"
      PROVE  Todas
  BY <1>2 DEF Explicada
<1>3. ASSUME NEW v \in Vias, Enfileirar(v) PROVE Todas
  <2>1. CASE /\ proxima <= MaxFila
             /\ webhook_queue' = [webhook_queue EXCEPT ![proxima] =
                  [estado |-> "pendente", msg |-> via[v].msg, attempts |-> 0,
                   created_at |-> hora]]
             /\ proxima' = proxima + 1
             /\ spool' = IF via[v].msg \in Midias THEN spool \cup {proxima} ELSE spool
    <3>1. spool \subseteq spool' /\ (via[v].msg \in Midias => proxima \in spool')
      BY <2>1
    <3>2. proxima \in Filas => webhook_queue'[proxima].msg = via[v].msg
      BY <1>0, <2>1
    <3>3. \A i \in Filas : i < proxima' => i < proxima \/ i = proxima
      BY <1>0, <2>1, Faixas
    <3> QED
      BY <3>1, <3>2, <3>3 DEF Explicada
  <2>2. CASE UNCHANGED <<webhook_queue, proxima, spool>>
    BY <1>1, <2>2
  <2> QED
    BY <1>3, <2>1, <2>2 DEF Enfileirar
<1>4. ASSUME NEW id \in 1..(proxima - 1), NEW ok \in BOOLEAN, Postar(id, ok), UNCHANGED proxima
      PROVE  Todas
  <2>0. id \in Filas
    BY TiposPonte, Limites DEF Ponte, Filas
  <2>1. Despachar(id) \/ UNCHANGED spool
    BY <1>4, Zenon DEF Postar
  <2>2. ASSUME NEW h \in Tratadores, Comeca(h, id) PROVE Todas
    <3>1. /\ spool' = spool \/ (spool' = spool \ {id} /\ tratador'[h].pc = "checar")
          /\ tratador'[h].linha = id
      BY <2>2 DEF Comeca
    <3> HIDE DEF Todas
    <3> QED
      BY <1>1, <1>2, <1>4, <2>0, <3>1
  <2> HIDE DEF Todas
  <2> QED
    BY <1>1, <1>4, <2>1, <2>2, Despacho DEF Gleam
<1>5. ASSUME NEW h \in Tratadores, CarregarMidia(h), UNCHANGED proxima PROVE Todas
  <2>1. tratador[h].linha \in Filas
    <3>1. tratador[h].linha \in 1..(proxima - 1)
      BY <1>5 DEF CarregarMidia, Passo, Gleam, RefsGleam
    <3> QED
      BY <3>1, TiposPonte, Limites DEF Ponte, Filas
  <2>2. tratador'[h].linha = tratador[h].linha /\ tratador'[h].pc = "checar"
    BY <1>5, Andares DEF Gleam, Segue
  <2>3. spool' = spool \ {tratador[h].linha}
    BY <1>5 DEF CarregarMidia
  <2> HIDE DEF Todas
  <2> QED
    BY <1>2, <1>5, <2>1, <2>2, <2>3
<1>6. ASSUME cleanupQueue \/ Manutencao, UNCHANGED proxima PROVE Todas
  <2>1. \A i \in Filas : i \in spool \ spool' => ~(Idade(i) < IdadeSpool) \/ ~(Idade(i) < IdadeMidia)
    BY <1>6 DEF cleanupQueue, Manutencao
  <2>2. \A i \in Filas : Idade(i) \in Int
    BY <1>0 DEF Idade, Entrada
  <2>3. \A i \in Filas : i \in spool \ spool' => Idade(i) >= IdadeMidia
    BY <2>1, <2>2, Limites
  <2> QED
    BY <1>6, <2>3 DEF Explicada
<1> HIDE DEF Todas
<1>7. ASSUME NEW v \in Vias, PostarNova(v) PROVE Todas
  <2>1. PICK ok \in BOOLEAN : Postar(via[v].id, ok) /\ DepoisDePostarNova(v, ok)
    BY <1>7 DEF PostarNova
  <2>2. via[v].id \in 1..(proxima - 1)
    BY <1>7 DEF PostarNova, Ponte, RefsPonte
  <2> QED
    BY <1>4, <2>1, <2>2 DEF DepoisDePostarNova
<1>8. CASE Repostar
  <2>1. PICK ok \in BOOLEAN : Postar(trabalhador.id, ok) /\ DepoisDeRepostar(ok)
    BY <1>8 DEF Repostar
  <2>2. trabalhador.id \in 1..(proxima - 1)
    BY <1>8 DEF Repostar, Ponte, RefsPonte
  <2> QED
    BY <1>4, <2>1, <2>2 DEF DepoisDeRepostar
<1>9. CASE UNCHANGED <<proxima, spool>>
  BY <1>1, <1>9
<1>10. ASSUME NEW v \in Vias, (\E m \in Mensagens : ContarIguais(v, m)) \/ MarcarNova(v) PROVE Todas
  BY <1>9, <1>10 DEF ContarIguais, MarcarNova
<1>11. CASE \/ ConsultarFila \/ MarcarRepostada \/ TerminarVarredura
            \/ \E id \in Filas : ContarTentativa(id)
  BY <1>9, <1>11 DEF ConsultarFila, MarcarRepostada, TerminarVarredura, ContarTentativa
<1>12. CASE cleanupQueue
  BY <1>6, <1>12 DEF cleanupQueue
<1>13. ASSUME NEW h \in Tratadores, PassoTratador(h) \/ MatarTardia(h), UNCHANGED proxima PROVE Todas
  <2>1. CASE UNCHANGED spool
    BY <1>1, <1>13, <2>1
  <2> QED
    BY <1>5, <1>13, <2>1 DEF PassoTratador, Checar, Marcar, Processar, MatarTardia
<1>14. CASE Falhas
  <2>1. CASE ReiniciarPonte \/ ((Cair \/ Subir) /\ UNCHANGED proxima)
    BY <1>9, <2>1 DEF ReiniciarPonte, Cair, Subir
  <2> QED
    BY <1>13, <1>14, <2>1 DEF Falhas
<1>15. CASE Relogio \/ UNCHANGED vars
  BY <1>9, <1>15 DEF Relogio, vars, varsPonte
<1>16. Todas
  BY <1>3, <1>6, <1>7, <1>8, <1>10, <1>11, <1>12, <1>13, <1>14, <1>15
     DEF Next, Chegar, PassoVia, PassoTrabalhador, PassoGleam, Limpezas
<1> QED
  BY <1>16

(* Every step keeps it: who misses the media looked second, or late. *)
LEMMA MidiaSempre == Ponte /\ Gleam /\ MidiaLevada /\ [Next]_vars => MidiaLevada'
<1> SUFFICES ASSUME Ponte, Gleam, MidiaLevada, [Next]_vars PROVE MidiaLevada'
  OBVIOUS
<1>0. /\ webhook_queue \in [Filas -> Entrada] /\ proxima \in 1..(MaxFila + 1) /\ hora \in Nat
      /\ Ponte' /\ hora' \in Nat /\ proxima' >= proxima /\ proxima' \in Nat
  <2>1. Ponte' /\ proxima' >= proxima
    BY TipoSempre
  <2>2. hora' \in 0..MaxHora /\ proxima' \in 1..(MaxFila + 1)
    BY <2>1 DEF Ponte, TypeOKPonte
  <2> QED
    BY <2>1, <2>2, TiposPonte, Limites DEF Ponte
<1>1. \A i \in Filas : i < proxima =>
        /\ webhook_queue'[i].msg = webhook_queue[i].msg
        /\ webhook_queue'[i].created_at = webhook_queue[i].created_at
        /\ Idade(i) >= IdadeMidia => hora' - webhook_queue'[i].created_at >= IdadeMidia
  <2>1. hora' >= hora /\ \A i \in Filas : i < proxima =>
          /\ webhook_queue'[i].msg = webhook_queue[i].msg
          /\ webhook_queue'[i].created_at = webhook_queue[i].created_at
    BY Avancos DEF Avanca
  <2>2. \A i \in Filas : webhook_queue[i].created_at \in Nat
    BY <1>0, Limites DEF Entrada
  <2> QED
    BY <1>0, <2>1, <2>2, Limites DEF Idade
<1>2. \A h \in Tratadores : tratador[h].pc # "ausente" =>
        /\ tratador'[h].pc # "ausente" /\ tratador'[h].linha = tratador[h].linha
        /\ tratador[h].pc # "carregar" => tratador'[h].pc # "carregar"
  BY Avancos DEF Avanca
<1>3. \A i \in Filas : Levada(i) => Levada(i)'
  BY <1>2 DEF Levada
<1>4. ASSUME NEW i \in Filas, i < proxima', ~Valida(i)'
      PROVE  Idade(i)' >= IdadeMidia \/ Levada(i)'
  <2>1. i \notin spool' /\ webhook_queue'[i].msg \in Midias
    BY <1>4 DEF Valida
  <2>2. Explicada(i)
    BY <1>4, ArquivoSai
  <2>3. CASE i < proxima /\ i \notin spool
    <3>1. ~Valida(i)
      BY <1>1, <2>1, <2>3 DEF Valida
    <3> QED
      BY <1>1, <1>3, <2>3, <3>1 DEF MidiaLevada, Idade
  <2>4. CASE i < proxima /\ Idade(i) >= IdadeMidia
    BY <1>1, <2>4 DEF Idade
  <2>5. CASE \E g \in Tratadores : tratador'[g].linha = i /\ tratador'[g].pc = "checar"
    BY <2>5 DEF Levada
  <2> QED
    BY <2>1, <2>2, <2>3, <2>4, <2>5 DEF Explicada
<1>5. ASSUME NEW h \in Tratadores, tratador'[h].faltou
      PROVE  /\ tratador'[h].pc # "ausente"
             /\ \E i \in Filas : /\ tratador'[h].linha = i
                                 /\ \/ \E g \in Tratadores \ {h} : tratador'[g].linha = i
                                    \/ Idade(i)' >= IdadeMidia
  <2>1. tratador[h].faltou \/ SemArquivo(h)
    BY <1>5, FaltouPorque
  <2>2. tratador[h].pc # "ausente"
    BY <2>1, Zenon DEF SemArquivo, MidiaLevada
  <2> DEFINE i == tratador[h].linha
  <2>3. i \in Filas /\ i < proxima /\ tratador'[h].linha = i /\ tratador'[h].pc # "ausente"
    <3>1. i \in 1..(proxima - 1)
      BY <2>2 DEF Gleam, RefsGleam
    <3> QED
      BY <1>0, <1>2, <2>2, <3>1, Limites DEF Filas
  <2>4. \/ \E g \in Tratadores \ {h} : tratador[g].linha = i
        \/ Idade(i) >= IdadeMidia
    <3>1. CASE SemArquivo(h)
      BY <2>3, <3>1 DEF SemArquivo, MidiaLevada, Levada
    <3>2. CASE tratador[h].faltou
      BY <3>2, Zenon DEF MidiaLevada, SoFaltaMidiaRepetida
    <3> QED
      BY <2>1, <3>1, <3>2
  <2>5. ASSUME NEW g \in Tratadores \ {h}, tratador[g].linha = i
        PROVE  tratador'[g].linha = i
    <3>1. tratador[g].pc # "ausente"
      BY <2>3, <2>5, Faixas DEF Gleam, RefsGleam, Filas
    <3> QED
      BY <1>2, <2>5, <3>1
  <2>6. CASE Idade(i) >= IdadeMidia
    BY <1>1, <2>3, <2>6 DEF Idade
  <2> QED
    BY <2>3, <2>4, <2>5, <2>6
<1> QED
  BY <1>4, <1>5 DEF MidiaLevada, SoFaltaMidiaRepetida

(* For any number of posts, restarts and losses: the user is asked to send *)
(* media again only if its row was posted twice or the file was old.       *)
THEOREM MidiaCorrect == Spec => []SoFaltaMidiaRepetida
<1>1. Init => MidiaLevada
  <2> SUFFICES ASSUME Init PROVE MidiaLevada
    OBVIOUS
  <2>1. proxima = 1 /\ \A h \in Tratadores : tratador[h].faltou = FALSE
    BY DEF Init, InitPonte, InitGleam
  <2>2. \A i \in Filas : ~(i < proxima)
    BY <2>1, Limites DEF Filas
  <2> QED
    BY <2>1, <2>2 DEF MidiaLevada, SoFaltaMidiaRepetida
<1>2. MidiaLevada => SoFaltaMidiaRepetida
  BY DEF MidiaLevada
<1> QED
  BY <1>1, <1>2, TipoInicial, TipoSempre, MidiaSempre, PTL DEF Spec

---------------------------------------------------------------------------
(* Message m was acted on, or a handler of it was cut short. *)
Encerrada(m) == processadas[m] > 0 \/ m \in interrompidas

(* Somebody still has m in hand, or nobody need have. *)
ComAlguem(m) ==
  \/ Encerrada(m) \/ hora > IdadeMaxima
  \/ \E h \in Tratadores : Vivo(h) /\ tratador[h].msg = m

(* No handler lets go of a message in vain: what Gleam took is in a        *)
(* handler's hands until the bot has acted on it, the handler is cut short *)
(* or the message is too old.  A handler that drops its message as already *)
(* received relies on the one that marked it, which goes on to act.        *)
Conduzida ==
  \A m \in Mensagens :
    /\ \A h \in Tratadores : tratador[h].pc # "ausente" /\ tratador[h].msg = m => ComAlguem(m)
    /\ recebidas[m] # Ausente => Encerrada(m) \/ \E h \in Tratadores : Age(h, m)

(* A handler that was started has the message of its row. *)
MensagemDaLinha ==
  \A h \in Tratadores :
    tratador[h].pc # "ausente" => webhook_queue[tratador[h].linha].msg = tratador[h].msg

(* From the bridge to the answer: the message of a row marked delivered    *)
(* was acted on, was cut short with its handler, is too old, or is still   *)
(* with a handler.  The bridge never strikes off a message that Gleam has  *)
(* silently dropped, in whatever order posts, marks, maintenance, restarts *)
(* and repeated rows of it come.                                           *)
EntregueNaoSePerde ==
  \A id \in Filas :
    webhook_queue[id].estado = "entregue" => ComAlguem(webhook_queue[id].msg)

(* A step that leaves the handlers alone, whatever ids are forgotten. *)
LEMMA ConduzidaFica ==
  ASSUME Ponte, Conduzida, UNCHANGED <<tratador, processadas, interrompidas>>,
         hora' \in Nat, hora' >= hora,
         \A m \in Mensagens : recebidas'[m] = recebidas[m] \/ recebidas'[m] = Ausente
  PROVE  Conduzida'
<1>1. hora \in Nat
  BY TiposPonte, Limites DEF Ponte
<1>2. \A m \in Mensagens : /\ Encerrada(m)' = Encerrada(m) /\ (ComAlguem(m) => ComAlguem(m)')
                           /\ \A h \in Tratadores : Age(h, m)' = Age(h, m)
  BY <1>1, Limites DEF Encerrada, ComAlguem, Vivo, Age
<1> QED
  BY <1>2 DEF Conduzida, Ausente

(* A post: the handler it starts has the message. *)
LEMMA ConduzidaPostar ==
  ASSUME Ponte, Gleam, Conduzida, NEW id \in 1..(proxima - 1), NEW ok \in BOOLEAN,
         Postar(id, ok), UNCHANGED hora
  PROVE  Conduzida'
<1>0. hora \in Nat
  BY TiposPonte, Limites DEF Ponte
<1>1. Despachar(id) \/ UNCHANGED varsGleam
  BY Zenon DEF Postar
<1>2. CASE UNCHANGED varsGleam
  BY <1>0, <1>2, ConduzidaFica DEF varsGleam
<1>3. ASSUME NEW h \in Tratadores, Comeca(h, id) PROVE Conduzida'
  <2>1. /\ tratador[h].pc = "ausente" /\ Vivo(h)'
        /\ \A g \in Tratadores \ {h} : tratador'[g] = tratador[g]
        /\ UNCHANGED <<recebidas, processadas, interrompidas>>
    BY <1>3 DEF Comeca, Vivo
  <2>2. \A m \in Mensagens : /\ Encerrada(m)' = Encerrada(m) /\ (ComAlguem(m) => ComAlguem(m)')
                             /\ \A g \in Tratadores : Age(g, m) => Age(g, m)'
    BY <2>1 DEF Encerrada, ComAlguem, Vivo, Age
  <2>3. ASSUME NEW m \in Mensagens, NEW g \in Tratadores,
               tratador'[g].pc # "ausente", tratador'[g].msg = m
        PROVE  ComAlguem(m)'
    <3>1. CASE g = h
      BY <2>1, <2>3, <3>1 DEF ComAlguem
    <3>2. CASE g # h
      BY <2>1, <2>2, <2>3, <3>2 DEF Conduzida
    <3> QED
      BY <3>1, <3>2
  <2>4. \A m \in Mensagens :
          recebidas'[m] # Ausente => Encerrada(m)' \/ \E g \in Tratadores : Age(g, m)'
    BY <2>1, <2>2 DEF Conduzida
  <2> QED
    BY <2>3, <2>4 DEF Conduzida, Ausente
<1>4. CASE Despachar(id)
  BY <1>3, <1>4, Despacho DEF Gleam
<1> QED
  BY <1>1, <1>2, <1>4

(* A handler that goes on lets go of its message only when it is accounted *)
(* for, and marks it only to act on it.                                    *)
LEMMA ConduzidaSegue ==
  ASSUME Ponte, Gleam, Conduzida, NEW h \in Tratadores,
         NEW pc \in {"checar", "marcar", "processar", "fim"}, Segue(h, pc),
         tratador[h].pc # "ausente", UNCHANGED hora,
         \A m \in Mensagens : Encerrada(m) => Encerrada(m)',
         pc = "fim" => ComAlguem(tratador[h].msg)',
         tratador[h].pc = "processar" => Encerrada(tratador[h].msg)',
         \A m \in Mensagens :
           \/ recebidas'[m] = recebidas[m]
           \/ pc = "processar" /\ m = tratador[h].msg
  PROVE  Conduzida'
<1> DEFINE t == tratador[h].msg
<1>1. /\ \A g \in Tratadores \ {h} : tratador'[g] = tratador[g]
      /\ tratador'[h].pc = pc /\ tratador'[h].msg = t
  BY DEF Segue
<1>2. ComAlguem(t)'
  BY <1>1 DEF ComAlguem, Vivo
<1>3. ASSUME NEW m \in Mensagens, m # t, ComAlguem(m) PROVE ComAlguem(m)'
  BY <1>1, <1>3 DEF ComAlguem, Vivo
<1>4. ASSUME NEW m \in Mensagens, NEW g \in Tratadores, Age(g, m)
      PROVE  Encerrada(m)' \/ Age(g, m)'
  BY <1>1, <1>4 DEF Age
<1>5. ASSUME NEW m \in Mensagens, NEW g \in Tratadores,
             tratador'[g].pc # "ausente", tratador'[g].msg = m
      PROVE  ComAlguem(m)'
  <2>1. CASE m = t
    <3>1. tratador'[h].msg = m
      BY <1>1, <2>1
    <3> QED
      BY <1>1, <1>2, <2>1, <3>1 DEF ComAlguem, Encerrada, Vivo
  <2>2. CASE m # t
    <3>1. tratador[g].pc # "ausente" /\ tratador[g].msg = m
      BY <1>1, <1>5, <2>2
    <3> QED
      BY <1>3, <2>2, <3>1 DEF Conduzida
  <2> QED
    BY <2>1, <2>2
<1>6. ASSUME NEW m \in Mensagens, recebidas'[m] # Ausente
      PROVE  Encerrada(m)' \/ \E g \in Tratadores : Age(g, m)'
  <2>1. CASE recebidas'[m] = recebidas[m]
    <3>1. Encerrada(m) \/ \E g \in Tratadores : Age(g, m)
      BY <1>6, <2>1 DEF Conduzida
    <3> QED
      BY <1>4, <3>1
  <2>2. CASE pc = "processar" /\ m = t
    BY <1>1, <2>2 DEF Age
  <2> QED
    BY <2>1, <2>2
<1> QED
  BY <1>5, <1>6 DEF Conduzida, Ausente

(* The steps of a handler. *)
LEMMA ConduzidaTratador ==
  ASSUME Ponte, Gleam, Conduzida, NEW h \in Tratadores, UNCHANGED hora,
         PassoTratador(h) \/ MatarTardia(h)
  PROVE  Conduzida'
<1> DEFINE t == tratador[h].msg
<1>0. /\ tratador \in [Tratadores -> Tratador] /\ recebidas \in [Mensagens -> 0..Ausente]
      /\ processadas \in [Mensagens -> Nat] /\ hora \in Nat /\ TypeOKGleam
  <2>1. hora \in Nat
    BY TiposPonte, Limites DEF Ponte
  <2> QED
    BY <2>1, TiposGleam DEF Gleam
<1>1. tratador[h].pc # "ausente" => t \in Mensagens
  BY DEF Gleam, RefsGleam
<1>2. ASSUME UNCHANGED <<processadas, interrompidas>>
      PROVE  \A m \in Mensagens : Encerrada(m)' = Encerrada(m)
  BY <1>2 DEF Encerrada
<1>3. CASE CarregarMidia(h)
  <2>1. tratador[h].pc = "carregar" /\ Segue(h, "checar")
        /\ UNCHANGED <<recebidas, processadas, interrompidas>>
    BY <1>0, <1>3, Andares DEF CarregarMidia
  <2> QED
    BY <1>2, <2>1, ConduzidaSegue
<1>4. CASE Checar(h)
  <2>1. tratador[h].pc = "checar" /\ UNCHANGED <<recebidas, processadas, interrompidas>>
    BY <1>4 DEF Checar, Passo
  <2>2. PICK pc \in {"marcar", "processar", "fim"} : Segue(h, pc)
    BY <1>0, <1>4, Andares
  <2>3. pc = "fim" => ComAlguem(t)'
    <3> SUFFICES ASSUME pc = "fim" PROVE ComAlguem(t)'
      OBVIOUS
    <3>1. mensagem_antiga \/ recebidas[t] # Ausente
      <4>1. \/ /\ ~mensagem_antiga /\ recebidas[t] = Ausente
               /\ tratador' = [tratador EXCEPT ![h] = [@ EXCEPT !.pc = "marcar"]]
            \/ mensagem_antiga \/ recebidas[t] # Ausente
            \/ tratador' = [tratador EXCEPT ![h].pc = "processar"]
        BY <1>4 DEF Checar
      <4>2. tratador'[h].pc = "fim"
        BY <2>2 DEF Segue
      <4> QED
        BY <1>0, <4>1, <4>2 DEF Tratador
    <3>2. CASE mensagem_antiga
      BY <1>0, <3>2 DEF mensagem_antiga, ComAlguem
    <3>3. CASE recebidas[t] # Ausente
      <4>1. Encerrada(t) \/ \E g \in Tratadores : Age(g, t)
        BY <1>1, <2>1, <3>3 DEF Conduzida
      <4>2. CASE Encerrada(t)
        BY <1>1, <1>2, <2>1, <2>2, <4>2 DEF ComAlguem, Segue
      <4>3. ASSUME NEW g \in Tratadores, Age(g, t) PROVE ComAlguem(t)'
        <5>1. g # h
          BY <2>1, <4>3 DEF Age
        <5>2. tratador'[g] = tratador[g] /\ tratador'[h].msg = t
          BY <2>2, <5>1 DEF Segue
        <5>3. Vivo(g)' /\ tratador'[g].msg = t
          BY <4>3, <5>2 DEF Age, Vivo
        <5> QED
          BY <5>2, <5>3 DEF ComAlguem
      <4> QED
        BY <4>1, <4>2, <4>3
    <3> QED
      BY <3>1, <3>2, <3>3
  <2> QED
    BY <1>2, <2>1, <2>2, <2>3, ConduzidaSegue
<1>5. CASE Marcar(h)
  <2>1. /\ tratador[h].pc = "marcar" /\ Segue(h, "processar")
        /\ UNCHANGED <<processadas, interrompidas>>
    BY <1>0, <1>5, Andares DEF Marcar
  <2>2. recebidas' = recebidas
          \/ recebidas' = [recebidas EXCEPT ![t] = IF @ = Ausente THEN hora ELSE @]
    BY <1>5 DEF Marcar
  <2>3. \A m \in Mensagens : recebidas'[m] = recebidas[m] \/ m = t
    BY <1>0, <2>2
  <2> QED
    BY <1>2, <2>1, <2>3, ConduzidaSegue
<1>6. CASE Processar(h)
  <2>1. /\ tratador[h].pc = "processar" /\ Segue(h, "fim")
        /\ UNCHANGED <<recebidas, interrompidas>>
        /\ processadas' = [processadas EXCEPT ![t] = @ + 1]
    BY <1>0, <1>6, Andares DEF Processar
  <2>2. processadas'[t] > 0 /\ \A m \in Mensagens : processadas[m] > 0 => processadas'[m] > 0
    BY <1>0, <1>1, <2>1
  <2>3. Encerrada(t)' /\ ComAlguem(t)'
    BY <2>1, <2>2 DEF Encerrada, ComAlguem, Segue
  <2>4. \A m \in Mensagens : Encerrada(m) => Encerrada(m)'
    BY <2>1, <2>2 DEF Encerrada
  <2> QED
    BY <2>1, <2>3, <2>4, ConduzidaSegue
<1>7. CASE MatarTardia(h)
  <2>1. /\ tratador[h].pc # "ausente" /\ Segue(h, "fim")
        /\ UNCHANGED <<recebidas, processadas>>
        /\ interrompidas' = interrompidas \cup {t}
    BY <1>0, <1>7, Andares DEF MatarTardia
  <2>2. Encerrada(t)' /\ ComAlguem(t)'
    BY <2>1 DEF Encerrada, ComAlguem, Segue
  <2>3. \A m \in Mensagens : Encerrada(m) => Encerrada(m)'
    BY <2>1 DEF Encerrada
  <2> QED
    BY <2>1, <2>2, <2>3, ConduzidaSegue
<1> QED
  BY <1>3, <1>4, <1>5, <1>6, <1>7 DEF PassoTratador

(* A stop of Gleam: every message in hand is cut short. *)
LEMMA ConduzidaQueda ==
  ASSUME Ponte, Gleam, Conduzida, Cair, UNCHANGED hora
  PROVE  Conduzida'
<1>1. /\ interrompidas' = interrompidas
           \cup {tratador[h].msg : h \in {g \in Tratadores : Vivo(g)}}
      /\ UNCHANGED <<recebidas, processadas>>
  BY DEF Cair
<1>2. \A m \in Mensagens : Encerrada(m) => Encerrada(m)'
  BY <1>1 DEF Encerrada
<1>3. ASSUME NEW m \in Mensagens, NEW h \in Tratadores, Vivo(h), tratador[h].msg = m
      PROVE  Encerrada(m)'
  <2>1. m \in interrompidas'
    BY <1>1, <1>3
  <2> QED
    BY <2>1 DEF Encerrada
<1>4. \A h \in Tratadores : tratador'[h].pc # "ausente" =>
        tratador[h].pc # "ausente" /\ tratador'[h].msg = tratador[h].msg
  BY Queda, TiposGleam, Fins DEF Gleam
<1>5. ASSUME NEW m \in Mensagens, ComAlguem(m) PROVE ComAlguem(m)'
  <2>1. Encerrada(m)' \/ hora' > IdadeMaxima
    BY <1>2, <1>3, <1>5 DEF ComAlguem
  <2> QED
    BY <2>1 DEF ComAlguem
<1>6. \A m \in Mensagens, h \in Tratadores : Age(h, m) => Encerrada(m)'
  BY <1>3 DEF Age, Vivo
<1>7. \A m \in Mensagens : recebidas'[m] # Ausente => Encerrada(m)'
  BY <1>1, <1>2, <1>6 DEF Conduzida
<1>8. \A m \in Mensagens, h \in Tratadores :
        tratador'[h].pc # "ausente" /\ tratador'[h].msg = m => ComAlguem(m)'
  BY <1>4, <1>5 DEF Conduzida
<1> QED
  BY <1>7, <1>8 DEF Conduzida, Ausente

(* Every step keeps it. *)
LEMMA ConduzidaSempre == Ponte /\ Gleam /\ Conduzida /\ [Next]_vars => Conduzida'
<1> SUFFICES ASSUME Ponte, Gleam, Conduzida, [Next]_vars PROVE Conduzida'
  OBVIOUS
<1>0. hora \in Nat
  BY TiposPonte, Limites DEF Ponte
<1>1. ASSUME UNCHANGED varsGleam, hora' = hora \/ hora' = hora + 1 PROVE Conduzida'
  BY <1>0, <1>1, ConduzidaFica DEF varsGleam
<1>2. ASSUME NEW v \in Vias, UNCHANGED varsGleam,
             (\E m \in Mensagens : ContarIguais(v, m)) \/ Enfileirar(v) \/ MarcarNova(v)
      PROVE  Conduzida'
  BY <1>1, <1>2 DEF ContarIguais, Enfileirar, MarcarNova
<1>3. ASSUME UNCHANGED varsGleam,
             \/ ConsultarFila \/ MarcarRepostada \/ TerminarVarredura \/ cleanupQueue
             \/ \E id \in Filas : ContarTentativa(id)
      PROVE  Conduzida'
  BY <1>1, <1>3 DEF ConsultarFila, MarcarRepostada, TerminarVarredura, cleanupQueue, ContarTentativa
<1>4. ASSUME NEW v \in Vias, PostarNova(v) PROVE Conduzida'
  <2>1. PICK ok \in BOOLEAN : Postar(via[v].id, ok) /\ DepoisDePostarNova(v, ok)
    BY <1>4 DEF PostarNova
  <2>2. via[v].id \in 1..(proxima - 1)
    BY <1>4 DEF PostarNova, Ponte, RefsPonte
  <2> QED
    BY <2>1, <2>2, ConduzidaPostar DEF DepoisDePostarNova
<1>5. CASE Repostar
  <2>1. PICK ok \in BOOLEAN : Postar(trabalhador.id, ok) /\ DepoisDeRepostar(ok)
    BY <1>5 DEF Repostar
  <2>2. trabalhador.id \in 1..(proxima - 1)
    BY <1>5 DEF Repostar, Ponte, RefsPonte
  <2> QED
    BY <2>1, <2>2, ConduzidaPostar DEF DepoisDeRepostar
<1>6. ASSUME Manutencao \/ Subir, UNCHANGED hora PROVE Conduzida'
  <2>1. /\ UNCHANGED <<tratador, processadas, interrompidas>>
        /\ \A m \in Mensagens : recebidas'[m] = recebidas[m] \/ recebidas'[m] = Ausente
    BY <1>6 DEF Manutencao, Subir
  <2> QED
    BY <1>0, <1>6, <2>1, ConduzidaFica
<1>7. CASE Falhas
  <2>1. CASE ReiniciarPonte /\ UNCHANGED varsGleam
    BY <1>1, <2>1 DEF ReiniciarPonte
  <2> QED
    BY <1>6, <1>7, <2>1, ConduzidaTratador, ConduzidaQueda DEF Falhas
<1>8. CASE Relogio \/ UNCHANGED vars
  BY <1>1, <1>8 DEF Relogio, vars
<1> QED
  BY <1>2, <1>3, <1>4, <1>5, <1>6, <1>7, <1>8, ConduzidaTratador
     DEF Next, Chegar, PassoVia, PassoTrabalhador, PassoGleam, Limpezas

(* Only a post starts a handler, and the row it is about stays. *)
LEMMA SoPostarComeca ==
  ASSUME Ponte, Gleam, [Next]_vars, NEW h \in Tratadores,
         tratador[h].pc = "ausente", tratador'[h].pc # "ausente"
  PROVE  \E id \in 1..(proxima - 1) : Comeca(h, id)
<1>1. ASSUME NEW id \in 1..(proxima - 1), NEW ok \in BOOLEAN, Postar(id, ok)
      PROVE  \E i \in 1..(proxima - 1) : Comeca(h, i)
  <2>1. Despachar(id) \/ UNCHANGED varsGleam
    BY <1>1, Zenon DEF Postar
  <2>2. Despachar(id)
    BY <2>1 DEF varsGleam
  <2>3. PICK g \in Tratadores : Comeca(g, id)
    BY <2>2, Despacho DEF Gleam
  <2>4. g = h
    BY <2>3 DEF Comeca
  <2> QED
    BY <2>3, <2>4
<1>2. ASSUME NEW v \in Vias, PostarNova(v)
      PROVE  \E i \in 1..(proxima - 1) : Comeca(h, i)
  <2>1. via[v].id \in 1..(proxima - 1)
    BY <1>2 DEF PostarNova, Ponte, RefsPonte
  <2> QED
    BY <1>1, <1>2, <2>1 DEF PostarNova
<1>3. CASE Repostar
  <2>1. trabalhador.id \in 1..(proxima - 1)
    BY <1>3 DEF Repostar, Ponte, RefsPonte
  <2> QED
    BY <1>1, <1>3, <2>1 DEF Repostar
<1>4. ASSUME NEW g \in Tratadores, PassoTratador(g) \/ MatarTardia(g) PROVE FALSE
  <2>1. tratador[g].pc # "ausente" /\ \E pc \in Passos : Segue(g, pc)
    BY <1>4, Andares DEF Gleam, PassoTratador, Passos
  <2> QED
    BY <2>1 DEF Segue
<1>5. ~Cair
  BY Queda DEF Gleam
<1>6. ~UNCHANGED tratador
  OBVIOUS
<1>7. ~Manutencao /\ ~Subir
  BY <1>6 DEF Manutencao, Subir
<1> QED
  BY <1>2, <1>3, <1>4, <1>5, <1>6, <1>7
     DEF Next, Chegar, PassoVia, PassoTrabalhador, PassoGleam, Limpezas, Falhas, Relogio,
         vars, varsGleam

(* Handlers keep their messages, and rows theirs. *)
LEMMA LinhaSempre ==
  Ponte /\ Gleam /\ MensagemDaLinha /\ [Next]_vars => MensagemDaLinha'
<1> SUFFICES ASSUME Ponte, Gleam, MensagemDaLinha, [Next]_vars,
                    NEW h \in Tratadores, tratador'[h].pc # "ausente"
             PROVE  webhook_queue'[tratador'[h].linha].msg = tratador'[h].msg
  BY DEF MensagemDaLinha
<1>0. Avanca /\ proxima \in 1..(MaxFila + 1)
  BY Avancos, TiposPonte DEF Ponte
<1>1. \A i \in 1..(proxima - 1) : i \in Filas /\ i < proxima
                                /\ webhook_queue'[i].msg = webhook_queue[i].msg
  BY <1>0, Limites DEF Avanca, Filas
<1>2. CASE tratador[h].pc # "ausente"
  <2>1. tratador[h].linha \in 1..(proxima - 1)
    BY <1>2 DEF Gleam, RefsGleam
  <2> QED
    BY <1>0, <1>1, <1>2, <2>1 DEF Avanca, MensagemDaLinha
<1>3. CASE tratador[h].pc = "ausente"
  <2>1. PICK id \in 1..(proxima - 1) : \E g \in Tratadores : Comeca(g, id)
    BY <1>3, SoPostarComeca
  <2>2. PICK g \in Tratadores : Comeca(g, id)
    BY <2>1
  <2>3. g = h
    BY <1>3, <2>2 DEF Comeca
  <2> QED
    BY <1>1, <2>2, <2>3 DEF Comeca
<1> QED
  BY <1>2, <1>3

(* Every message Gleam took is accounted for: acted on, cut short with its *)
(* handler, too old, or in a handler's hands; for any number of messages,  *)
(* rows, handlers, restarts and repeated posts.                            *)
THEOREM ConduzidaCorrect == Spec => []Conduzida
<1>1. Init => Conduzida
  <2> SUFFICES ASSUME Init PROVE Conduzida
    OBVIOUS
  <2>1. /\ \A h \in Tratadores : tratador[h].pc = "ausente"
        /\ \A m \in Mensagens : recebidas[m] = Ausente
    BY DEF Init, InitGleam
  <2> QED
    BY <2>1 DEF Conduzida
<1> QED
  BY <1>1, TipoInicial, TipoSempre, ConduzidaSempre, PTL DEF Spec

(* A message the bridge strikes off as delivered was not dropped on the    *)
(* other side: it is accounted for as in ConduzidaCorrect.                 *)
THEOREM EntregueConduzida == Spec => []EntregueNaoSePerde
<1>1. Init => MensagemDaLinha
  <2> SUFFICES ASSUME Init PROVE MensagemDaLinha
    OBVIOUS
  <2>1. \A h \in Tratadores : tratador[h].pc = "ausente"
    BY DEF Init, InitGleam
  <2> QED
    BY <2>1 DEF MensagemDaLinha
<1>2. Ponte /\ Gleam /\ MensagemDaLinha /\ Conduzida /\ EntregueFoiAceita
        => EntregueNaoSePerde
  <2> SUFFICES ASSUME Gleam, MensagemDaLinha, Conduzida, EntregueFoiAceita,
                      NEW id \in Filas, webhook_queue[id].estado = "entregue"
               PROVE  ComAlguem(webhook_queue[id].msg)
    BY DEF EntregueNaoSePerde
  <2>1. PICK h \in Tratadores : tratador[h].linha = id
    BY DEF EntregueFoiAceita, Aceita
  <2>2. tratador[h].pc # "ausente"
    BY <2>1 DEF Gleam, RefsGleam, Filas
  <2>3. tratador[h].msg \in Mensagens /\ webhook_queue[id].msg = tratador[h].msg
    BY <2>1, <2>2 DEF MensagemDaLinha, Gleam, RefsGleam
  <2> QED
    BY <2>2, <2>3 DEF Conduzida
<1> QED
  BY <1>1, <1>2, TipoInicial, TipoSempre, LinhaSempre, ConduzidaCorrect, EntregueCorrect,
     PTL DEF Spec
============================================================================
