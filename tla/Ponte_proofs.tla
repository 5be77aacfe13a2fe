---------------------------- MODULE Ponte_proofs ----------------------------
(***************************************************************************)
(* The safety of the goroutines of the bridge, for all bounds.             *)
(*                                                                         *)
(* RetryMidia, for any number of goroutines, copies, requests and faults:  *)
(* type correctness, no message lost without a cause, no sticker left      *)
(* waiting, and the limit of what the phone is asked.                      *)
(*                                                                         *)
(* Recebimento, for any chat, packets and faults: type correctness, the    *)
(* accounting of the conversion slots, that nothing the bridge was given   *)
(* disappears, and the arithmetic of stickers (module Figurinhas).         *)
(***************************************************************************)
EXTENDS RetryMidia, Recebimento, FiniteSetTheorems, SequenceTheorems,
        WellFoundedInduction, TLAPS

(* Everything that one goroutine does, besides being restarted. *)
Faz(p) == Chegar(p) \/ Prosseguir(p) \/ Responder(p) \/ Acordar(p)

(* Type correctness.                                                       *)
(* The ways a step may leave a goroutine are well typed.                   *)
LEMMA TipoPassagem ==
  ASSUME passagem \in [Passagens -> Passagem], NEW p \in Passagens
  PROVE  /\ Termina(p) => passagem' \in [Passagens -> Passagem]
         /\ \A pc \in {"baixar", "pedir", "recibo", "desistir", "recusada",
                       "verificar", "anexar", "contar", "inserir", "concluir"} :
              /\ Segue(p, pc) => passagem' \in [Passagens -> Passagem]
              /\ \A tipo \in Tipos :
                   Comeca(p, pc, tipo) => passagem' \in [Passagens -> Passagem]
         /\ SemMidia(p) => passagem' \in [Passagens -> Passagem]
         /\ Substituir(p) => passagem' \in [Passagens -> Passagem]
         /\ Enfileirada(p) => passagem' \in [Passagens -> Passagem]
  BY DEF Termina, Segue, Comeca, SemMidia, Substituir, Enfileirada, Passagem, Livre, Tipos

(* The two flags stay flags. *)
LEMMA TipoMarcas ==
  ASSUME figurinha \in BOOLEAN, pendente \in BOOLEAN, [Next]_vars
  PROVE  figurinha' \in BOOLEAN /\ pendente' \in BOOLEAN
<1>1. ASSUME NEW p \in Passagens, Prosseguir(p)
      PROVE  figurinha' \in BOOLEAN /\ pendente' \in BOOLEAN
  BY <1>1, Zenon DEF Prosseguir, Baixar, Pedir, MandarRecibo, Limpar, Verificar, Anexar,
                     Contar, Inserir
<1>2. ASSUME NEW p \in Passagens, Chegar(p) \/ Responder(p) \/ Acordar(p)
      PROVE  figurinha' \in BOOLEAN /\ pendente' \in BOOLEAN
  BY <1>2, Zenon DEF Chegar, Responder, Acordar
<1>3. CASE Reiniciar
  BY <1>3, Zenon DEF Reiniciar
<1>4. CASE UNCHANGED vars
  BY <1>4, Zenon DEF vars
<1> QED
  BY <1>1, <1>2, <1>3, <1>4 DEF Next

(* The other variables are well typed. *)
TypeOKResto ==
  /\ tentativas \in 0..1
  /\ passagem \in [Passagens -> Passagem]
  /\ relogios \in Nat /\ correio \in Nat /\ pedidos \in 0..MaxPedidos
  /\ fila \subseteq Tipos
  /\ copias \in 0..MaxCopias /\ faltas \in 0..MaxFaltas
  /\ motivos \subseteq {"download", "recusa"}

(* Every step keeps their types too. *)
LEMMA TipoResto == TypeOKResto /\ [Next]_vars => TypeOKResto'
<1> SUFFICES ASSUME TypeOKResto, [Next]_vars PROVE TypeOKResto'
  OBVIOUS
<1> USE RetryMidiaAssumption DEF RetryMidiaAssumption
<1>1. ASSUME NEW p \in Passagens, Faz(p) PROVE TypeOKResto'
  <2> DEFINE Tipada == passagem' \in [Passagens -> Passagem]
  <2>0. /\ Termina(p) => Tipada
        /\ \A pc \in {"baixar", "pedir", "recibo", "desistir", "recusada",
                      "verificar", "anexar", "contar", "inserir", "concluir"} :
             /\ Segue(p, pc) => Tipada
             /\ \A tipo \in Tipos : Comeca(p, pc, tipo) => Tipada
        /\ SemMidia(p) \/ Substituir(p) \/ Enfileirada(p) => Tipada
    BY TipoPassagem DEF TypeOKResto
  <2> USE <2>0 DEF TypeOKResto
  <2>1. CASE Chegar(p)
    BY <2>1 DEF Chegar, Tipos
  <2>2. CASE Baixar(p)
    BY <2>2 DEF Baixar
  <2>3. CASE Pedir(p)
    BY <2>3 DEF Pedir
  <2>4. CASE MandarRecibo(p)
    BY <2>4 DEF MandarRecibo
  <2>5. CASE Limpar(p)
    BY <2>5 DEF Limpar
  <2>6. CASE Verificar(p)
    BY <2>6 DEF Verificar
  <2>7. CASE Anexar(p)
    BY <2>7 DEF Anexar, Falta
  <2>8. CASE Contar(p)
    BY <2>8 DEF Contar
  <2>9. CASE Inserir(p)
    <3>1. passagem[p].tipo \in Tipos
      BY DEF Passagem
    <3> QED
      BY <2>9, <3>1 DEF Inserir, Falta
  <2>10. CASE Responder(p)
    <3>1. /\ correio > 0 /\ correio' = correio - 1
          /\ Comeca(p, "baixar", "midia") \/ Comeca(p, "recusada", "midia")
               \/ UNCHANGED passagem
          /\ UNCHANGED motivos \/ motivos' = motivos \cup {"recusa"}
          /\ UNCHANGED <<tentativas, relogios, fila, copias, faltas, pedidos>>
      BY <2>10, Zenon DEF Responder
    <3> QED
      <4>1. correio' \in Nat
        BY <3>1
      <4>2. Tipada
        BY <3>1 DEF Tipos
      <4>3. motivos' \subseteq {"download", "recusa"}
        BY <3>1
      <4> QED
        BY <3>1, <4>1, <4>2, <4>3
  <2>11. CASE Acordar(p)
    BY <2>11 DEF Acordar, Tipos
  <2> QED
    BY <1>1, <2>1, <2>2, <2>3, <2>4, <2>5, <2>6, <2>7, <2>8, <2>9, <2>10, <2>11
       DEF Faz, Prosseguir
<1>2. CASE Reiniciar
  BY <1>2 DEF Reiniciar, Falta, TypeOKResto, Passagem, Livre, Tipos
<1>3. CASE UNCHANGED vars
  BY <1>3 DEF vars, TypeOKResto
<1> QED
  BY <1>1, <1>2, <1>3 DEF Next, Faz

(* Every reachable state is well typed: in particular at most one request  *)
(* is on record for a message, whoever clears and makes records.           *)
THEOREM TypeCorrect == Spec => []TypeOK
<1>1. Init => TypeOKResto
  BY RetryMidiaAssumption
     DEF RetryMidiaAssumption, Init, TypeOKResto, Passagem, Livre, Tipos
<1>2. Init => figurinha \in BOOLEAN /\ pendente \in BOOLEAN
  BY Zenon DEF Init
<1>3. TypeOK <=> figurinha \in BOOLEAN /\ pendente \in BOOLEAN /\ TypeOKResto
  BY Zenon DEF TypeOK, TypeOKResto
<1>4. Init => TypeOK
  BY <1>1, <1>2, <1>3
<1>5. TypeOK /\ [Next]_vars => TypeOK'
  <2>1. TypeOK' <=> (figurinha' \in BOOLEAN /\ pendente' \in BOOLEAN /\ TypeOKResto')
    BY Zenon DEF TypeOK, TypeOKResto
  <2> QED
    BY <1>3, <2>1, TipoMarcas, TipoResto, Zenon
<1> QED
  BY <1>4, <1>5, PTL DEF Spec

---------------------------------------------------------------------------
(* No message lost without a cause. *)

(* The goroutine will still put the message in the queue, or say why not. *)
Trabalha(p) ==
  \/ passagem[p].pc \in {"baixar", "pedir", "desistir", "anexar", "contar", "inserir"}
  \/ figurinha /\ passagem[p].pc \in {"recibo", "verificar"}

(* As long as the message is not queued and nothing went wrong somebody    *)
(* works on it or its entry is pending.  The goroutine that waits for its  *)
(* receipt does not count: it may end.                                     *)
Guardada ==
  copias > 0 /\ fila = {} /\ faltas = 0 /\ "recusa" \notin motivos =>
    \/ \E p \in Passagens : Trabalha(p)
    \/ pendente
    \/ ~figurinha /\ "download" \in motivos

(* Who is about to clear the entry has queued the message, met a fault, or *)
(* heard the phone refuse.                                                 *)
LimpaComCausa ==
  \A p \in Passagens :
    /\ passagem[p].pc = "concluir" => fila # {} \/ faltas > 0
    /\ passagem[p].pc = "recusada" => "recusa" \in motivos

IInvPerda == PendenteTemRelogio /\ Guardada /\ LimpaComCausa

(* What a step of p may do to the goroutines. *)
Outras(p) == \A q \in Passagens \ {p} : passagem'[q] = passagem[q]
Em(p, pc) == passagem'[p].pc = pc /\ Outras(p)

(* The forms in which actions move a goroutine, by their effect. *)
LEMMA Efeito ==
  ASSUME passagem \in [Passagens -> Passagem], NEW p \in Passagens
  PROVE  /\ \A pc : Segue(p, pc) => Em(p, pc)
         /\ \A pc, tipo : Comeca(p, pc, tipo) => Em(p, pc)
         /\ Termina(p) => Em(p, "livre")
         /\ SemMidia(p) => IF figurinha THEN Em(p, "verificar") ELSE Em(p, "livre")
         /\ Substituir(p) => Em(p, "anexar") \/ Em(p, "contar")
         /\ Enfileirada(p) => Em(p, "livre") \/ Em(p, "concluir")
  BY DEF Termina, Segue, Comeca, SemMidia, Substituir, Enfileirada, Passagem, Livre,
         Em, Outras

(* A goroutine's steps keep the invariant. *)
LEMMA PerdaProsseguir ==
  ASSUME TypeOKResto, IInvPerda, NEW p \in Passagens, Prosseguir(p)
  PROVE  IInvPerda'
<1>0. /\ passagem \in [Passagens -> Passagem]
      /\ relogios \in Nat /\ copias \in Nat /\ faltas \in Nat
  BY RetryMidiaAssumption DEF RetryMidiaAssumption, TypeOKResto
<1> USE <1>0, Efeito DEF IInvPerda, PendenteTemRelogio, Guardada, LimpaComCausa, Trabalha
<1>1. CASE Baixar(p)
  BY <1>1 DEF Baixar, Em, Outras
<1>2. CASE Pedir(p)
  BY <1>2 DEF Pedir, Em, Outras
<1>3. CASE MandarRecibo(p)
  BY <1>3 DEF MandarRecibo, Em, Outras
<1>4. CASE Limpar(p)
  BY <1>4 DEF Limpar, Em, Outras
<1>5. CASE Verificar(p)
  BY <1>5 DEF Verificar, Em, Outras
<1>6. CASE Anexar(p)
  BY <1>6 DEF Anexar, Falta, Em, Outras
<1>7. CASE Contar(p)
  BY <1>7 DEF Contar, Em, Outras
<1>8. CASE Inserir(p)
  BY <1>8 DEF Inserir, Falta, Em, Outras
<1> QED
  BY <1>1, <1>2, <1>3, <1>4, <1>5, <1>6, <1>7, <1>8, Zenon DEF Prosseguir

(* The steps that start a goroutine, the restart and stuttering keep it. *)
LEMMA PerdaPasso ==
  ASSUME TypeOKResto, IInvPerda, [Next]_vars
  PROVE  IInvPerda'
<1>0. /\ passagem \in [Passagens -> Passagem]
      /\ relogios \in Nat /\ copias \in Nat /\ faltas \in Nat
  BY RetryMidiaAssumption DEF RetryMidiaAssumption, TypeOKResto
<1>1. ASSUME NEW p \in Passagens, Chegar(p) \/ Responder(p) \/ Acordar(p)
      PROVE  IInvPerda'
  <2> USE <1>0, Efeito DEF IInvPerda, PendenteTemRelogio, Guardada, LimpaComCausa, Trabalha
  <2>1. CASE Chegar(p)
    BY <2>1 DEF Chegar, Em, Outras
  <2>2. CASE Responder(p)
    BY <2>2 DEF Responder, Em, Outras
  <2>3. CASE Acordar(p)
    BY <2>3 DEF Acordar, Em, Outras
  <2> QED
    BY <1>1, <2>1, <2>2, <2>3, Zenon
<1>2. CASE Reiniciar
  BY <1>0, <1>2
     DEF Reiniciar, Falta, Livre, IInvPerda, PendenteTemRelogio, Guardada, LimpaComCausa
<1>3. CASE UNCHANGED vars
  BY <1>3 DEF vars, IInvPerda, PendenteTemRelogio, Guardada, LimpaComCausa, Trabalha
<1> QED
  BY <1>1, <1>2, <1>3, PerdaProsseguir DEF Next

(* The invariant holds for ever. *)
LEMMA PerdaSempre == Spec => []IInvPerda
<1>1. Init => IInvPerda
  BY DEF Init, Livre, IInvPerda, PendenteTemRelogio, Guardada, LimpaComCausa
<1>2. TypeOK => TypeOKResto
  BY DEF TypeOK, TypeOKResto
<1> QED
  BY <1>1, <1>2, PerdaPasso, TypeCorrect, PTL DEF Spec

(* handleMediaRetry, scheduleStickerMetadataFallback and                   *)
(* clearMediaRetryState take the one entry of the message from each other  *)
(* in any order: the entry of a sticker always keeps a sleeper, or a       *)
(* goroutine that has not decided to wait.                                 *)
THEOREM PendenteCorrect == Spec => []PendenteTemRelogio
  BY PerdaSempre, PTL DEF IInvPerda

(* A message of which nobody thinks any more is in the queue, or has one   *)
(* of the causes PerdaTemMotivo lists; a sticker only a refusal or a fault.*)
THEOREM PerdaCorrect == Spec => []PerdaTemMotivo
<1>1. TypeOKResto /\ IInvPerda => PerdaTemMotivo
  <2> SUFFICES ASSUME TypeOKResto, IInvPerda, Quieta, fila = {}, ~(faltas > 0),
                      "recusa" \notin motivos
               PROVE  ~figurinha /\ (pendente \/ "download" \in motivos)
    BY DEF PerdaTemMotivo
  <2>1. faltas = 0
    BY DEF TypeOKResto
  <2>2. ~ \E p \in Passagens : Trabalha(p)
    BY DEF Quieta, Trabalha
  <2>3. ~(figurinha /\ pendente)
    BY DEF IInvPerda, PendenteTemRelogio, Quieta
  <2> QED
    BY <2>1, <2>2, <2>3 DEF IInvPerda, Guardada, Quieta
<1>2. TypeOK => TypeOKResto
  BY DEF TypeOK, TypeOKResto
<1> QED
  BY <1>1, <1>2, PerdaSempre, TypeCorrect, PTL

---------------------------------------------------------------------------
(* The requests sent to the phone. *)

Ativas == {p \in Passagens : passagem[p].pc # "livre"}
Pedindo == {p \in Passagens : passagem[p].pc = "recibo"}
NAtivas == Cardinality(Ativas)
NPedindo == Cardinality(Pedindo)

NinguemVerifica == \A p \in Passagens : passagem[p].pc # "verificar"

(* For media other than a sticker nobody sleeps, and arrivals and restarts *)
(* pay for everything: for each request sent or being sent, each answer on *)
(* its way and each goroutine at work.  The attempt on record is the one   *)
(* thing they have not paid for, and only clearing it, which ends a        *)
(* goroutine or a request, allows another.                                 *)
Pago ==
  ~figurinha =>
    /\ relogios = 0 /\ NinguemVerifica
    /\ pedidos + NAtivas + NPedindo + correio
         <= copias + faltas + tentativas

IInvPedidos == Pago /\ PedidosLimitados

(* How the two counts change when one goroutine moves. *)
LEMMA Contas ==
  ASSUME passagem \in [Passagens -> Passagem], passagem' \in [Passagens -> Passagem],
         NEW p \in Passagens, Outras(p)
  PROVE  /\ NAtivas \in Nat /\ NAtivas' \in Nat
         /\ NPedindo \in Nat /\ NPedindo' \in Nat
         /\ NAtivas' = NAtivas
              - (IF passagem[p].pc # "livre" THEN 1 ELSE 0)
              + (IF passagem'[p].pc # "livre" THEN 1 ELSE 0)
         /\ NPedindo' = NPedindo
              - (IF passagem[p].pc = "recibo" THEN 1 ELSE 0)
              + (IF passagem'[p].pc = "recibo" THEN 1 ELSE 0)
<1>0. IsFiniteSet(Passagens)
  BY RetryMidiaAssumption DEF RetryMidiaAssumption
<1>1. ASSUME NEW A \in SUBSET Passagens, NEW B \in SUBSET Passagens, A \ {p} = B \ {p}
      PROVE  /\ Cardinality(A) \in Nat /\ Cardinality(B) \in Nat
             /\ Cardinality(B) = Cardinality(A) - (IF p \in A THEN 1 ELSE 0)
                                                + (IF p \in B THEN 1 ELSE 0)
  <2>1. IsFiniteSet(A) /\ IsFiniteSet(B)
    BY <1>0, FS_Subset
  <2>2. /\ Cardinality(A) \in Nat /\ Cardinality(B) \in Nat
        /\ Cardinality(A \ {p}) = IF p \in A THEN Cardinality(A) - 1 ELSE Cardinality(A)
        /\ Cardinality(B \ {p}) = IF p \in B THEN Cardinality(B) - 1 ELSE Cardinality(B)
    BY <2>1, FS_CardinalityType, FS_RemoveElement
  <2>3. Cardinality(A \ {p}) = Cardinality(B \ {p})
    BY <1>1
  <2> QED
    BY <2>2, <2>3
<1>2. Ativas \ {p} = Ativas' \ {p} /\ Pedindo \ {p} = Pedindo' \ {p}
  BY DEF Ativas, Pedindo, Outras
<1>3. /\ Ativas \in SUBSET Passagens /\ Ativas' \in SUBSET Passagens
      /\ Pedindo \in SUBSET Passagens /\ Pedindo' \in SUBSET Passagens
  BY DEF Ativas, Pedindo
<1>4. /\ p \in Ativas <=> passagem[p].pc # "livre"
      /\ p \in Ativas' <=> passagem'[p].pc # "livre"
      /\ p \in Pedindo <=> passagem[p].pc = "recibo"
      /\ p \in Pedindo' <=> passagem'[p].pc = "recibo"
  BY DEF Ativas, Pedindo
<1>5. /\ Cardinality(Ativas) \in Nat /\ Cardinality(Ativas') \in Nat
      /\ Cardinality(Ativas') = Cardinality(Ativas) - (IF p \in Ativas THEN 1 ELSE 0)
                                                + (IF p \in Ativas' THEN 1 ELSE 0)
  BY <1>1, <1>2, <1>3
<1>6. /\ Cardinality(Pedindo) \in Nat /\ Cardinality(Pedindo') \in Nat
      /\ Cardinality(Pedindo') = Cardinality(Pedindo) - (IF p \in Pedindo THEN 1 ELSE 0)
                                                + (IF p \in Pedindo' THEN 1 ELSE 0)
  BY <1>1, <1>2, <1>3
<1> QED
  BY <1>4, <1>5, <1>6 DEF NAtivas, NPedindo

(* A goroutine's steps keep the account. *)
LEMMA PagoPasso ==
  ASSUME TypeOKResto, TypeOKResto', ~figurinha, IInvPedidos, NEW p \in Passagens, Faz(p)
  PROVE  /\ relogios' = 0 /\ NinguemVerifica'
         /\ pedidos' + NAtivas' + NPedindo' + correio'
              <= copias' + faltas' + tentativas'
         /\ pedidos' <= copias' + faltas'
<1> DEFINE Antes(pc) == passagem[p].pc = pc
           Passa(pc) == Em(p, pc)
<1>0. /\ passagem \in [Passagens -> Passagem] /\ passagem' \in [Passagens -> Passagem]
      /\ relogios = 0 /\ NinguemVerifica /\ tentativas \in 0..1 /\ tentativas' \in 0..1
      /\ correio \in Nat /\ pedidos \in Nat /\ copias \in Nat /\ faltas \in Nat
      /\ pedidos + NAtivas + NPedindo + correio <= copias + faltas + tentativas
      /\ pedidos <= copias + faltas
  BY RetryMidiaAssumption
     DEF RetryMidiaAssumption, TypeOKResto, IInvPedidos, Pago, PedidosLimitados
<1>1. Outras(p) =>
        /\ NAtivas \in Nat /\ NAtivas' \in Nat /\ NPedindo \in Nat /\ NPedindo' \in Nat
        /\ NAtivas' = NAtivas - (IF Antes("livre") THEN 0 ELSE 1)
                + (IF passagem'[p].pc = "livre" THEN 0 ELSE 1)
        /\ NPedindo' = NPedindo - (IF Antes("recibo") THEN 1 ELSE 0)
                + (IF passagem'[p].pc = "recibo" THEN 1 ELSE 0)
  BY <1>0, Contas
<1>2. /\ \A pc : Passa(pc) => Outras(p) /\ passagem'[p].pc = pc
      /\ \A pc : Passa(pc) /\ pc # "verificar" => NinguemVerifica'
      /\ UNCHANGED passagem => NinguemVerifica' /\ UNCHANGED <<NAtivas, NPedindo>>
      /\ ~Antes("verificar")
      /\ SemMidia(p) => Passa("livre")
      /\ Termina(p) => Passa("livre")
      /\ Enfileirada(p) => Passa("livre") \/ Passa("concluir")
      /\ Substituir(p) => Passa("anexar") \/ Passa("contar")
      /\ \A pc : Segue(p, pc) => Passa(pc)
      /\ \A pc, tipo : Comeca(p, pc, tipo) => Passa(pc)
  <2>1. \A pc : Passa(pc) /\ pc # "verificar" => NinguemVerifica'
    BY <1>0 DEF Em, Outras, NinguemVerifica
  <2>2. UNCHANGED passagem => NinguemVerifica' /\ UNCHANGED <<NAtivas, NPedindo>>
    BY <1>0 DEF NinguemVerifica, NAtivas, NPedindo, Ativas, Pedindo
  <2>3. ~Antes("verificar")
    BY <1>0 DEF NinguemVerifica
  <2> QED
    BY <1>0, <2>1, <2>2, <2>3, Efeito DEF Em
<1>3. /\ NAtivas \in Nat /\ NPedindo \in Nat
      /\ ~Antes("livre") => NAtivas > 0
      /\ Antes("recibo") => NPedindo > 0
  <2>1. /\ IsFiniteSet(Ativas) /\ IsFiniteSet(Pedindo)
        /\ ~Antes("livre") => p \in Ativas
        /\ Antes("recibo") => p \in Pedindo
    BY RetryMidiaAssumption, FS_Subset DEF RetryMidiaAssumption, Ativas, Pedindo
  <2>2. \A S : IsFiniteSet(S) /\ p \in S => Cardinality(S) \in Nat /\ Cardinality(S) > 0
    BY FS_CardinalityType, FS_EmptySet
  <2> QED
    BY <2>1, <2>2, FS_CardinalityType DEF NAtivas, NPedindo
<1> HIDE DEF Passa
<1>4. CASE Chegar(p)
  BY <1>0, <1>1, <1>2, <1>4 DEF Chegar
<1>5. CASE Baixar(p)
  BY <1>0, <1>1, <1>2, <1>5 DEF Baixar
<1>6. CASE Pedir(p)
  BY <1>0, <1>1, <1>2, <1>6 DEF Pedir
<1>7. CASE MandarRecibo(p)
  BY <1>0, <1>1, <1>2, <1>3, <1>7 DEF MandarRecibo
<1>8. CASE Limpar(p)
  BY <1>0, <1>1, <1>2, <1>8 DEF Limpar
<1>9. CASE Verificar(p)
  BY <1>0, <1>1, <1>2, <1>9 DEF Verificar
<1>10. CASE Anexar(p)
  BY <1>0, <1>1, <1>2, <1>10 DEF Anexar, Falta
<1>11. CASE Contar(p)
  BY <1>0, <1>1, <1>2, <1>11 DEF Contar
<1>12. CASE Inserir(p)
  BY <1>0, <1>1, <1>2, <1>12 DEF Inserir, Falta
<1>13. CASE Responder(p)
  <2>1. /\ Antes("livre") /\ correio > 0 /\ correio' = correio - 1
        /\ Comeca(p, "baixar", "midia") \/ Comeca(p, "recusada", "midia")
             \/ UNCHANGED passagem
        /\ UNCHANGED <<tentativas, relogios, copias, faltas, pedidos>>
    BY <1>13, Zenon DEF Responder
  <2> QED
    BY <1>0, <1>1, <1>2, <1>3, <2>1
<1>14. CASE Acordar(p)
  BY <1>0, <1>14 DEF Acordar
<1> QED
  BY <1>4, <1>5, <1>6, <1>7, <1>8, <1>9, <1>10, <1>11, <1>12, <1>13, <1>14, Zenon
     DEF Faz, Prosseguir

(* Requests stay within arrivals and faults. *)
THEOREM PedidosCorrect == Spec => []PedidosLimitados
<1>1. Init => IInvPedidos
  <2> SUFFICES ASSUME Init PROVE IInvPedidos
    OBVIOUS
  <2>1. Ativas = {} /\ Pedindo = {}
    BY DEF Init, Ativas, Pedindo, Livre
  <2>2. NAtivas = 0 /\ NPedindo = 0
    BY <2>1, FS_EmptySet DEF NAtivas, NPedindo
  <2> QED
    BY <2>2 DEF Init, IInvPedidos, Pago, PedidosLimitados, NinguemVerifica, Livre
<1>2. TypeOKResto /\ TypeOKResto' /\ IInvPedidos /\ [Next]_vars => IInvPedidos'
  <2> SUFFICES ASSUME TypeOKResto, TypeOKResto', IInvPedidos, [Next]_vars, ~figurinha'
               PROVE  /\ relogios' = 0 /\ NinguemVerifica'
                      /\ pedidos' + NAtivas' + NPedindo' + correio'
                           <= copias' + faltas' + tentativas'
                      /\ pedidos' <= copias' + faltas'
    BY DEF IInvPedidos, Pago, PedidosLimitados
  <2>1. figurinha' = figurinha
    BY Zenon DEF Next, vars, Prosseguir, Chegar, Baixar, Pedir, MandarRecibo, Limpar,
                 Verificar, Anexar, Contar, Inserir, Responder, Acordar, Reiniciar
  <2>2. ~figurinha
    BY <2>1
  <2>3. CASE \E p \in Passagens : Faz(p)
    BY <2>2, <2>3, PagoPasso
  <2>4. CASE Reiniciar
    <3>1. Ativas' = {} /\ Pedindo' = {}
      BY <2>4 DEF Reiniciar, Ativas, Pedindo, Livre
    <3>2. NAtivas' = 0 /\ NPedindo' = 0
      BY <3>1, FS_EmptySet DEF NAtivas, NPedindo
    <3>3. NAtivas \in Nat /\ NPedindo \in Nat
      BY RetryMidiaAssumption, FS_Subset, FS_CardinalityType
         DEF RetryMidiaAssumption, NAtivas, NPedindo, Ativas, Pedindo
    <3> QED
      BY <2>2, <2>4, <3>2, <3>3, RetryMidiaAssumption
         DEF RetryMidiaAssumption, Reiniciar, Falta, Livre, NinguemVerifica, IInvPedidos,
             Pago, PedidosLimitados, TypeOKResto
  <2>5. CASE UNCHANGED vars
    BY <2>2, <2>5
       DEF vars, IInvPedidos, Pago, PedidosLimitados, NinguemVerifica, NAtivas, NPedindo,
           Ativas, Pedindo
  <2> QED
    BY <2>3, <2>4, <2>5, Zenon DEF Next, Faz
<1>3. TypeOK => TypeOKResto
  BY DEF TypeOK, TypeOKResto
<1> QED
  BY <1>1, <1>2, <1>3, TypeCorrect, PTL DEF Spec, IInvPedidos

---------------------------------------------------------------------------
(* Recebimento: types and conversion slots. *)

(* A set of numbers has a least one: the form of induction used below. *)
LEMMA MenorNatural ==
  ASSUME NEW T \in SUBSET Nat, T # {}
  PROVE  \E k \in T : \A j \in T : k <= j
<1> DEFINE R == OpToRel(<, Nat)
<1>1. \A j, k \in Nat : j < k => <<j, k>> \in R
  BY DEF OpToRel
<1>2. IsWellFoundedOn(R, Nat)
  BY NatLessThanWellFounded
<1> HIDE DEF R
<1>3. PICK k \in T : \A j \in T : <<j, k>> \notin R
  BY <1>2, WFMin
<1>4. ASSUME NEW j \in T PROVE k <= j
  <2>1. j \in Nat /\ k \in Nat /\ ~ (j < k)
    BY <1>1, <1>3
  <2> QED
    BY <2>1
<1> QED
  BY <1>4

(* A conversion that runs, numbered among those of its sticker. *)
Conversoes == {c \in Mensagens \X (1 .. Vagas) : c[2] <= conversoes[c[1]]}

(* tryAcquireStickerSlot and releaseStickerSlot keep books: the slots in   *)
(* use are the conversions that run, no more and no less.                  *)
VagasContadas == vagas = Cardinality(Conversoes)

Evento == [tipo : {"mensagem", "pacote", "grupo"}, texto : Seq(0 .. N)]

(* What is in front of the handlers: events, packets and recoveries. *)
TiposChegada ==
  /\ linha \in Seq(0 .. N) /\ eventos \in Seq(Evento)
  /\ \A i \in 1 .. Len(eventos) :
       eventos[i].tipo = "mensagem" => eventos[i].texto[1] \in Mensagens
  /\ espera \subseteq Seq(Mensagens) /\ dono \in Seq(Mensagens)
  /\ historySeen \subseteq Mensagens

(* What they do with a message. *)
TiposMidia ==
  /\ conversoes \in [Mensagens -> 0 .. Vagas] /\ vagas \in 0 .. Vagas
  /\ VagasContadas
  /\ enfileiradas \subseteq Mensagens /\ perdidas \subseteq Mensagens
  /\ erros \in 0 .. MaxErros

TiposGrupo == desde \in 0 .. Intervalo

Tipada == TiposChegada /\ TiposMidia /\ TiposGrupo

(* A packet leaves messages of the user only: none of the answers that     *)
(* pendingHistoryMessages looks for comes after the last of them.          *)
LEMMA Pendentes ==
  ASSUME NEW trecho \in Seq(0 .. N)
  PROVE  pendingHistoryMessages(trecho) \in Seq(Mensagens)
<1> DEFINE respostas == {i \in DOMAIN trecho : trecho[i] = 0}
<1>0. N \in Nat /\ Len(trecho) \in Nat /\ DOMAIN trecho = 1 .. Len(trecho)
  BY RecebimentoAssumption DEF RecebimentoAssumption
<1>1. CASE respostas = {}
  <2>1. pendingHistoryMessages(trecho) = trecho
    BY <1>1 DEF pendingHistoryMessages
  <2>2. \A i \in 1 .. Len(trecho) : trecho[i] \in Mensagens
    BY <1>0, <1>1 DEF Mensagens
  <2> QED
    BY <1>0, <2>1, <2>2
<1>2. CASE respostas # {}
  <2> DEFINE T == {Len(trecho) - i : i \in respostas}
  <2>1. T \in SUBSET Nat /\ T # {}
    BY <1>0, <1>2
  <2>2. PICK t \in T : \A j \in T : t <= j
    <3> HIDE DEF T
    <3> QED
      BY <2>1, MenorNatural
  <2>3. PICK u \in respostas : t = Len(trecho) - u
    BY <2>2
  <2>4. \A y \in respostas : u >= y
    <3> TAKE y \in respostas
    <3>1. t <= Len(trecho) - y /\ y \in Nat /\ u \in Nat
      BY <1>0, <2>2
    <3> QED
      BY <1>0, <2>3, <3>1
  <2> DEFINE k == Max(respostas)
  <2>5. k \in respostas /\ \A y \in respostas : k >= y
    BY <2>4 DEF Max
  <2>6. pendingHistoryMessages(trecho) = SubSeq(trecho, k + 1, Len(trecho))
    BY <1>2, Zenon DEF pendingHistoryMessages
  <2> HIDE DEF k
  <2>7. k \in 1 .. Len(trecho)
    BY <1>0, <2>5
  <2>8. \A i \in k + 1 .. Len(trecho) : trecho[i] \in Mensagens
    <3> TAKE i \in k + 1 .. Len(trecho)
    <3>1. i \in 1 .. Len(trecho) /\ ~ (k >= i)
      BY <1>0, <2>7
    <3>2. trecho[i] \in 0 .. N /\ trecho[i] # 0
      BY <1>0, <2>5, <3>1
    <3> QED
      BY <1>0, <3>2 DEF Mensagens
  <2> QED
    BY <1>0, <2>6, <2>7, <2>8, SubSeqProperties
<1> QED
  BY <1>1, <1>2

(* Conversions are finitely many. *)
LEMMA ConversoesFinitas ==
  /\ IsFiniteSet(Mensagens \X (1 .. Vagas))
  /\ IsFiniteSet(Conversoes) /\ Cardinality(Conversoes) \in Nat
<1>1. IsFiniteSet(Mensagens) /\ IsFiniteSet(1 .. Vagas)
  BY RecebimentoAssumption, FS_Interval DEF RecebimentoAssumption, Mensagens
<1>2. IsFiniteSet(Mensagens \X (1 .. Vagas))
  BY <1>1, FS_Product
<1>3. IsFiniteSet(Conversoes)
  BY <1>2, FS_Subset DEF Conversoes
<1> QED
  BY <1>2, <1>3, FS_CardinalityType

(* Those of one sticker are no more than the slots in use, and some slot   *)
(* is in use if there is one.                                              *)
LEMMA ConversoesDeUma ==
  ASSUME conversoes \in [Mensagens -> 0 .. Vagas], VagasContadas, NEW m \in Mensagens
  PROVE  conversoes[m] <= vagas
<1> DEFINE dela == {m} \X (1 .. conversoes[m])
<1>0. conversoes[m] \in 0 .. Vagas /\ Vagas \in Nat
  BY RecebimentoAssumption DEF RecebimentoAssumption
<1>1. dela \subseteq Conversoes
  BY <1>0 DEF Conversoes
<1>2. IsFiniteSet({m}) /\ Cardinality({m}) = 1
  BY FS_Singleton
<1>3. IsFiniteSet(1 .. conversoes[m]) /\ Cardinality(1 .. conversoes[m]) = conversoes[m]
  BY <1>0, FS_Interval
<1>4. Cardinality(dela) = conversoes[m]
  <2> DEFINE I == 1 .. conversoes[m]
  <2>1. IsFiniteSet(I)
    BY <1>3
  <2> HIDE DEF I
  <2>2. Cardinality({m} \X I) = Cardinality({m}) * Cardinality(I)
    BY <1>2, <2>1, FS_Product
  <2>3. Cardinality(I) = conversoes[m]
    BY <1>3 DEF I
  <2> QED
    BY <1>0, <1>2, <2>2, <2>3 DEF I
<1>5. Cardinality(dela) <= Cardinality(Conversoes)
  BY <1>1, ConversoesFinitas, FS_Subset
<1> QED
  BY <1>0, <1>4, <1>5 DEF VagasContadas

(* A conversion begins: it takes one slot that was free. *)
LEMMA ComecaConversao ==
  ASSUME conversoes \in [Mensagens -> 0 .. Vagas], vagas \in 0 .. Vagas, VagasContadas,
         NEW m \in Mensagens, vagas < Vagas,
         vagas' = vagas + 1, conversoes' = [conversoes EXCEPT ![m] = @ + 1]
  PROVE  /\ conversoes' \in [Mensagens -> 0 .. Vagas] /\ vagas' \in 0 .. Vagas
         /\ VagasContadas'
<1>0. Vagas \in Nat /\ conversoes[m] \in Nat /\ conversoes[m] < Vagas
  BY RecebimentoAssumption, ConversoesDeUma DEF RecebimentoAssumption
<1>1. conversoes' \in [Mensagens -> 0 .. Vagas] /\ vagas' \in 0 .. Vagas
  BY <1>0
<1> DEFINE nova == <<m, conversoes[m] + 1>>
<1>2. Conversoes' = Conversoes \cup {nova}
  <2>1. ASSUME NEW c \in Mensagens \X (1 .. Vagas)
        PROVE  c[2] <= conversoes'[c[1]] <=> c[2] <= conversoes[c[1]] \/ c = nova
    <3>1. c = <<c[1], c[2]>> /\ c[1] \in Mensagens /\ c[2] \in 1 .. Vagas
      OBVIOUS
    <3>2. CASE c[1] = m
      BY <1>0, <3>1, <3>2
    <3>3. CASE c[1] # m
      BY <3>1, <3>3
    <3> QED
      BY <3>2, <3>3
  <2>2. nova \in Mensagens \X (1 .. Vagas)
    BY <1>0
  <2> HIDE DEF nova
  <2> QED
    BY <2>1, <2>2 DEF Conversoes
<1>3. nova \notin Conversoes
  BY <1>0 DEF Conversoes
<1>4. Cardinality(Conversoes') = Cardinality(Conversoes) + 1
  BY <1>2, <1>3, ConversoesFinitas, FS_AddElement
<1> QED
  BY <1>1, <1>4 DEF VagasContadas

(* A conversion ends: it gives back the slot it had. *)
LEMMA TerminaConversao ==
  ASSUME conversoes \in [Mensagens -> 0 .. Vagas], vagas \in 0 .. Vagas, VagasContadas,
         NEW m \in Mensagens, conversoes[m] > 0,
         vagas' = vagas - 1, conversoes' = [conversoes EXCEPT ![m] = @ - 1]
  PROVE  /\ conversoes' \in [Mensagens -> 0 .. Vagas] /\ vagas' \in 0 .. Vagas
         /\ VagasContadas'
<1>0. Vagas \in Nat /\ conversoes[m] \in 1 .. Vagas /\ conversoes[m] <= vagas
  BY RecebimentoAssumption, ConversoesDeUma DEF RecebimentoAssumption
<1>1. conversoes' \in [Mensagens -> 0 .. Vagas] /\ vagas' \in 0 .. Vagas
  BY <1>0
<1> DEFINE finda == <<m, conversoes[m]>>
<1>2. Conversoes' = Conversoes \ {finda}
  <2>1. ASSUME NEW c \in Mensagens \X (1 .. Vagas)
        PROVE  c[2] <= conversoes'[c[1]] <=> c[2] <= conversoes[c[1]] /\ c # finda
    <3>1. c = <<c[1], c[2]>> /\ c[1] \in Mensagens /\ c[2] \in 1 .. Vagas
      OBVIOUS
    <3>2. CASE c[1] = m
      BY <1>0, <3>1, <3>2
    <3>3. CASE c[1] # m
      BY <3>1, <3>3
    <3> QED
      BY <3>2, <3>3
  <2> HIDE DEF finda
  <2> QED
    BY <2>1 DEF Conversoes
<1>3. finda \in Conversoes
  BY <1>0 DEF Conversoes
<1>4. Cardinality(Conversoes') = Cardinality(Conversoes) - 1
  BY <1>2, <1>3, ConversoesFinitas, FS_RemoveElement
<1> QED
  BY <1>0, <1>1, <1>4 DEF VagasContadas

(* processMessage keeps the types of what it touches. *)
LEMMA TiposProcessMessage ==
  ASSUME TiposMidia, NEW m \in Mensagens, processMessage(m)
  PROVE  TiposMidia'
<1>1. CASE m \in animada /\ vagas < Vagas
  <2>1. /\ vagas' = vagas + 1 /\ conversoes' = [conversoes EXCEPT ![m] = @ + 1]
        /\ UNCHANGED <<enfileiradas, perdidas, erros>>
    BY <1>1 DEF processMessage
  <2>2. /\ conversoes' \in [Mensagens -> 0 .. Vagas] /\ vagas' \in 0 .. Vagas
        /\ VagasContadas'
    BY <1>1, <2>1, ComecaConversao DEF TiposMidia
  <2> QED
    BY <2>1, <2>2 DEF TiposMidia
<1>2. CASE ~(m \in animada /\ vagas < Vagas)
  <2>1. Enfileirar(m) /\ UNCHANGED <<vagas, conversoes>>
    BY <1>2 DEF processMessage
  <2> QED
    BY <2>1, RecebimentoAssumption
       DEF RecebimentoAssumption, TiposMidia, VagasContadas, Conversoes, Enfileirar, Erro
<1> QED
  BY <1>1, <1>2

(* A step that leaves the media alone keeps their types. *)
LEMMA TiposMidiaIguais ==
  ASSUME TiposMidia, UNCHANGED midia, UNCHANGED erros \/ Erro
  PROVE  TiposMidia'
  BY RecebimentoAssumption
     DEF RecebimentoAssumption, TiposMidia, VagasContadas, Conversoes, midia, Erro

(* The events of a chat that is well typed, and what an arrival makes of   *)
(* them.                                                                   *)
EventosCertos ==
  /\ eventos \in Seq(Evento)
  /\ \A i \in 1 .. Len(eventos) :
       eventos[i].tipo = "mensagem" => eventos[i].texto[1] \in Mensagens

(* An event that arrives well typed leaves the events well typed. *)
LEMMA TiposChega ==
  ASSUME EventosCertos, NEW e \in Evento, Chega(e),
         e.tipo = "mensagem" => e.texto[1] \in Mensagens
  PROVE  EventosCertos'
<1>1. eventos' = Append(eventos, e)
  BY DEF Chega
<1> HIDE DEF Evento
<1>2. eventos' \in Seq(Evento) /\ Len(eventos') = Len(eventos) + 1 /\ Len(eventos) \in Nat
  BY <1>1 DEF EventosCertos
<1>3. \A i \in 1 .. Len(eventos) + 1 :
        eventos'[i] = IF i <= Len(eventos) THEN eventos[i] ELSE e
  BY <1>1 DEF EventosCertos
<1> QED
  BY <1>2, <1>3 DEF EventosCertos

(* The handler takes the oldest event; the rest is as it was. *)
LEMMA CabecaCauda ==
  ASSUME EventosCertos, eventos # <<>>, eventos' = Tail(eventos)
  PROVE  /\ EventosCertos' /\ Head(eventos) \in Evento
         /\ Head(eventos).tipo = "mensagem" => Head(eventos).texto[1] \in Mensagens
         /\ \A e : e \in ToSet(eventos) => e = Head(eventos) \/ e \in ToSet(eventos')
<1> HIDE DEF Evento
<1>1. /\ eventos \in Seq(Evento) /\ Len(eventos) \in Nat \ {0}
      /\ Head(eventos) = eventos[1] /\ Head(eventos) \in Evento
  BY DEF EventosCertos
<1>2. /\ eventos' \in Seq(Evento) /\ Len(eventos') = Len(eventos) - 1
      /\ \A i \in 1 .. Len(eventos') : eventos'[i] = eventos[i + 1]
  BY <1>1, HeadTailProperties
<1>3. EventosCertos'
  BY <1>1, <1>2 DEF EventosCertos
<1>4. ASSUME NEW e \in ToSet(eventos) PROVE e = Head(eventos) \/ e \in ToSet(eventos')
  <2>1. PICK i \in 1 .. Len(eventos) : e = eventos[i]
    BY <1>1 DEF ToSet
  <2>2. CASE i = 1
    BY <1>1, <2>1, <2>2
  <2>3. CASE i # 1
    <3>1. i - 1 \in 1 .. Len(eventos') /\ (i - 1) + 1 = i
      BY <1>1, <1>2, <2>3
    <3>2. eventos'[i - 1] = e
      BY <1>2, <2>1, <3>1
    <3>3. DOMAIN eventos' = 1 .. Len(eventos')
      BY <1>2
    <3> QED
      BY <3>1, <3>2, <3>3 DEF ToSet
  <2> QED
    BY <2>2, <2>3
<1> QED
  BY <1>1, <1>3, <1>4 DEF EventosCertos

(* The messages sent so far are counted, so the next one has a number. *)
LEMMA ContaEnviadas ==
  ASSUME linha \in Seq(0 .. N)
  PROVE  Enviadas \in Nat
<1>0. N \in Nat
  BY RecebimentoAssumption DEF RecebimentoAssumption
<1>1. ToSet(linha) \ {0} \subseteq 1 .. N
  BY <1>0 DEF ToSet
<1>2. IsFiniteSet(1 .. N)
  BY <1>0, FS_Interval
<1>3. IsFiniteSet(ToSet(linha) \ {0})
  BY <1>1, <1>2, FS_Subset
<1> QED
  BY <1>3, FS_CardinalityType DEF Enviadas

(* The environment: the user, WhatsApp, the group and the clock. *)
Externo ==
  \/ Enviar \/ ResponderDaFila \/ Desvincular \/ Vincular \/ EnviarPacote
  \/ Adicionar \/ EscreverNoGrupo \/ Passar

(* It keeps the types, touches no message in hand, and takes no event away. *)
LEMMA TiposExterno ==
  ASSUME Tipada, Externo
  PROVE  Tipada' /\ UNCHANGED <<espera, dono, historySeen, midia, erros>>
                 /\ ToSet(eventos) \subseteq ToSet(eventos')
<1> DEFINE Cresce == EventosCertos' /\ ToSet(eventos) \subseteq ToSet(eventos')
           Parado == UNCHANGED <<espera, dono, historySeen, midia, erros>>
<1>0. /\ linha \in Seq(0 .. N) /\ EventosCertos /\ N \in Nat
      /\ Intervalo \in Nat /\ desde \in 0 .. Intervalo
  BY RecebimentoAssumption
     DEF RecebimentoAssumption, Tipada, TiposChegada, TiposGrupo, EventosCertos
<1>1. ASSUME NEW e \in Evento, Chega(e), e.tipo = "mensagem" => e.texto[1] \in Mensagens
      PROVE  Cresce
  <2>1. EventosCertos'
    BY <1>0, <1>1, TiposChega
  <2> HIDE DEF Evento
  <2>2. /\ eventos' = Append(eventos, e) /\ eventos \in Seq(Evento)
        /\ DOMAIN eventos' = 1 .. Len(eventos) + 1 /\ DOMAIN eventos = 1 .. Len(eventos)
        /\ \A i \in 1 .. Len(eventos) : eventos'[i] = eventos[i]
    BY <1>0, <1>1 DEF Chega, EventosCertos
  <2> QED
    BY <2>1, <2>2 DEF ToSet
<1>2. UNCHANGED eventos => Cresce
  BY <1>0 DEF EventosCertos, ToSet
<1>3. DoGrupo \in Evento /\ DoGrupo.tipo # "mensagem"
  BY DEF DoGrupo, Evento
<1>4. ASSUME linha' \in Seq(0 .. N), Cresce, Parado, desde' \in 0 .. Intervalo
      PROVE  Tipada' /\ Parado /\ ToSet(eventos) \subseteq ToSet(eventos')
  BY <1>0, <1>4, TiposMidiaIguais, Zenon
     DEF Tipada, TiposChegada, TiposGrupo, EventosCertos
<1>5. CASE Enviar
  <2>1. Enviadas \in Nat /\ Enviadas < N /\ linha' = Append(linha, Enviadas + 1)
    BY <1>0, <1>5, ContaEnviadas DEF Enviar
  <2> DEFINE m == Enviadas + 1
  <2>2. m \in 1 .. N
    BY <1>0, <2>1
  <2> HIDE DEF m
  <2>3. Mensagem(m) \in Evento /\ Mensagem(m).texto[1] \in Mensagens
    BY <1>0, <2>2 DEF Mensagem, Evento, Mensagens
  <2>4. Chega(Mensagem(m)) \/ UNCHANGED eventos
    BY <1>5 DEF Enviar, m
  <2>5. linha' \in Seq(0 .. N)
    BY <1>0, <2>1, <2>2 DEF m
  <2>6. Parado /\ UNCHANGED desde
    BY <1>5 DEF Enviar, recuperacao, grupos
  <2> QED
    BY <1>0, <1>1, <1>2, <1>4, <2>3, <2>4, <2>5, <2>6
<1>6. CASE ResponderDaFila
  <2>1. linha' \in Seq(0 .. N)
    BY <1>0, <1>6 DEF ResponderDaFila
  <2> QED
    BY <1>0, <1>2, <1>4, <1>6, <2>1 DEF ResponderDaFila, recuperacao, grupos
<1>7. CASE Desvincular \/ Vincular
  BY <1>0, <1>2, <1>4, <1>7 DEF Desvincular, Vincular, recuperacao, grupos
<1>8. CASE EnviarPacote
  <2>1. PICK i, j \in DOMAIN linha : i <= j /\ Chega(Pacote(SubSeq(linha, i, j)))
    BY <1>8 DEF EnviarPacote
  <2>2. SubSeq(linha, i, j) \in Seq(0 .. N)
    BY <1>0, <2>1, SubSeqProperties
  <2>3. Pacote(SubSeq(linha, i, j)) \in Evento
        /\ Pacote(SubSeq(linha, i, j)).tipo # "mensagem"
    BY <2>2 DEF Pacote, Evento
  <2>4. Cresce
    BY <1>1, <2>1, <2>3
  <2> QED
    BY <1>0, <1>4, <1>8, <2>4 DEF EnviarPacote, chat, grupos
<1>9. CASE Adicionar \/ EscreverNoGrupo
  <2>1. Cresce
    BY <1>1, <1>3, <1>9 DEF Adicionar, EscreverNoGrupo
  <2> QED
    BY <1>0, <1>4, <1>9, <2>1 DEF Adicionar, EscreverNoGrupo, chat, recuperacao, grupos
<1>10. CASE Passar
  <2>1. desde' \in 0 .. Intervalo
    BY <1>0, <1>10 DEF Passar
  <2> QED
    BY <1>0, <1>2, <1>4, <1>10, <2>1 DEF Passar, chat, recuperacao
<1> QED
  BY <1>5, <1>6, <1>7, <1>8, <1>9, <1>10 DEF Externo

(* The steps of the bridge's goroutines. *)
Goroutines ==
  \/ handleEvent \/ TravarHistorico \/ RecuperarUma
  \/ (\E m \in Mensagens : deliverAnimatedSticker(m))
  \/ Sair \/ ReiniciarPonte

(* The event handler keeps the types, whatever kind of event it has. *)
LEMMA TiposHandleEvent ==
  ASSUME Tipada, handleEvent
  PROVE  Tipada'
<1> DEFINE evento == Head(eventos)
<1>0. /\ EventosCertos /\ eventos # <<>> /\ eventos' = Tail(eventos)
      /\ UNCHANGED <<animada, chat>>
  BY DEF handleEvent, Tipada, TiposChegada, EventosCertos
<1>1. /\ EventosCertos' /\ evento \in Evento
      /\ evento.tipo = "mensagem" => evento.texto[1] \in Mensagens
  BY <1>0, CabecaCauda
<1>2. linha' \in Seq(0 .. N)
  BY <1>0 DEF chat, Tipada, TiposChegada
<1> HIDE DEF evento
<1>3. CASE evento.tipo = "mensagem" /\ processMessage(evento.texto[1])
           /\ UNCHANGED <<recuperacao, grupos>>
  <2>1. TiposMidia'
    BY <1>1, <1>3, TiposProcessMessage DEF Tipada
  <2> QED
    BY <1>1, <1>2, <1>3, <2>1
       DEF Tipada, TiposChegada, TiposGrupo, EventosCertos, recuperacao, grupos
<1>4. CASE /\ evento.tipo = "pacote"
           /\ LET pendentes == pendingHistoryMessages(evento.texto) IN
              espera' = IF pendentes = <<>> THEN espera ELSE espera \cup {pendentes}
           /\ UNCHANGED <<pacotes, dono, historySeen, midia, grupos, erros>>
  <2>1. pendingHistoryMessages(evento.texto) \in Seq(Mensagens)
    BY <1>1, Pendentes DEF Evento
  <2>2. espera' \subseteq Seq(Mensagens)
    BY <1>4, <2>1 DEF Tipada, TiposChegada
  <2>3. TiposMidia'
    BY <1>4, TiposMidiaIguais DEF Tipada
  <2> QED
    BY <1>1, <1>2, <1>4, <2>2, <2>3
       DEF Tipada, TiposChegada, TiposGrupo, EventosCertos, grupos
<1>5. CASE evento.tipo = "grupo" /\ leaveGroup /\ UNCHANGED <<recuperacao, midia, erros>>
  <2>1. TiposMidia'
    BY <1>5, TiposMidiaIguais DEF Tipada
  <2>2. desde' \in 0 .. Intervalo
    BY <1>5, RecebimentoAssumption
       DEF RecebimentoAssumption, Tipada, TiposGrupo, leaveGroup, grupos
  <2> QED
    BY <1>1, <1>2, <1>5, <2>1, <2>2
       DEF Tipada, TiposChegada, TiposGrupo, EventosCertos, recuperacao
<1> QED
  BY <1>3, <1>4, <1>5 DEF handleEvent, evento

(* So do the other goroutines and a restart. *)
LEMMA TiposGoroutines ==
  ASSUME Tipada, Goroutines
  PROVE  Tipada'
<1>0. /\ linha \in Seq(0 .. N) /\ EventosCertos /\ espera \subseteq Seq(Mensagens)
      /\ dono \in Seq(Mensagens) /\ historySeen \subseteq Mensagens
      /\ TiposMidia /\ desde \in 0 .. Intervalo /\ Intervalo \in Nat
  BY RecebimentoAssumption
     DEF RecebimentoAssumption, Tipada, TiposChegada, TiposGrupo, EventosCertos
<1>1. ASSUME UNCHANGED chat, UNCHANGED eventos, espera' \subseteq Seq(Mensagens),
             dono' \in Seq(Mensagens), historySeen' \subseteq Mensagens,
             TiposMidia', desde' \in 0 .. Intervalo
      PROVE  Tipada'
  BY <1>0, <1>1 DEF Tipada, TiposChegada, TiposGrupo, EventosCertos, chat
<1>2. CASE handleEvent
  BY <1>2, TiposHandleEvent
<1>3. CASE TravarHistorico
  <2>1. dono' \in Seq(Mensagens) /\ espera' \subseteq Seq(Mensagens)
    BY <1>0, <1>3 DEF TravarHistorico
  <2> QED
    BY <1>0, <1>1, <1>3, <2>1, TiposMidiaIguais DEF TravarHistorico, grupos
<1>4. CASE RecuperarUma
  <2>1. Head(dono) \in Mensagens /\ dono' \in Seq(Mensagens)
    BY <1>0, <1>4 DEF RecuperarUma, restantes
  <2>2. TiposMidia' /\ historySeen' \subseteq Mensagens
    BY <1>0, <1>4, <2>1, TiposMidiaIguais, TiposProcessMessage DEF RecuperarUma
  <2> QED
    BY <1>0, <1>1, <1>4, <2>1, <2>2 DEF RecuperarUma, grupos
<1>5. ASSUME NEW m \in Mensagens, deliverAnimatedSticker(m) PROVE Tipada'
  <2>1. /\ conversoes[m] > 0 /\ conversoes' = [conversoes EXCEPT ![m] = @ - 1]
        /\ vagas' = vagas - 1 /\ Enfileirar(m)
        /\ UNCHANGED <<animada, chat, eventos, recuperacao, grupos>>
    BY <1>5 DEF deliverAnimatedSticker, releaseStickerSlot
  <2>2. /\ conversoes' \in [Mensagens -> 0 .. Vagas] /\ vagas' \in 0 .. Vagas
        /\ VagasContadas'
    BY <1>0, <2>1, TerminaConversao DEF TiposMidia
  <2>3. /\ enfileiradas' \subseteq Mensagens /\ perdidas' \subseteq Mensagens
        /\ erros' \in 0 .. MaxErros
    BY <1>0, <2>1, RecebimentoAssumption
       DEF RecebimentoAssumption, TiposMidia, Enfileirar, Erro
  <2>4. TiposMidia'
    BY <2>2, <2>3 DEF TiposMidia
  <2> QED
    BY <1>0, <1>1, <2>1, <2>4 DEF recuperacao, grupos
<1>6. CASE Sair
  <2>1. UNCHANGED erros \/ Erro
    BY <1>6 DEF Sair
  <2>2. TiposMidia'
    BY <1>0, <1>6, <2>1, TiposMidiaIguais DEF Sair
  <2> QED
    BY <1>0, <1>1, <1>6, <2>2 DEF Sair, recuperacao
<1>7. CASE ReiniciarPonte
  <2>1. /\ erros' \in 0 .. MaxErros /\ Vagas \in Nat
        /\ conversoes' = [m \in Mensagens |-> 0] /\ vagas' = 0
        /\ enfileiradas' = enfileiradas
    BY <1>0, <1>7, RecebimentoAssumption
       DEF RecebimentoAssumption, TiposMidia, ReiniciarPonte, Erro
  <2>2. EmMaos \subseteq Mensagens
    BY <1>0 DEF EmMaos, ToSet
  <2>3. perdidas' \subseteq Mensagens
    BY <1>0, <1>7, <2>2 DEF ReiniciarPonte, TiposMidia
  <2>4. VagasContadas'
    <3>1. Conversoes' = {}
      BY <2>1 DEF Conversoes
    <3> QED
      BY <2>1, <3>1, FS_EmptySet DEF VagasContadas
  <2>5. TiposMidia'
    BY <1>0, <2>1, <2>3, <2>4 DEF TiposMidia
  <2> QED
    BY <1>0, <1>1, <1>7, <2>5 DEF ReiniciarPonte
<1> QED
  BY <1>2, <1>3, <1>4, <1>5, <1>6, <1>7, Zenon DEF Goroutines

(* The two halves are the whole. *)
LEMMA PassoRecebimento ==
  [NextRecebimento]_estado => Externo \/ Goroutines \/ UNCHANGED estado
  BY Zenon DEF NextRecebimento, Externo, Goroutines

(* The types and the books of the slots hold for ever. *)
LEMMA TipadaSempre == SpecRecebimento => []Tipada
<1>1. ASSUME InitRecebimento PROVE Tipada
  <2>1. Conversoes = {}
    BY <1>1 DEF InitRecebimento, Conversoes
  <2>2. VagasContadas
    BY <1>1, <2>1, FS_EmptySet DEF InitRecebimento, VagasContadas
  <2> QED
    BY <1>1, <2>2, RecebimentoAssumption
       DEF RecebimentoAssumption, InitRecebimento, Tipada, TiposChegada, TiposMidia,
           TiposGrupo
<1>2. ASSUME Tipada, UNCHANGED estado PROVE Tipada'
  BY <1>2
     DEF estado, chat, recuperacao, midia, grupos, Tipada, TiposChegada, TiposMidia,
         TiposGrupo, VagasContadas, Conversoes
<1>3. Tipada /\ [NextRecebimento]_estado => Tipada'
  BY <1>2, PassoRecebimento, TiposExterno, TiposGoroutines
<1> QED
  BY <1>1, <1>3, PTL DEF SpecRecebimento

(* Every reachable state of the goroutines that feed the queue is well     *)
(* typed; in particular no sticker is converted beyond the slots.          *)
THEOREM TiposCorrect == SpecRecebimento => []TypeOKRecebimento
<1>1. Tipada => TypeOKRecebimento
  BY DEF Tipada, TiposChegada, TiposMidia, TiposGrupo, TypeOKRecebimento, ToSet
<1> QED
  BY <1>1, TipadaSempre, PTL

(* tryAcquireStickerSlot and the deferred releaseStickerSlot keep books:   *)
(* the slots in use are the conversions that run.  No failure, restart or  *)
(* order of goroutines leaks a slot or gives one back twice.               *)
THEOREM VagasCorrect == SpecRecebimento => []VagasContadas
<1>1. Tipada => VagasContadas
  BY DEF Tipada, TiposMidia
<1> QED
  BY <1>1, TipadaSempre, PTL

---------------------------------------------------------------------------
(* Recebimento: nothing disappears. *)

(* What the bridge has and has not dealt with: events that wait, messages  *)
(* in the hands of a goroutine.                                            *)
NaPonte == EmMaos \cup {m \in Mensagens : Mensagem(m) \in ToSet(eventos)}
Tratadas == enfileiradas \cup perdidas

(* recoverHistoryMessages marks a message as taken before it processes it, *)
(* and nobody takes it again: it is queued, lost to an error, or a         *)
(* conversion has it.                                                      *)
TomadasGuardadas ==
  historySeen \subseteq Tratadas \cup {m \in Mensagens : conversoes[m] > 0}

(* No step lets go of a message but into the queue, or for an error or a   *)
(* restart.                                                                *)
NadaSome == NaPonte \subseteq NaPonte' \cup Tratadas'

(* processMessage leaves its message converted, queued or lost, and all    *)
(* others where they were.                                                 *)
LEMMA ProcessaUma ==
  ASSUME TiposMidia, NEW m \in Mensagens, processMessage(m)
  PROVE  /\ m \in Tratadas' \/ conversoes'[m] > 0
         /\ \A k \in Mensagens : conversoes[k] > 0 => conversoes'[k] > 0
         /\ Tratadas \subseteq Tratadas'
<1>1. CASE m \in animada /\ vagas < Vagas
  <2>1. /\ conversoes' = [conversoes EXCEPT ![m] = @ + 1]
        /\ UNCHANGED <<enfileiradas, perdidas>>
    BY <1>1 DEF processMessage
  <2> QED
    BY <2>1 DEF TiposMidia, Tratadas
<1>2. CASE ~(m \in animada /\ vagas < Vagas)
  BY <1>2 DEF processMessage, Enfileirar, Tratadas
<1> QED
  BY <1>1, <1>2

(* The goroutines of the bridge let nothing slip, step by step. *)
LEMMA NadaSomeGoroutines ==
  ASSUME Tipada, TomadasGuardadas, Goroutines
  PROVE  NadaSome /\ TomadasGuardadas'
<1> DEFINE Converte(m) == conversoes[m] > 0
           Convertem == {m \in Mensagens : conversoes[m] > 0}
<1>0. /\ EventosCertos /\ espera \subseteq Seq(Mensagens)
      /\ dono \in Seq(Mensagens) /\ historySeen \subseteq Mensagens
      /\ TiposMidia /\ conversoes \in [Mensagens -> 0 .. Vagas] /\ Vagas \in Nat
  BY RecebimentoAssumption
     DEF RecebimentoAssumption, Tipada, TiposChegada, TiposMidia, EventosCertos
<1>1. ASSUME NEW m \in NaPonte
      PROVE  /\ m \in Mensagens
             /\ \/ Mensagem(m) \in ToSet(eventos)
                \/ conversoes[m] > 0
                \/ m \in ToSet(dono)
                \/ \E msgs \in espera : m \in ToSet(msgs)
  BY <1>0, <1>1 DEF NaPonte, EmMaos, ToSet
<1>2. ASSUME NEW m \in Mensagens,
             \/ Mensagem(m) \in ToSet(eventos')
             \/ conversoes'[m] > 0
             \/ m \in ToSet(dono')
             \/ \E msgs \in espera' : m \in ToSet(msgs)
      PROVE  m \in NaPonte'
  BY <1>2 DEF NaPonte, EmMaos
<1>3. CASE handleEvent
  <2> DEFINE evento == Head(eventos)
  <2>1. /\ \A e : e \in ToSet(eventos) => e = evento \/ e \in ToSet(eventos')
        /\ evento.tipo = "mensagem" => evento.texto[1] \in Mensagens
    BY <1>0, <1>3, CabecaCauda DEF handleEvent
  <2>2. \A m \in Mensagens : Mensagem(m).tipo = "mensagem" /\ Mensagem(m).texto[1] = m
    BY DEF Mensagem
  <2> HIDE DEF evento
  <2>3. CASE evento.tipo = "mensagem" /\ processMessage(evento.texto[1])
             /\ UNCHANGED <<recuperacao, grupos>>
    <3> DEFINE k == evento.texto[1]
    <3>1. /\ k \in Mensagens
          /\ k \in Tratadas' \/ conversoes'[k] > 0
          /\ \A m \in Mensagens : conversoes[m] > 0 => conversoes'[m] > 0
          /\ Tratadas \subseteq Tratadas'
      BY <1>0, <2>1, <2>3, ProcessaUma
    <3>2. \A m \in Mensagens : Mensagem(m) = evento => m = k
      BY <2>2
    <3> HIDE DEF k
    <3>3. NadaSome
      <4> SUFFICES ASSUME NEW m \in NaPonte, m \notin Tratadas' PROVE m \in NaPonte'
        BY DEF NadaSome
      <4> QED
        BY <1>1, <1>2, <2>1, <2>3, <3>1, <3>2 DEF recuperacao
    <3> QED
      BY <2>3, <3>1, <3>3 DEF TomadasGuardadas, recuperacao
  <2>4. CASE /\ evento.tipo # "mensagem" /\ espera \subseteq espera'
             /\ UNCHANGED <<dono, historySeen, midia>>
    <3>1. NadaSome
      <4> SUFFICES ASSUME NEW m \in NaPonte PROVE m \in NaPonte'
        BY DEF NadaSome
      <4> QED
        BY <1>1, <1>2, <2>1, <2>2, <2>4 DEF midia
    <3> QED
      BY <2>4, <3>1 DEF TomadasGuardadas, Tratadas, midia
  <2> QED
    BY <1>3, <2>3, <2>4 DEF handleEvent, evento, recuperacao
<1>4. CASE TravarHistorico
  <2>1. PICK msgs \in espera : dono' = msgs /\ espera' = espera \ {msgs}
    BY <1>4 DEF TravarHistorico
  <2>2. dono = <<>> /\ UNCHANGED <<eventos, historySeen, midia>>
    BY <1>4 DEF TravarHistorico
  <2>3. NadaSome
    <3> SUFFICES ASSUME NEW m \in NaPonte PROVE m \in NaPonte'
      BY DEF NadaSome
    <3>1. m \notin ToSet(dono)
      BY <2>2 DEF ToSet
    <3> QED
      BY <1>1, <1>2, <2>1, <2>2, <3>1 DEF midia
  <2> QED
    BY <2>2, <2>3 DEF TomadasGuardadas, Tratadas, midia
<1>5. CASE RecuperarUma
  <2> DEFINE k == Head(dono)
  <2>1. /\ k \in Mensagens /\ dono # <<>> /\ dono' = Tail(dono)
        /\ UNCHANGED <<eventos, espera>>
    BY <1>0, <1>5 DEF RecuperarUma, restantes
  <2>2. \A m \in ToSet(dono) : m = k \/ m \in ToSet(dono')
    <3> TAKE m \in ToSet(dono)
    <3>1. PICK i \in 1 .. Len(dono) : m = dono[i]
      BY <1>0 DEF ToSet
    <3>2. CASE i = 1
      BY <1>0, <2>1, <3>1, <3>2
    <3>3. CASE i # 1
      <4>1. /\ dono' \in Seq(Mensagens) /\ Len(dono') = Len(dono) - 1
            /\ i - 1 \in 1 .. Len(dono') /\ dono'[i - 1] = dono[(i - 1) + 1]
        BY <1>0, <2>1, <3>3, HeadTailProperties
      <4> QED
        BY <3>1, <4>1 DEF ToSet
    <3> QED
      BY <3>2, <3>3
  <2> HIDE DEF k
  <2>3. CASE k \in historySeen /\ UNCHANGED <<historySeen, midia>>
    <3>1. k \in Tratadas' \/ conversoes'[k] > 0
      BY <2>1, <2>3 DEF TomadasGuardadas, Tratadas, midia
    <3>2. NadaSome
      <4> SUFFICES ASSUME NEW m \in NaPonte, m \notin Tratadas' PROVE m \in NaPonte'
        BY DEF NadaSome
      <4> QED
        BY <1>1, <1>2, <2>1, <2>2, <2>3, <3>1 DEF midia
    <3> QED
      BY <2>3, <3>2 DEF TomadasGuardadas, Tratadas, midia
  <2>4. CASE historySeen' = historySeen \cup {k} /\ processMessage(k)
    <3>1. /\ k \in Tratadas' \/ conversoes'[k] > 0
          /\ \A m \in Mensagens : conversoes[m] > 0 => conversoes'[m] > 0
          /\ Tratadas \subseteq Tratadas'
      BY <1>0, <2>1, <2>4, ProcessaUma
    <3>2. NadaSome
      <4> SUFFICES ASSUME NEW m \in NaPonte, m \notin Tratadas' PROVE m \in NaPonte'
        BY DEF NadaSome
      <4> QED
        BY <1>1, <1>2, <2>1, <2>2, <3>1
    <3> QED
      BY <2>1, <2>4, <3>1, <3>2 DEF TomadasGuardadas
  <2> QED
    BY <1>5, <2>3, <2>4 DEF RecuperarUma, k
<1>6. ASSUME NEW k \in Mensagens, deliverAnimatedSticker(k)
      PROVE  NadaSome /\ TomadasGuardadas'
  <2>1. /\ k \in Tratadas' /\ Tratadas \subseteq Tratadas'
        /\ \A m \in Mensagens \ {k} : conversoes'[m] = conversoes[m]
        /\ UNCHANGED <<eventos, espera, dono, historySeen>>
    BY <1>0, <1>6 DEF deliverAnimatedSticker, Enfileirar, Tratadas, recuperacao
  <2>2. NadaSome
    <3> SUFFICES ASSUME NEW m \in NaPonte, m \notin Tratadas' PROVE m \in NaPonte'
      BY DEF NadaSome
    <3> QED
      BY <1>1, <1>2, <2>1
  <2> QED
    BY <2>1, <2>2 DEF TomadasGuardadas
<1>7. CASE Sair
  BY <1>7
     DEF Sair, NadaSome, NaPonte, EmMaos, TomadasGuardadas, Tratadas, recuperacao, midia
<1>8. CASE ReiniciarPonte
  <2>1. EmMaos \subseteq Tratadas' /\ UNCHANGED eventos /\ historySeen' = {}
    BY <1>8 DEF ReiniciarPonte, Tratadas
  <2> QED
    BY <2>1 DEF NadaSome, NaPonte, TomadasGuardadas
<1> QED
  BY <1>3, <1>4, <1>5, <1>6, <1>7, <1>8, Zenon DEF Goroutines

(* The environment only brings, and so takes nothing away. *)
LEMMA NadaSomePasso ==
  ASSUME Tipada, TomadasGuardadas, [NextRecebimento]_estado
  PROVE  NadaSome /\ TomadasGuardadas'
<1>1. CASE Externo
  <2>1. /\ UNCHANGED <<espera, dono, historySeen, midia>>
        /\ ToSet(eventos) \subseteq ToSet(eventos')
    BY <1>1, TiposExterno
  <2> QED
    BY <2>1 DEF midia, NadaSome, NaPonte, EmMaos, TomadasGuardadas, Tratadas
<1>2. CASE UNCHANGED estado
  BY <1>2
     DEF estado, recuperacao, midia, NadaSome, NaPonte, EmMaos, TomadasGuardadas, Tratadas
<1> QED
  BY <1>1, <1>2, NadaSomeGoroutines, PassoRecebimento

(* A message that a recovery has taken, and that no other will take again, *)
(* is in the queue, lost to an error, or being converted.                  *)
THEOREM TomadasCorrect == SpecRecebimento => []TomadasGuardadas
<1>1. InitRecebimento => TomadasGuardadas
  BY DEF InitRecebimento, TomadasGuardadas
<1>2. Tipada /\ TomadasGuardadas /\ [NextRecebimento]_estado => TomadasGuardadas'
  BY NadaSomePasso
<1> QED
  BY <1>1, <1>2, TipadaSempre, PTL DEF SpecRecebimento

(* What the bridge was given, live or in a history packet, stays with it   *)
(* until it is queued, or an error or a restart takes it: packets that     *)
(* repeat each other, recoveries that wait for the lock and stickers that  *)
(* find no slot let nothing slip.                                          *)
THEOREM NadaSomeCorrect == SpecRecebimento => [][NadaSome]_estado
<1>1. Tipada /\ TomadasGuardadas /\ [NextRecebimento]_estado => [NadaSome]_estado
  BY NadaSomePasso
<1> QED
  BY <1>1, TipadaSempre, TomadasCorrect, PTL DEF SpecRecebimento

---------------------------------------------------------------------------
(* The arithmetic of stickers. *)

(* What a quotient is. *)
LEMMA Quociente ==
  ASSUME NEW a \in Nat, NEW d \in Nat \ {0}
  PROVE  /\ a \div d \in Nat
         /\ (a \div d) * d <= a /\ a < (a \div d) * d + d
  OBVIOUS

(* A number with the property of the quotient is the quotient. *)
LEMMA QuocienteUnico ==
  ASSUME NEW a \in Nat, NEW d \in Nat \ {0}, NEW q \in Nat,
         q * d <= a, a < q * d + d
  PROVE  a \div d = q
  OBVIOUS

(* A dividend larger by the divisor has a larger quotient. *)
LEMMA QuocienteCresce ==
  ASSUME NEW a \in Nat, NEW d \in Nat \ {0}, NEW b \in Nat, b >= a + d
  PROVE  a \div d < b \div d
  OBVIOUS

(* A quotient is a limit on the other factor. *)
LEMMA QuocienteLimita ==
  ASSUME NEW w \in Nat, NEW h \in Nat \ {0}, NEW P \in Nat
  PROVE  w <= P \div h <=> w * h <= P
  OBVIOUS

(* The samples begin at 1, end at n and grow. *)
LEMMA Indices ==
  ASSUME NEW max \in Nat \ {0, 1}, NEW n \in Nat, n > max
  PROVE  /\ \A i \in Nat : indice(i, n, max) \in Nat
         /\ indice(0, n, max) = 1 /\ indice(max - 1, n, max) = n
         /\ \A i \in Nat : indice(i, n, max) < indice(i + 1, n, max)
<1> DEFINE d == max - 1
           h == d \div 2
<1>1. d \in Nat \ {0} /\ h \in Nat /\ h < d
  OBVIOUS
<1>2. ASSUME NEW i \in Nat
      PROVE  i * (n - 1) + h \in Nat /\ (i + 1) * (n - 1) + h >= i * (n - 1) + h + d
  <2>1. (i + 1) * (n - 1) = i * (n - 1) + (n - 1)
    OBVIOUS
  <2>2. i * (n - 1) \in Nat
    OBVIOUS
  <2>3. n - 1 >= d
    OBVIOUS
  <2> HIDE DEF d, h
  <2> QED
    BY <1>1, <2>1, <2>2, <2>3
<1>3. \A i \in Nat : indice(i, n, max) = 1 + ((i * (n - 1) + h) \div d)
  BY DEF indice
<1> HIDE DEF d, h
<1>4. \A i \in Nat : indice(i, n, max) \in Nat
  <2> TAKE i \in Nat
  <2>1. (i * (n - 1) + h) \div d \in Nat
    BY <1>1, <1>2, Quociente
  <2> QED
    BY <1>3, <2>1
<1>5. \A i \in Nat : indice(i, n, max) < indice(i + 1, n, max)
  <2> TAKE i \in Nat
  <2> DEFINE a == i * (n - 1) + h
             b == (i + 1) * (n - 1) + h
  <2>1. a \in Nat /\ b \in Nat /\ b >= a + d
    BY <1>1, <1>2
  <2>2. indice(i, n, max) = 1 + (a \div d) /\ indice(i + 1, n, max) = 1 + (b \div d)
    BY <1>3
  <2> HIDE DEF a, b
  <2>3. a \div d < b \div d
    BY <1>1, <2>1, QuocienteCresce
  <2> QED
    BY <1>1, <2>1, <2>2, <2>3, Quociente
<1>6. indice(0, n, max) = 1
  <2>1. h \div d = 0
    BY <1>1, QuocienteUnico
  <2> QED
    BY <1>1, <1>3, <2>1
<1>7. indice(max - 1, n, max) = n
  <2> DEFINE q == n - 1
  <2>1. q \in Nat
    OBVIOUS
  <2>2. (d * q + h) \div d = q
    <3>1. d * q = q * d /\ d * q \in Nat
      BY <1>1, <2>1
    <3> QED
      BY <1>1, <2>1, <3>1, QuocienteUnico
  <2>3. indice(d, n, max) = 1 + ((d * q + h) \div d)
    BY <1>1, <1>3
  <2>4. d = max - 1
    BY DEF d
  <2> QED
    BY <2>2, <2>3, <2>4
<1> QED
  BY <1>4, <1>5, <1>6, <1>7

(* The loop appends every index, because no two in a row are equal. *)
LEMMA Colhidas ==
  ASSUME NEW max \in Nat \ {0, 1}, NEW n \in Nat, n > max
  PROVE  colhidas(n, max)[max] = [i \in 1 .. max |-> indice(i - 1, n, max)]
<1> DEFINE f(i) == indice(i - 1, n, max)
           Passo(g) == [k \in 0 .. max |->
                          IF k = 0 THEN <<>>
                          ELSE IF g[k - 1] # <<>> /\ Last(g[k - 1]) = indice(k - 1, n, max)
                          THEN g[k - 1] ELSE Append(g[k - 1], indice(k - 1, n, max))]
           S(k) == [i \in 1 .. k |-> f(i)]
           W == [k \in 0 .. max |-> S(k)]
<1>1. \A i \in 1 .. max : f(i) \in Nat
  BY Indices
<1>2. \A i \in 1 .. max - 1 : f(i) < f(i + 1)
  <2> TAKE i \in 1 .. max - 1
  <2>1. i - 1 \in Nat /\ (i - 1) + 1 = (i + 1) - 1
    OBVIOUS
  <2> QED
    BY <2>1, Indices
<1> HIDE DEF f
<1>3. \A k \in 0 .. max : S(k) \in Seq(Nat) /\ Len(S(k)) = k
  BY <1>1
<1>4. \A k \in 1 .. max : Append(S(k - 1), f(k)) = S(k)
  BY <1>1, <1>3
<1>5. \A k \in 1 .. max : S(k - 1) # <<>> => Last(S(k - 1)) # f(k)
  BY <1>1, <1>2, <1>3 DEF Last
<1>6. S(0) = <<>>
  BY <1>3
<1>7. W = Passo(W)
  <2>1. ASSUME NEW k \in 0 .. max PROVE W[k] = Passo(W)[k]
    <3>1. CASE k = 0
      BY <1>6, <3>1
    <3>2. CASE k # 0
      <4>1. k \in 1 .. max /\ k - 1 \in 0 .. max
        BY <3>2
      <4>2. W[k] = S(k) /\ W[k - 1] = S(k - 1)
        BY <4>1
      <4>3. Append(S(k - 1), f(k)) = S(k) /\ (S(k - 1) # <<>> => Last(S(k - 1)) # f(k))
        BY <1>4, <1>5, <4>1
      <4>4. Passo(W)[k] = IF W[k - 1] # <<>> /\ Last(W[k - 1]) = f(k)
                          THEN W[k - 1] ELSE Append(W[k - 1], f(k))
        BY <3>2 DEF f
      <4> HIDE DEF S, W, Passo
      <4> QED
        BY <4>2, <4>3, <4>4
    <3> QED
      BY <3>1, <3>2
  <2> QED
    BY <2>1
<1>8. colhidas(n, max) = Passo(colhidas(n, max))
  <2>1. colhidas(n, max) = CHOOSE g : g = Passo(g)
    BY Zenon DEF colhidas
  <2> HIDE DEF Passo, W
  <2> QED
    BY <1>7, <2>1
<1> DEFINE c == colhidas(n, max)
<1> HIDE DEF c
<1>9. \A k \in 0 .. max : c[k] = W[k]
  <2> DEFINE Falhas == {k \in 0 .. max : c[k] # W[k]}
  <2> SUFFICES ASSUME Falhas # {} PROVE FALSE
    OBVIOUS
  <2>1. PICK k \in Falhas : \A j \in Falhas : k <= j
    <3>1. Falhas \in SUBSET Nat
      OBVIOUS
    <3> HIDE DEF Falhas
    <3> QED
      BY <3>1, MenorNatural
  <2>2. c[k] = Passo(c)[k] /\ W[k] = Passo(W)[k]
    BY <1>7, <1>8 DEF c
  <2>3. CASE k = 0
    BY <2>1, <2>2, <2>3
  <2>4. CASE k # 0
    <3>1. k \in 0 .. max /\ k - 1 \in 0 .. max
      BY <2>1, <2>4
    <3>2. k - 1 \notin Falhas
      <4> HIDE DEF Falhas
      <4> QED
        BY <2>1, <3>1
    <3>3. c[k - 1] = W[k - 1]
      BY <3>1, <3>2
    <3> HIDE DEF W
    <3> QED
      BY <2>1, <2>2, <2>4, <3>3
  <2> QED
    BY <2>3, <2>4
<1> QED
  BY <1>9 DEF c, f

(* As many samples as fit, from the first frame to the last, in order. *)
Amostra(quadros, n, max) ==
  /\ Len(quadros) = IF n <= max THEN n ELSE max
  /\ quadros[1] = 1 /\ quadros[Len(quadros)] = n
  /\ \A i \in 1 .. Len(quadros) - 1 : quadros[i] < quadros[i + 1]

(* That is what sampleFrameIndices returns. *)
LEMMA Ordenadas ==
  ASSUME NEW max \in Nat \ {0, 1}, NEW n \in Nat \ {0}
  PROVE  Amostra(sampleFrameIndices(n, max), n, max)
<1> DEFINE quadros == sampleFrameIndices(n, max)
<1>1. CASE n <= max
  <2>1. quadros = [i \in 1 .. n |-> i]
    BY <1>1 DEF sampleFrameIndices
  <2>2. Len(quadros) = n
    BY <2>1
  <2> HIDE DEF quadros
  <2>3. Amostra(quadros, n, max)
    BY <1>1, <2>1, <2>2 DEF Amostra
  <2> QED
    BY <2>3 DEF quadros
<1>2. CASE n > max
  <2>1. quadros = [i \in 1 .. max |-> indice(i - 1, n, max)]
    BY <1>2, Colhidas DEF sampleFrameIndices
  <2> HIDE DEF quadros
  <2>2. Len(quadros) = max
    BY <2>1
  <2>3. quadros[1] = 1 /\ quadros[max] = n
    BY <1>2, <2>1, Indices
  <2>4. ASSUME NEW i \in 1 .. max - 1 PROVE quadros[i] < quadros[i + 1]
    <3>1. i - 1 \in Nat /\ (i - 1) + 1 = i /\ (i + 1) - 1 = i
      OBVIOUS
    <3>2. indice(i - 1, n, max) < indice(i, n, max)
      BY <1>2, <3>1, Indices
    <3>3. quadros[i] = indice(i - 1, n, max) /\ quadros[i + 1] = indice(i, n, max)
      BY <2>1, <3>1
    <3> QED
      BY <3>2, <3>3
  <2>5. Amostra(quadros, n, max)
    BY <1>2, <2>2, <2>3, <2>4 DEF Amostra
  <2> QED
    BY <2>5 DEF quadros
<1> QED
  BY <1>1, <1>2

(* The grid has room for all tiles and no empty row. *)
LEMMA Grade ==
  ASSUME NEW n \in Nat \ {0}
  PROVE  LET grade == contactSheetGrid(n) IN
         grade[1] * (grade[2] - 1) < n /\ n <= grade[1] * grade[2]
<1>1. CASE n <= 3
  BY <1>1 DEF contactSheetGrid
<1>2. CASE n > 3
  <2> DEFINE q == (n + 3) \div 4
  <2>1. contactSheetGrid(n) = <<4, q>>
    BY <1>2 DEF contactSheetGrid
  <2>2. q \in Nat /\ q * 4 <= n + 3 /\ n + 3 < q * 4 + 4
    BY Quociente
  <2> HIDE DEF q
  <2> QED
    BY <2>1, <2>2
<1> QED
  BY <1>1, <1>2

(* Whatever the length of the animation, its contact sheet is complete. *)
LEMMA FolhaCompleta == GradeCompleta
<1> USE FigurinhasAssumption DEF FigurinhasAssumption
<1> DEFINE max == maxAnimatedStickerFrames
           quadros(n) == sampleFrameIndices(n, max)
           grade(n) == contactSheetGrid(Len(quadros(n)))
<1>1. ASSUME NEW n \in 2 .. MaxQuadros
      PROVE  /\ Amostra(quadros(n), n, max)
             /\ grade(n)[1] * (grade(n)[2] - 1) < Len(quadros(n))
             /\ Len(quadros(n)) <= grade(n)[1] * grade(n)[2]
  <2>1. Amostra(quadros(n), n, max)
    BY Ordenadas
  <2>2. Len(quadros(n)) \in Nat \ {0}
    BY <2>1 DEF Amostra
  <2> QED
    BY <2>1, <2>2, Grade
<1> QED
  BY <1>1, Zenon DEF GradeCompleta, Amostra

(* The quotient of stickerCanvasAllowed decides as the product would. *)
LEMMA TelaCerta == TelaPeloTamanho
<1> USE FigurinhasAssumption DEF FigurinhasAssumption
<1> SUFFICES ASSUME NEW w \in 1 .. MaxLado, NEW h \in 1 .. MaxLado
             PROVE  stickerCanvasAllowed(w, h) <=> w * h <= maxStickerCanvasPixels
  BY DEF TelaPeloTamanho
<1>1. w <= maxStickerCanvasPixels \div h <=> w * h <= maxStickerCanvasPixels
  BY QuocienteLimita
<1> QED
  BY <1>1 DEF stickerCanvasAllowed

(* Every contact sheet made while the bridge converts a sticker shows the  *)
(* animation from its first frame to its last, in order, without a frame   *)
(* twice, on a grid that fits: for every length of animation and every     *)
(* limit of frames from two on.                                            *)
THEOREM FolhasCorrect == SpecRecebimento => []FolhasCompletas
<1>1. FolhasCompletas
  BY FolhaCompleta DEF FolhasCompletas
<1> QED
  BY <1>1, PTL

(* And a canvas is decoded exactly when its area is within the limit, for  *)
(* every limit and all sides, although the code never multiplies them.     *)
THEOREM TelasCorrect == SpecRecebimento => []TelasPeloTamanho
<1>1. TelasPeloTamanho
  BY TelaCerta DEF TelasPeloTamanho
<1> QED
  BY <1>1, PTL
============================================================================
