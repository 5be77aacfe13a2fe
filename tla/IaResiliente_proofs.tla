------------------------ MODULE IaResiliente_proofs ------------------------
(***************************************************************************)
(* What holds of the circuit breaker for any number of callers, attempts,  *)
(* failures and delays: its types, that it opens only after limite_falhas  *)
(* failures in a row, that probes are spaced out, and that no caller waits *)
(* for an answer that nobody will give.                                    *)
(***************************************************************************)
EXTENDS IaResiliente, TLAPS

USE DEF Menor, Maior, Teto, Idade

(* The mailbox only ever holds messages. *)
LEMMA CaixaTipo ==
  ASSUME caixa \in Seq(Mensagem)
  PROVE  /\ \A m \in Mensagem : Append(caixa, m) \in Seq(Mensagem)
         /\ caixa # << >> => /\ Head(caixa) \in Mensagem
                             /\ Tail(caixa) \in Seq(Mensagem)
  OBVIOUS

(* The actor's state stays within its type. *)
LEMMA EstadoTipo ==
  ASSUME NEW s \in Estado
  PROVE  /\ checar(s).novo \in Estado
         /\ ao_falhar(s) \in Estado
         /\ Fechado(0) \in Estado
  BY DisjuntorAssumption DEF Estado, checar, Pode, ao_falhar, Fechado, Aberto, SemiAberto

(* The initial state is well typed. *)
LEMMA TipoInicial == Init => TypeOK
  BY DisjuntorAssumption, IaResilienteAssumption
     DEF Init, InitDisjuntor, TypeOK, TypeOKDisjuntor, Estado, Fechado, Livre, Chamador,
         Passos, Mensagem

(* Every step of the actor keeps the types. *)
LEMMA TipoAtor ==
  ASSUME TypeOK, Ator
  PROVE  TypeOK'
<1> USE DisjuntorAssumption, IaResilienteAssumption
<1>0. /\ estado \in Estado /\ caixa \in Seq(Mensagem) /\ seguidas \in 0..limite_falhas
      /\ sondagem \in [ha : Idade, menor : Idade]
      /\ cham \in [Chamadores -> Chamador] /\ provedor \in {"ok", "instavel"}
      /\ faltas \in 0..MaxFaltas
  BY DEF TypeOK, TypeOKDisjuntor
<1>1. ASSUME NEW c \in Chamadores, Responder(c)  PROVE TypeOK'
  <2>1. PICK pode \in BOOLEAN :
           /\ TratarVerificar(c, pode)
           /\ cham' = IF ~Aguarda(c) THEN cham
                      ELSE IF pode THEN [cham EXCEPT ![c].pc = "executa"]
                      ELSE [cham EXCEPT ![c] = Livre]
    BY <1>1 DEF Responder
  <2>2. estado' \in Estado
    BY <1>0, <2>1, EstadoTipo DEF TratarVerificar
  <2>3. caixa' \in Seq(Mensagem)
    BY <1>0, <2>1, CaixaTipo DEF TratarVerificar
  <2>4. sondagem' \in [ha : Idade, menor : Idade]
    BY <1>0, <2>1 DEF TratarVerificar
  <2>5. cham' \in [Chamadores -> Chamador]
    <3>1. Livre \in Chamador
      BY DEF Livre, Chamador, Passos
    <3>2. CASE cham' = cham
      BY <1>0, <3>2
    <3>3. CASE cham' = [cham EXCEPT ![c] = Livre]
      BY <1>0, <3>1, <3>3
    <3>4. CASE cham' = [cham EXCEPT ![c].pc = "executa"]
      BY <1>0, <3>4, Zenon DEF Chamador, Passos
    <3> QED
      BY <2>1, <3>2, <3>3, <3>4, Zenon
  <2> QED
    BY <1>0, <1>1, <2>1, <2>2, <2>3, <2>4, <2>5
       DEF TypeOK, TypeOKDisjuntor, Responder, TratarVerificar
<1>2. ASSUME TratarSucesso, UNCHANGED <<cham, provedor, faltas>>  PROVE TypeOK'
  <2>1. estado' \in Estado /\ caixa' \in Seq(Mensagem)
    BY <1>0, <1>2, CaixaTipo, EstadoTipo DEF TratarSucesso
  <2>2. seguidas' \in 0..limite_falhas /\ sondagem' = sondagem
    BY <1>2 DEF TratarSucesso
  <2> QED
    BY <1>0, <1>2, <2>1, <2>2 DEF TypeOK, TypeOKDisjuntor
<1>3. ASSUME TratarFalha, UNCHANGED <<cham, provedor, faltas>>  PROVE TypeOK'
  BY <1>0, <1>3, CaixaTipo, EstadoTipo DEF TratarFalha, TypeOK, TypeOKDisjuntor
<1> QED
  BY <1>1, <1>2, <1>3 DEF Ator, TratarResultado

(* Every step of a caller keeps the types. *)
LEMMA TipoChamador ==
  ASSUME TypeOK, NEW c \in Chamadores,
         Pedir(c) \/ Desistir(c) \/ Prosseguir(c) \/ Matar(c)
  PROVE  TypeOK'
<1> USE DisjuntorAssumption, IaResilienteAssumption
<1>0. /\ caixa \in Seq(Mensagem)
      /\ cham \in [Chamadores -> Chamador]
      /\ faltas \in 0..MaxFaltas
  BY DEF TypeOK, TypeOKDisjuntor
<1>a. Verificar(c) \in Mensagem /\ Sucesso(c) \in Mensagem /\ Falha(c) \in Mensagem
  BY DEF Verificar, Sucesso, Falha, Mensagem
<1>b. /\ Append(caixa, Verificar(c)) \in Seq(Mensagem)
      /\ Append(caixa, Sucesso(c)) \in Seq(Mensagem)
      /\ Append(caixa, Falha(c)) \in Seq(Mensagem)
  BY <1>0, <1>a, CaixaTipo
<1>c. cham[c] \in Chamador
  BY <1>0
<1>1. caixa' \in Seq(Mensagem) /\ faltas' \in 0..MaxFaltas
  <2>1. CASE Pedir(c) \/ Acordar(c)
    BY <1>0, <1>b, <2>1 DEF Pedir, Acordar, Mandar
  <2>2. CASE Acertar(c) \/ Errar(c)
    BY <1>0, <1>b, <2>2 DEF Acertar, Errar, Mandar
  <2>3. CASE Desistir(c) \/ Matar(c)
    <3>1. caixa' = caixa /\ faltas' = faltas + 1 /\ faltas < MaxFaltas
      BY <2>3 DEF Desistir, Matar
    <3> QED
      BY <1>0, <3>1
  <2> QED
    BY <2>1, <2>2, <2>3 DEF Prosseguir
<1>2. cham' \in [Chamadores -> Chamador]
  <2>1. CASE Pedir(c)
    BY <1>0, <2>1, Zenon DEF Pedir, Chamador, Passos
  <2>2. CASE Desistir(c)
    BY <1>0, <2>2, Zenon DEF Desistir, Chamador, Passos
  <2>3. CASE Acertar(c) \/ Matar(c)
    <3>1. Livre \in Chamador
      BY DEF Livre, Chamador, Passos
    <3> QED
      BY <1>0, <2>3, <3>1 DEF Acertar, Matar
  <2>4. CASE Errar(c)
    <3>1. Livre \in Chamador
      BY DEF Livre, Chamador, Passos
    <3>2. CASE cham' = [cham EXCEPT ![c] = Livre]
      BY <1>0, <3>1, <3>2
    <3>3. CASE cham' = [cham EXCEPT ![c].pc = "dorme"]
      BY <1>0, <3>3, Zenon DEF Chamador, Passos
    <3> QED
      BY <2>4, <3>2, <3>3 DEF Errar
  <2>5. CASE Acordar(c)
    <3>1. Menor(cham[c].tentativa + 1, max_tentativas) \in 1..max_tentativas
      BY <1>c DEF Chamador
    <3> HIDE DEF Menor
    <3> QED
      BY <1>0, <2>5, <3>1, Zenon DEF Acordar, Chamador, Passos
  <2> QED
    BY <2>1, <2>2, <2>3, <2>4, <2>5 DEF Prosseguir
<1> QED
  BY <1>1, <1>2
     DEF TypeOK, TypeOKDisjuntor, Pedir, Desistir, Prosseguir, Matar, Acertar, Errar, Acordar

(* Every step keeps the types. *)
LEMMA TipoPasso == TypeOK /\ [Next]_vars => TypeOK'
<1> SUFFICES ASSUME TypeOK, [Next]_vars  PROVE TypeOK'
  OBVIOUS
<1>1. CASE Ator
  BY <1>1, TipoAtor
<1>2. CASE \E c \in Chamadores : Pedir(c) \/ Desistir(c) \/ Prosseguir(c) \/ Matar(c)
  BY <1>2, TipoChamador
<1>3. CASE Tempo
  <2>0. estado \in Estado /\ sondagem \in [ha : Idade, menor : Idade]
    BY DEF TypeOK, TypeOKDisjuntor
  <2>1. \A n \in Idade : Menor(n + 1, Teto) \in Idade
    BY DisjuntorAssumption
  <2> HIDE DEF Menor, Teto, Idade
  <2>2. estado' \in Estado
    <3>1. CASE estado' = estado
      BY <2>0, <3>1
    <3>2. CASE estado' = [estado EXCEPT !.ha = Menor(@ + 1, Teto)]
      BY <2>0, <2>1, <3>2 DEF Estado
    <3> QED
      BY <1>3, <3>1, <3>2 DEF Tempo, Envelhecer
  <2>3. sondagem' \in [ha : Idade, menor : Idade]
    BY <1>3, <2>0, <2>1 DEF Tempo, Envelhecer
  <2> QED
    BY <1>3, <2>2, <2>3 DEF Tempo, Envelhecer, TypeOK, TypeOKDisjuntor
<1>4. CASE Provedor
  BY <1>4 DEF Provedor, TypeOK, TypeOKDisjuntor
<1>5. CASE UNCHANGED vars
  BY <1>5 DEF vars, TypeOK, TypeOKDisjuntor
<1> QED
  BY <1>1, <1>2, <1>3, <1>4, <1>5 DEF Next

(* Every variable keeps its type, for any callers, limits and delays. *)
THEOREM TypeCorrect == Spec => []TypeOK
<1>1. Init => TypeOK
  BY TipoInicial
<1>2. TypeOK /\ [Next]_vars => TypeOK'
  BY TipoPasso
<1> QED
  BY <1>1, <1>2, PTL DEF Spec

---------------------------------------------------------------------------
(* Only the actor's Verificar, Sucesso and Falha change what AberturaTemCausa *)
(* reads; time leaves the count alone.                                        *)
LEMMA AberturaPasso == TypeOK /\ AberturaTemCausa /\ [Next]_vars => AberturaTemCausa'
<1> SUFFICES ASSUME TypeOK, AberturaTemCausa, [Next]_vars  PROVE AberturaTemCausa'
  OBVIOUS
<1> USE DisjuntorAssumption
<1>0. estado \in Estado /\ seguidas \in 0..limite_falhas
  BY DEF TypeOK, TypeOKDisjuntor
<1>1. ASSUME NEW c \in Chamadores, Responder(c)  PROVE AberturaTemCausa'
  <2>1. estado' = checar(estado).novo /\ seguidas' = seguidas
    BY <1>1 DEF Responder, TratarVerificar
  <2> QED
    BY <1>0, <2>1 DEF checar, SemiAberto, AberturaTemCausa
<1>2. CASE TratarResultado
  BY <1>0, <1>2 DEF TratarResultado, TratarSucesso, TratarFalha, ao_falhar, Fechado, Aberto,
                    AberturaTemCausa, Estado
<1>3. CASE Tempo
  BY <1>0, <1>3 DEF Tempo, Envelhecer, AberturaTemCausa, Estado
<1>4. ASSUME UNCHANGED <<estado, seguidas>>  PROVE AberturaTemCausa'
  BY <1>4 DEF AberturaTemCausa
<1> QED
  BY <1>1, <1>2, <1>3, <1>4
     DEF Next, Ator, Prosseguir, Pedir, Desistir, Acertar, Errar, Acordar, Matar, Provedor, vars

(* The breaker is open or half open only after limite_falhas failures in a *)
(* row, however the callers' outcomes interleave.                          *)
THEOREM AberturaCorrect == Spec => []AberturaTemCausa
<1>1. Init => AberturaTemCausa
  BY DEF Init, InitDisjuntor, AberturaTemCausa, Fechado
<1>2. TypeOK /\ AberturaTemCausa /\ [Next]_vars => AberturaTemCausa'
  BY AberturaPasso
<1> QED
  BY <1>1, <1>2, TypeCorrect, PTL DEF Spec

---------------------------------------------------------------------------
(* What makes SondasEspacadas inductive: the age of the breaker's state    *)
(* never exceeds the age of the last probe, because every way of opening   *)
(* or half opening it starts its age anew.                                 *)
SondaAntiga ==
  /\ estado.tipo # "Fechado" => sondagem.ha >= estado.ha
  /\ SondasEspacadas

(* Every step keeps the age of the last probe and the least distance seen. *)
LEMMA SondaPasso == TypeOK /\ SondaAntiga /\ [Next]_vars => SondaAntiga'
<1> SUFFICES ASSUME TypeOK, SondaAntiga, [Next]_vars  PROVE SondaAntiga'
  OBVIOUS
<1> USE DisjuntorAssumption DEF SondasEspacadas
<1>0. estado \in Estado /\ sondagem \in [ha : Idade, menor : Idade]
  BY DEF TypeOK, TypeOKDisjuntor
<1>1. ASSUME NEW c \in Chamadores, Responder(c)  PROVE SondaAntiga'
  <2>1. PICK pode \in BOOLEAN : TratarVerificar(c, pode)
    BY <1>1 DEF Responder
  <2>2. pode = Pode(estado) /\ estado' = checar(estado).novo
    BY <2>1 DEF TratarVerificar, checar
  <2>3. CASE estado.tipo # "Fechado" /\ pode
    <3>1. sondagem' = [ha |-> 0, menor |-> Menor(sondagem.menor, sondagem.ha)]
      BY <2>1, <2>3 DEF TratarVerificar
    <3>2. estado' = SemiAberto
      BY <2>2, <2>3 DEF checar
    <3>3. estado.ha > Menor(reset_ms, timeout_sondagem_ms)
      <4>1. Pode(estado) /\ estado.tipo # "Fechado"
        BY <2>2, <2>3, Zenon
      <4>2. estado.ha > reset_ms \/ estado.ha > timeout_sondagem_ms
        BY <4>1 DEF Pode
      <4> QED
        BY <1>0, <4>2 DEF Estado
    <3> QED
      BY <1>0, <2>3, <3>1, <3>2, <3>3 DEF SondaAntiga, SemiAberto, Estado
  <2>4. CASE ~(estado.tipo # "Fechado" /\ pode)
    <3>1. sondagem' = sondagem
      BY <2>1, <2>4 DEF TratarVerificar
    <3>2. estado' = estado
      BY <2>2, <2>4 DEF checar
    <3> QED
      BY <3>1, <3>2 DEF SondaAntiga
  <2> QED
    BY <2>3, <2>4
<1>2. CASE TratarResultado
  BY <1>0, <1>2 DEF TratarResultado, TratarSucesso, TratarFalha, ao_falhar, Fechado, Aberto,
                    SondaAntiga, Estado
<1>3. CASE Tempo
  BY <1>0, <1>3 DEF Tempo, Envelhecer, SondaAntiga, Estado
<1>4. ASSUME UNCHANGED <<estado, sondagem>>  PROVE SondaAntiga'
  BY <1>4 DEF SondaAntiga
<1> QED
  BY <1>1, <1>2, <1>3, <1>4
     DEF Next, Ator, Prosseguir, Pedir, Desistir, Acertar, Errar, Acordar, Matar, Provedor, vars

(* Two probes are never closer than the shorter delay, for all delays and  *)
(* callers, late answers and kills included.                               *)
THEOREM SondasCorrect == Spec => []SondasEspacadas
<1>1. Init => SondaAntiga
  BY DisjuntorAssumption DEF Init, InitDisjuntor, SondaAntiga, SondasEspacadas, Fechado
<1>2. TypeOK /\ SondaAntiga /\ [Next]_vars => SondaAntiga'
  BY SondaPasso
<1>3. SondaAntiga => SondasEspacadas
  BY DEF SondaAntiga
<1> QED
  BY <1>1, <1>2, <1>3, TypeCorrect, PTL DEF Spec

---------------------------------------------------------------------------
(* No lost wake-up: a caller that waits for the breaker has its question   *)
(* in the actor's mailbox.  An answer to a question of a call that gave up *)
(* or was killed leaves the caller waiting only if its newer question is   *)
(* still behind it.  With the actor's fairness this is what lets a caller  *)
(* that never runs out of patience go on all the same.                     *)
EsperaNaCaixa ==
  \A c \in Chamadores :
    cham[c].pc = "espera" => \E i \in 1..Len(caixa) : caixa[i] = Verificar(c)

(* The actor takes one message off; all the others stay, one place nearer. *)
LEMMA CaixaAnda ==
  ASSUME caixa \in Seq(Mensagem), caixa # << >>, caixa' = Tail(caixa),
         NEW i \in 2..Len(caixa)
  PROVE  i - 1 \in 1..Len(caixa') /\ caixa'[i - 1] = caixa[i]
  OBVIOUS

(* A message put into the mailbox moves no other, and is there. *)
LEMMA CaixaCresce ==
  ASSUME caixa \in Seq(Mensagem), NEW m \in Mensagem, Mandar(m)
  PROVE  /\ \A i \in 1..Len(caixa) : i \in 1..Len(caixa') /\ caixa'[i] = caixa[i]
         /\ \E i \in 1..Len(caixa') : caixa'[i] = m
<1>1. /\ Len(caixa') = Len(caixa) + 1 /\ caixa'[Len(caixa) + 1] = m
      /\ \A i \in 1..Len(caixa) : i \in 1..Len(caixa') /\ caixa'[i] = caixa[i]
  BY DEF Mandar
<1>2. Len(caixa) + 1 \in 1..Len(caixa')
  BY <1>1
<1> QED
  BY <1>1, <1>2

(* A question that was in the mailbox and not at its head is still there. *)
LEMMA PerguntaFica ==
  ASSUME caixa \in Seq(Mensagem), caixa # << >>, caixa' = Tail(caixa), NEW c,
         Head(caixa) # Verificar(c),
         \E i \in 1..Len(caixa) : caixa[i] = Verificar(c)
  PROVE  \E i \in 1..Len(caixa') : caixa'[i] = Verificar(c)
<1>1. PICK i \in 1..Len(caixa) : caixa[i] = Verificar(c)
  OBVIOUS
<1>2. i \in 2..Len(caixa)
  <2>1. Head(caixa) = caixa[1]
    OBVIOUS
  <2> QED
    BY <1>1, <2>1
<1> QED
  BY <1>1, <1>2, CaixaAnda

(* Every step keeps the questions of those who wait. *)
LEMMA EsperaPasso == TypeOK /\ EsperaNaCaixa /\ [Next]_vars => EsperaNaCaixa'
<1> SUFFICES ASSUME TypeOK, EsperaNaCaixa, [Next]_vars,
                    NEW d \in Chamadores, cham'[d].pc = "espera"
             PROVE  \E i \in 1..Len(caixa') : caixa'[i] = Verificar(d)
  BY DEF EsperaNaCaixa, Verificar
<1>0. caixa \in Seq(Mensagem) /\ cham \in [Chamadores -> Chamador]
  BY DEF TypeOK, TypeOKDisjuntor
<1>1. ASSUME NEW c \in Chamadores, Responder(c)
      PROVE  \E i \in 1..Len(caixa') : caixa'[i] = Verificar(d)
  <2>1. /\ caixa # << >> /\ Head(caixa) = Verificar(c) /\ caixa' = Tail(caixa)
        /\ \/ ~Aguarda(c) /\ cham' = cham
           \/ cham' = [cham EXCEPT ![c].pc = "executa"]
           \/ cham' = [cham EXCEPT ![c] = Livre]
    BY <1>1, Zenon DEF Responder, TratarVerificar
  <2>2. CASE d = c
    <3>1. ~Aguarda(c) /\ cham' = cham
      BY <1>0, <2>1, <2>2 DEF Livre, Chamador
    <3>2. PICK i \in 2..Len(caixa) : caixa[i] = Verificar(c)
      BY <2>2, <3>1 DEF Aguarda
    <3> QED
      BY <1>0, <2>1, <2>2, <3>2, CaixaAnda
  <2>3. CASE d # c
    <3>1. cham[d].pc = "espera" /\ Head(caixa) # Verificar(d)
      BY <1>0, <2>1, <2>3 DEF Verificar
    <3> QED
      BY <1>0, <2>1, <3>1, PerguntaFica DEF EsperaNaCaixa
  <2> QED
    BY <2>2, <2>3
<1>2. CASE TratarResultado
  <2>1. /\ caixa # << >> /\ Head(caixa).tipo # "Verificar" /\ caixa' = Tail(caixa)
        /\ cham' = cham
    BY <1>2 DEF TratarResultado, TratarSucesso, TratarFalha
  <2>2. Head(caixa) # Verificar(d)
    BY <2>1 DEF Verificar
  <2> QED
    BY <1>0, <2>1, <2>2, PerguntaFica DEF EsperaNaCaixa
<1>3. ASSUME NEW c \in Chamadores, Pedir(c) \/ Acordar(c)
      PROVE  \E i \in 1..Len(caixa') : caixa'[i] = Verificar(d)
  <2>1. Mandar(Verificar(c)) /\ (d # c => cham'[d] = cham[d])
    BY <1>0, <1>3 DEF Pedir, Acordar
  <2>2. Verificar(c) \in Mensagem
    BY DEF Verificar, Mensagem
  <2>3. CASE d = c
    BY <1>0, <2>1, <2>2, <2>3, CaixaCresce
  <2>4. CASE d # c
    <3>1. PICK i \in 1..Len(caixa) : caixa[i] = Verificar(d)
      BY <2>1, <2>4 DEF EsperaNaCaixa
    <3> QED
      BY <1>0, <2>1, <2>2, <3>1, CaixaCresce
  <2> QED
    BY <2>3, <2>4
<1>4. ASSUME NEW c \in Chamadores, Acertar(c) \/ Errar(c)
      PROVE  \E i \in 1..Len(caixa') : caixa'[i] = Verificar(d)
  <2>1. PICK m \in {Sucesso(c), Falha(c)} : Mandar(m)
    BY <1>4 DEF Acertar, Errar
  <2>2. m \in Mensagem
    BY <2>1 DEF Sucesso, Falha, Mensagem
  <2>3. cham[d].pc = "espera"
    BY <1>0, <1>4 DEF Acertar, Errar, Livre, Chamador
  <2>4. PICK i \in 1..Len(caixa) : caixa[i] = Verificar(d)
    BY <2>3 DEF EsperaNaCaixa
  <2> QED
    BY <1>0, <2>1, <2>2, <2>4, CaixaCresce
<1>5. ASSUME NEW c \in Chamadores, Desistir(c) \/ Matar(c)
      PROVE  \E i \in 1..Len(caixa') : caixa'[i] = Verificar(d)
  <2>1. cham[d].pc = "espera" /\ caixa' = caixa
    BY <1>0, <1>5 DEF Desistir, Matar, Livre, Chamador
  <2> QED
    BY <2>1 DEF EsperaNaCaixa
<1>6. CASE UNCHANGED <<caixa, cham>>
  BY <1>6 DEF EsperaNaCaixa
<1> QED
  BY <1>1, <1>2, <1>3, <1>4, <1>5, <1>6
     DEF Next, Ator, Prosseguir, Tempo, Envelhecer, Provedor, vars

(* No caller ever waits for an answer to a question the actor no longer    *)
(* has, whoever gave up, was killed or asked again before.                 *)
THEOREM EsperaCorrect == Spec => []EsperaNaCaixa
<1>1. Init => EsperaNaCaixa
  BY DEF Init, EsperaNaCaixa, Livre
<1>2. TypeOK /\ EsperaNaCaixa /\ [Next]_vars => EsperaNaCaixa'
  BY EsperaPasso
<1> QED
  BY <1>1, <1>2, TypeCorrect, PTL DEF Spec
============================================================================
