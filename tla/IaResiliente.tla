--------------------------- MODULE IaResiliente ---------------------------
(***************************************************************************)
(* Calls to an AI provider: ia_resiliente.com_novas_tentativas             *)
(* (src/src/shell/ia_resiliente.gleam) run by several processes over one   *)
(* circuit breaker.  A caller asks the breaker, waits at most one second   *)
(* for its answer (no answer counts as yes), calls the provider, reports   *)
(* the outcome and, after a transient failure, sleeps and starts over.     *)
(***************************************************************************)
EXTENDS Disjuntor

CONSTANTS
  max_tentativas,  \* 3 in the code
  MaxFaltas        \* bound: answers of the breaker that come too late, callers killed

ASSUME IaResilienteAssumption ==
  max_tentativas \in Nat \ {0} /\ MaxFaltas \in Nat

VARIABLES
  cham,      \* each caller: where it stands and which attempt it makes
  provedor,  \* "ok" (every call succeeds) or "instavel" (each may succeed or fail)
  faltas     \* what has been spent of MaxFaltas

vars == <<estado, caixa, seguidas, sondagem, cham, provedor, faltas>>

Passos == {"livre", "espera", "executa", "dorme"}

Chamador == [pc : Passos, tentativa : 1..max_tentativas]

Livre == [pc |-> "livre", tentativa |-> 1]

Init ==
  /\ InitDisjuntor
  /\ cham = [c \in Chamadores |-> Livre]
  /\ provedor = "ok"
  /\ faltas = 0

---------------------------------------------------------------------------
(* com_novas_tentativas begins: pode_executar sends Verificar and waits. *)
Pedir(c) ==
  /\ cham[c].pc = "livre"
  /\ cham' = [cham EXCEPT ![c].pc = "espera"]
  /\ Mandar(Verificar(c))
  /\ UNCHANGED <<estado, seguidas, sondagem, provedor, faltas>>

(* The caller waits for this very message: no later one of its own is in the box. *)
Aguarda(c) ==
  /\ cham[c].pc = "espera"
  /\ \A i \in 2..Len(caixa) : caixa[i] # Verificar(c)

(* The actor answers.  Reply subjects are fresh: an answer to a call that  *)
(* gave up or died is never read.                                          *)
Responder(c) ==
  /\ \E pode \in BOOLEAN :
       /\ TratarVerificar(c, pode)
       /\ cham' = IF ~Aguarda(c) THEN cham
                  ELSE IF pode THEN [cham EXCEPT ![c].pc = "executa"]
                  ELSE [cham EXCEPT ![c] = Livre]
  /\ UNCHANGED <<provedor, faltas>>

(* pode_executar, no answer within a second: the call goes ahead. *)
Desistir(c) ==
  /\ cham[c].pc = "espera"
  /\ faltas < MaxFaltas
  /\ faltas' = faltas + 1
  /\ cham' = [cham EXCEPT ![c].pc = "executa"]
  /\ UNCHANGED <<estado, caixa, seguidas, sondagem, provedor>>

(* The call succeeds: registrar_sucesso and the result. *)
Acertar(c) ==
  /\ cham[c].pc = "executa"
  /\ Mandar(Sucesso(c))
  /\ cham' = [cham EXCEPT ![c] = Livre]
  /\ UNCHANGED <<estado, seguidas, sondagem, provedor, faltas>>

(* A slip: a transient failure is always tried again. *)
ErrarSempre(c) ==
  /\ cham[c].pc = "executa" /\ provedor = "instavel"
  /\ Mandar(Falha(c))
  /\ cham' = [cham EXCEPT ![c].pc = "dorme"]
  /\ UNCHANGED <<estado, seguidas, sondagem, provedor, faltas>>

(* The call fails: registrar_falha, then another attempt if the error is   *)
(* transient (e_transiente) and there are attempts left.                   *)
Errar(c) ==
  /\ cham[c].pc = "executa" /\ provedor = "instavel"
  /\ Mandar(Falha(c))
  /\ \/ cham' = [cham EXCEPT ![c] = Livre]
     \/ /\ cham[c].tentativa < max_tentativas
        /\ cham' = [cham EXCEPT ![c].pc = "dorme"]
  /\ UNCHANGED <<estado, seguidas, sondagem, provedor, faltas>>

(* The backoff is over: the next attempt asks the breaker again. *)
Acordar(c) ==
  /\ cham[c].pc = "dorme"
  /\ cham' = [cham EXCEPT ![c].pc = "espera",
                          ![c].tentativa = Menor(@ + 1, max_tentativas)]
  /\ Mandar(Verificar(c))
  /\ UNCHANGED <<estado, seguidas, sondagem, provedor, faltas>>

(* fila_atrasadas kills a handler after 300 s, wherever it stands. *)
Matar(c) ==
  /\ cham[c].pc # "livre"
  /\ faltas < MaxFaltas
  /\ faltas' = faltas + 1
  /\ cham' = [cham EXCEPT ![c] = Livre]
  /\ UNCHANGED <<estado, caixa, seguidas, sondagem, provedor>>

TratarResultado ==
  /\ TratarSucesso \/ TratarFalha
  /\ UNCHANGED <<cham, provedor, faltas>>

Tempo == Envelhecer /\ UNCHANGED <<cham, provedor, faltas>>

Provedor ==
  /\ provedor' \in {"ok", "instavel"} \ {provedor}
  /\ UNCHANGED <<estado, caixa, seguidas, sondagem, cham, faltas>>

Ator == TratarResultado \/ \E c \in Chamadores : Responder(c)

(* A call that has begun goes on until it returns. *)
Prosseguir(c) == Acertar(c) \/ Errar(c) \/ Acordar(c)

Next ==
  \/ Ator
  \/ \E c \in Chamadores : Pedir(c) \/ Desistir(c) \/ Prosseguir(c) \/ Matar(c)
  \/ Tempo
  \/ Provedor

Spec == Init /\ [][Next]_vars

(* The actor handles its mail, running calls end, time passes. *)
Fairness ==
  /\ WF_vars(Ator)
  /\ \A c \in Chamadores : WF_vars(Prosseguir(c))
  /\ WF_vars(Tempo)

FairSpec == Spec /\ Fairness

---------------------------------------------------------------------------
(* The type of every variable; the count of failures stays below the limit. *)
TypeOK ==
  /\ TypeOKDisjuntor
  /\ cham \in [Chamadores -> Chamador]
  /\ provedor \in {"ok", "instavel"}
  /\ faltas \in 0..MaxFaltas

(* The breaker refuses calls only after limite_falhas failures in a row,   *)
(* counted in the order the outcomes of all callers reached the actor; no  *)
(* success came in between.  Closed, it has counted them all.              *)
AberturaTemCausa ==
  IF estado.tipo = "Fechado" THEN estado.falhas = seguidas
                             ELSE seguidas = limite_falhas

(* A provider that is down is not flooded with probes: whatever outcomes   *)
(* of old calls, late answers and killed callers come in between, two      *)
(* calls let through by a breaker that was not closed are more than the    *)
(* shorter of the two delays apart.                                        *)
SondasEspacadas == sondagem.menor > Menor(reset_ms, timeout_sondagem_ms)

(* Every call returns, whatever the provider and the breaker do. *)
TodaChamadaTermina ==
  \A c \in Chamadores : cham[c].pc = "espera" ~> cham[c].pc = "livre"

(* Once the provider is well for good and calls keep coming, the breaker   *)
(* closes and stays closed: no lost probe leaves it half open forever.     *)
Recuperacao ==
  <>[](provedor = "ok") /\ []<>(\E c \in Chamadores : cham[c].pc = "espera")
    => <>[](estado.tipo = "Fechado")
============================================================================
