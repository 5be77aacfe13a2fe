----------------------------- MODULE Disjuntor -----------------------------
(***************************************************************************)
(* The circuit breaker actor (src/src/shell/disjuntor.gleam): its state,   *)
(* its mailbox and the messages it handles, one at a time, in the order    *)
(* they arrived.  Times are kept as ages: estado.ha is agora_ms minus the  *)
(* time in the state (ultima_falha_ms or desde_ms), in ticks, and stops    *)
(* growing at Teto, where every comparison of the code has been decided.   *)
(***************************************************************************)
EXTENDS Naturals, Sequences

CONSTANTS
  Chamadores,          \* processes that call the AI through ia_resiliente
  limite_falhas,       \* failures that open the breaker (5 in the code)
  reset_ms,            \* ticks it stays open (60 s in the code)
  timeout_sondagem_ms  \* ticks until a probe is given up (15 s in the code)

ASSUME DisjuntorAssumption ==
  /\ limite_falhas \in Nat \ {0}
  /\ reset_ms \in Nat \ {0}
  /\ timeout_sondagem_ms \in Nat \ {0}

VARIABLES
  estado,    \* Fechado(falhas), Aberto(ultima_falha_ms), SemiAberto(True, desde_ms)
  caixa,     \* the mailbox, oldest message first
  seguidas,  \* failures handled since the last success, at most limite_falhas;
             \* read by properties only
  sondagem   \* age of the last probe let through and the shortest time between
             \* two of them; read by properties only

Menor(a, b) == IF a <= b THEN a ELSE b
Maior(a, b) == IF a <= b THEN b ELSE a

Teto == Maior(reset_ms, timeout_sondagem_ms) + 1
Idade == 0..Teto

Estado == [tipo : {"Fechado", "Aberto", "SemiAberto"}, falhas : 0..limite_falhas,
           ha : Idade]

Fechado(n) == [tipo |-> "Fechado", falhas |-> n, ha |-> 0]
Aberto     == [tipo |-> "Aberto", falhas |-> 0, ha |-> 0]
SemiAberto == [tipo |-> "SemiAberto", falhas |-> 0, ha |-> 0]

Verificar(c) == [tipo |-> "Verificar", de |-> c]
Sucesso(c)   == [tipo |-> "Sucesso", de |-> c]
Falha(c)     == [tipo |-> "Falha", de |-> c]

Mensagem == [tipo : {"Verificar", "Sucesso", "Falha"}, de : Chamadores]

TypeOKDisjuntor ==
  /\ estado \in Estado
  /\ caixa \in Seq(Mensagem)
  /\ seguidas \in 0..limite_falhas
  /\ sondagem \in [ha : Idade, menor : Idade]

InitDisjuntor ==
  /\ estado = Fechado(0)
  /\ caixa = << >>
  /\ seguidas = 0
  /\ sondagem = [ha |-> Teto, menor |-> Teto]

---------------------------------------------------------------------------
(* Slips: a probe that never expires; one that is always replaced. *)
PodeSemPrazo(s) ==
  s.tipo = "Fechado" \/ (s.tipo = "Aberto" /\ s.ha > reset_ms)

PodeSemContencao(s) ==
  s.tipo = "Fechado" \/ (s.tipo = "Aberto" /\ s.ha > reset_ms) \/ s.tipo = "SemiAberto"

(* Whether a call may go ahead, and the state after saying so. *)
Pode(s) ==
  \/ s.tipo = "Fechado"
  \/ s.tipo = "Aberto" /\ s.ha > reset_ms
  \/ s.tipo = "SemiAberto" /\ s.ha > timeout_sondagem_ms

checar(s) ==
  [pode |-> Pode(s),
   novo |-> IF s.tipo # "Fechado" /\ Pode(s) THEN SemiAberto ELSE s]

(* A slip: the breaker opens one failure too early. *)
ao_falhar_cedo(s) ==
  IF s.tipo = "Fechado" /\ s.falhas + 2 < limite_falhas THEN Fechado(s.falhas + 1)
                                                        ELSE Aberto

ao_falhar(s) ==
  IF s.tipo = "Fechado" /\ s.falhas + 1 < limite_falhas THEN Fechado(s.falhas + 1)
                                                        ELSE Aberto

(* A caller puts a message into the mailbox. *)
Mandar(m) == caixa' = Append(caixa, m)

(* tratar, Verificar: the answer goes to the caller, if it still waits. *)
TratarVerificar(c, pode) ==
  /\ caixa # << >> /\ Head(caixa) = Verificar(c)
  /\ caixa' = Tail(caixa)
  /\ pode = checar(estado).pode
  /\ estado' = checar(estado).novo
  /\ sondagem' = IF estado.tipo # "Fechado" /\ pode
                 THEN [ha |-> 0, menor |-> Menor(sondagem.menor, sondagem.ha)]
                 ELSE sondagem
  /\ UNCHANGED seguidas

(* tratar, Sucesso: whatever the state, the breaker closes. *)
TratarSucesso ==
  /\ caixa # << >> /\ Head(caixa).tipo = "Sucesso"
  /\ caixa' = Tail(caixa)
  /\ estado' = Fechado(0)
  /\ seguidas' = 0
  /\ UNCHANGED sondagem

TratarFalha ==
  /\ caixa # << >> /\ Head(caixa).tipo = "Falha"
  /\ caixa' = Tail(caixa)
  /\ estado' = ao_falhar(estado)
  /\ seguidas' = Menor(seguidas + 1, limite_falhas)
  /\ UNCHANGED sondagem

(* One tick of the clock; a closed breaker keeps no time. *)
Envelhecer ==
  /\ estado' = IF estado.tipo = "Fechado" THEN estado
                                          ELSE [estado EXCEPT !.ha = Menor(@ + 1, Teto)]
  /\ sondagem' = [sondagem EXCEPT !.ha = Menor(@ + 1, Teto)]
  /\ UNCHANGED <<caixa, seguidas>>
============================================================================
