------------------------------ MODULE AntiSpam ------------------------------
(***************************************************************************)
(* Rate limiting of one chat (src/src/core/anti_spam.gleam) as the actor   *)
(* of src/src/shell/anti_spam.gleam runs it.  Each handler process reads   *)
(* the clock itself and then sends its question, so the actor may handle   *)
(* stamps out of order.  Chats share nothing but the limit of registers in *)
(* memory: when other chats fill it, a question starts by pruning.  The    *)
(* administrator's messages never reach this state.                        *)
(*                                                                         *)
(* Time is counted in ticks; tokens and weights in the tokens one tick     *)
(* refills, so that the bucket holds integers.                             *)
(***************************************************************************)
EXTENDS Naturals, Sequences, FiniteSets

CONSTANTS
  max_tokens,              \* 4 tokens of 12 s in the code
  Pesos,                   \* weights of a message
  janela_flood,            \* 3 s
  limite_msgs_flood,       \* 5
  cooldown_strike1,        \* 30 s
  cooldown_strike2,        \* 5 min
  quarentena_strike3,      \* 30 min
  perdao_strikes,          \* 10 min
  ttl_inatividade,         \* 1 h
  limite_diario,           \* 300
  Dia,                     \* ticks in a day
  MaxAgora,                \* bound: the clock stops here
  MaxPerguntas,            \* bound: questions stamped and not handled yet
  MaxLiberacoes            \* bound: restarts of the actor and uses of desbloquear

ASSUME AntiSpamAssumption ==
  /\ max_tokens \in Nat /\ Pesos \subseteq Nat \ {0}
  /\ limite_msgs_flood \in Nat \ {0} /\ janela_flood \in Nat
  /\ cooldown_strike1 \in Nat /\ cooldown_strike2 \in Nat
  /\ quarentena_strike3 \in Nat /\ perdao_strikes \in Nat /\ ttl_inatividade \in Nat
  /\ limite_diario \in Nat /\ Dia \in Nat \ {0}
  /\ MaxAgora \in Nat /\ MaxPerguntas \in Nat /\ MaxLiberacoes \in Nat

VARIABLES
  agora,      \* the clock
  perguntas,  \* questions on their way: stamp and weight; weight 0: a late message
  registro,   \* the chat's RegistroChat, or SemRegistro
  feito       \* what has happened so far; read by properties only

vars == <<agora, perguntas, registro, feito>>

Stamps == 0..MaxAgora
Dias == 0..(MaxAgora \div Dia)
dia(t) == t \div Dia

Pergunta == [em : Stamps, peso : Pesos \cup {0}]

SemRegistro == [ausente |-> TRUE]

(* A register that keeps the stamps recentes. *)
RegistroChat(recentes) ==
  [tokens : 0..max_tokens, ultimo_ts : Stamps, strikes : Nat, quarentena_ate : Nat,
   recentes_ts : {recentes}, dia : Dias, mensagens_no_dia : 0..(limite_diario + 1)]

(* alerta: the stamp of the last alert to the administrator, or MaxAgora + 1; *)
(* vista: the latest stamp handled; aceitas: messages accepted, per day;      *)
(* voltas: messages handled after one of a later day; liberacoes: how often   *)
(* the register was dropped by desbloquear or a restart; quebras: a message   *)
(* was accepted, or a second alert sent, while an alert's 30 minutes ran.     *)
Feito == [alerta : 0..(MaxAgora + 1), vista : Stamps, aceitas : [Dias -> Nat],
          voltas : Nat, liberacoes : 0..MaxLiberacoes, quebras : BOOLEAN]

Novo(t) == [tokens |-> max_tokens, ultimo_ts |-> t, strikes |-> 0, quarentena_ate |-> 0,
            recentes_ts |-> << >>, dia |-> dia(t), mensagens_no_dia |-> 0]

Init ==
  /\ agora = 0
  /\ perguntas = {}
  /\ registro = SemRegistro
  /\ feito = [alerta |-> MaxAgora + 1, vista |-> 0, aceitas |-> [d \in Dias |-> 0],
              voltas |-> 0, liberacoes |-> 0, quebras |-> FALSE]

---------------------------------------------------------------------------
Menor(a, b) == IF a <= b THEN a ELSE b
Desde(t, antes) == IF antes <= t THEN t - antes ELSE 0

Resposta(r, decisao) == [registro |-> r, decisao |-> decisao]

Contagem(r, t) == IF r.dia = dia(t) THEN r.mensagens_no_dia ELSE 0

(* What the daily limit says after c messages. *)
Teto(c) == IF c < limite_diario THEN "Permitido"
           ELSE IF c = limite_diario THEN "AvisoLimite" ELSE "Silenciado"

ComContagem(r, t) ==
  [r EXCEPT !.dia = dia(t),
            !.mensagens_no_dia = Menor(Contagem(r, t) + 1, limite_diario + 1)]

(* A new message while the chat is paused: strike 1 becomes 2, 2 becomes 3. *)
avaliar_em_quarentena(r, t) ==
  CASE r.strikes >= 3 -> Resposta([r EXCEPT !.ultimo_ts = t], "Silenciado")
    [] r.strikes = 2  -> Resposta([r EXCEPT !.strikes = 3, !.ultimo_ts = t,
                                            !.quarentena_ate = t + quarentena_strike3],
                                  "Alerta")
    [] OTHER          -> Resposta([r EXCEPT !.strikes = 2, !.ultimo_ts = t,
                                            !.quarentena_ate = t + cooldown_strike2],
                                  "AvisoLimite")

(* A message while the chat is not paused: flood, then token bucket, then  *)
(* daily limit.                                                            *)
avaliar_livre(r, peso, t) ==
  LET strikes == IF Desde(t, r.ultimo_ts) > perdao_strikes THEN 0 ELSE r.strikes
      recentes == <<t>> \o SelectSeq(r.recentes_ts, LAMBDA s : Desde(t, s) <= janela_flood)
      tokens == Menor(max_tokens, r.tokens + Desde(t, r.ultimo_ts))
      decisao == Teto(Contagem(r, t))
  IN  CASE Len(recentes) >= limite_msgs_flood ->
             Resposta([r EXCEPT !.tokens = 0, !.ultimo_ts = t, !.strikes = 3,
                                !.quarentena_ate = t + quarentena_strike3,
                                !.recentes_ts = recentes], "Alerta")
        [] Len(recentes) < limite_msgs_flood /\ tokens >= peso ->
             Resposta([ComContagem(r, t) EXCEPT
                         !.tokens = IF decisao = "Permitido" THEN tokens - peso ELSE tokens,
                         !.ultimo_ts = t, !.strikes = strikes, !.quarentena_ate = 0,
                         !.recentes_ts = recentes], decisao)
        [] OTHER ->
             Resposta([r EXCEPT !.tokens = 0, !.ultimo_ts = t, !.strikes = strikes + 1,
                                !.quarentena_ate = t + cooldown_strike1,
                                !.recentes_ts = recentes], "AvisoLimite")

avaliar(r, peso, t) ==
  IF t < r.quarentena_ate THEN avaliar_em_quarentena(r, t) ELSE avaliar_livre(r, peso, t)

(* A slip: late messages of a silenced chat go through. *)
avaliar_atrasada_sempre(r, t) == Resposta(ComContagem(r, t), Teto(Contagem(r, t)))

(* A late message: only a quarantine of strike 3 and the daily limit count. *)
avaliar_atrasada(r, t) ==
  IF t < r.quarentena_ate /\ r.strikes >= 3
  THEN Resposta(r, "Silenciado")
  ELSE Resposta(ComContagem(r, t), Teto(Contagem(r, t)))

(* A slip: a chat with a count of today is pruned like any other. *)
FicaSemContagem(r, t) ==
  t < r.quarentena_ate \/ Desde(t, r.ultimo_ts) < ttl_inatividade

(* limpar_inativos, which runs first when memory is full: whether r stays. *)
Fica(r, t) ==
  \/ t < r.quarentena_ate
  \/ Desde(t, r.ultimo_ts) < ttl_inatividade
  \/ r.dia = dia(t) /\ r.mensagens_no_dia > 0

---------------------------------------------------------------------------
(* A handler process reads the clock and asks.  Equal questions are asked  *)
(* one after the other: they commute.                                      *)
Perguntar ==
  /\ Cardinality(perguntas) < MaxPerguntas
  /\ \E q \in Pergunta \ perguntas :
       /\ q.em = agora
       /\ perguntas' = perguntas \cup {q}
  /\ UNCHANGED <<agora, registro, feito>>

(* The bookkeeping of the properties for one decision at stamp t. *)
Anotar(t, decisao) ==
  LET vista == IF feito.vista <= t THEN t ELSE feito.vista
      castigo == /\ feito.alerta <= MaxAgora
                 /\ feito.vista < feito.alerta + quarentena_strike3
                 /\ t < feito.alerta + quarentena_strike3
      aceitas == IF decisao = "Permitido"
                 THEN [feito.aceitas EXCEPT ![dia(t)] = @ + 1] ELSE feito.aceitas
      voltou == registro # SemRegistro /\ dia(t) < registro.dia
      quebrou == castigo /\ decisao \in {"Permitido", "Alerta"}
  IN [feito EXCEPT
        !.vista = vista,
        !.alerta = IF decisao = "Alerta" THEN t ELSE feito.alerta,
        !.aceitas = aceitas,
        !.voltas = IF voltou THEN feito.voltas + 1 ELSE feito.voltas,
        !.quebras = IF quebrou THEN TRUE ELSE feito.quebras]

(* The actor handles a question, in any order of the stamps. *)
Verificar ==
  \E q \in perguntas, cheio \in BOOLEAN :
    LET guardado == IF registro # SemRegistro /\ q.peso > 0 /\ cheio /\ ~Fica(registro, q.em)
                    THEN SemRegistro ELSE registro
        r == IF guardado = SemRegistro THEN Novo(q.em) ELSE guardado
        resposta == IF q.peso > 0 THEN avaliar(r, q.peso, q.em) ELSE avaliar_atrasada(r, q.em)
    IN /\ registro' = resposta.registro
       /\ feito' = Anotar(q.em, resposta.decisao)
       /\ perguntas' = perguntas \ {q}
       /\ UNCHANGED agora

(* The administrator unblocks the chat, or the actor is restarted. *)
Liberar ==
  /\ registro # SemRegistro
  /\ feito.liberacoes < MaxLiberacoes
  /\ registro' = SemRegistro
  /\ feito' = [feito EXCEPT !.alerta = MaxAgora + 1, !.liberacoes = @ + 1]
  /\ UNCHANGED <<agora, perguntas>>

Relogio ==
  /\ agora < MaxAgora
  /\ agora' = agora + 1
  /\ UNCHANGED <<perguntas, registro, feito>>

Next == Perguntar \/ Verificar \/ Liberar \/ Relogio

Spec == Init /\ [][Next]_vars

---------------------------------------------------------------------------
(* The type of every variable; the counters of a register stay in range. *)
TypeOK ==
  /\ agora \in Stamps
  /\ perguntas \subseteq Pergunta
  /\ registro = SemRegistro \/ registro \in RegistroChat(registro.recentes_ts)
  /\ feito \in Feito

(* For the 30 minutes that follow an alert to the administrator nothing of *)
(* the chat is acted on and no second alert goes out, whatever the actor   *)
(* handles meanwhile: late messages, stamps out of order, a full memory.   *)
(* Only desbloquear, a restart or a stamp beyond the 30 minutes ends it.   *)
AlertaSilencia == ~feito.quebras

(* A day's accepted messages stay within the limit, except that the count *)
(* starts again after desbloquear, after a restart, and whenever a message *)
(* stamped before midnight is handled after one stamped later.  Pruning a  *)
(* full memory never starts it again.                                      *)
TetoDiario ==
  \A d \in Dias :
    feito.aceitas[d] <= limite_diario * (1 + feito.liberacoes + feito.voltas)
============================================================================
