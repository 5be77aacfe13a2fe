-------------------------- MODULE AntiSpam_proofs ---------------------------
(***************************************************************************)
(* The two promises of the rate limit for any limits, penalties, clock and *)
(* number of questions on their way: an alert silences the chat, and a day *)
(* has its limit.  Both are about what stays of a register when the memory *)
(* is full and when stamps are handled out of order.                       *)
(***************************************************************************)
EXTENDS AntiSpam, TLAPS

Presente == registro # SemRegistro

(* How often the count of a day may have started again. *)
Recomecos == feito.liberacoes + feito.voltas
Cotas(k) == limite_diario * k

(* While the 30 minutes of an alert run, the register says so.  vista      *)
(* bounds the stamps: a stamp beyond them may already have ended the pause.*)
Castigo ==
  feito.alerta <= MaxAgora /\ feito.vista < feito.alerta + quarentena_strike3 =>
    /\ Presente
    /\ registro.strikes >= 3
    /\ registro.quarentena_ate = feito.alerta + quarentena_strike3

(* The register counts what was accepted on its day since the count last   *)
(* started again; later days have nothing beyond the earlier starts.       *)
Contagens ==
  \A d \in Dias :
    /\ feito.aceitas[d] <= Cotas(1 + Recomecos)
    /\ ~Presente \/ d > registro.dia => feito.aceitas[d] <= Cotas(Recomecos)
    /\ Presente /\ d = registro.dia =>
         feito.aceitas[d] <= registro.mensagens_no_dia + Cotas(Recomecos)

IInv == TypeOK /\ Castigo /\ Contagens /\ AlertaSilencia

---------------------------------------------------------------------------
(* Quotas add up. *)
LEMMA CotasCrescem ==
  ASSUME NEW k \in Nat
  PROVE  /\ Cotas(k) \in Nat /\ Cotas(1 + k) = Cotas(k) + limite_diario
         /\ Cotas(0) = 0
<1>1. limite_diario \in Nat
  BY AntiSpamAssumption
<1>2. \A a, b \in Nat : /\ a * b \in Nat /\ a * (1 + b) = a * b + a /\ a * 0 = 0
  BY Z3
<1> QED
  BY <1>1, <1>2 DEF Cotas

(* Days of stamps are days. *)
LEMMA DiaDeStamp == \A t \in Stamps : dia(t) \in Dias /\ dia(t) \in Nat
<1>1. MaxAgora \in Nat /\ Dia \in Nat \ {0}
  BY AntiSpamAssumption
<1>2. \A a, b \in Nat, d \in Nat \ {0} : a <= b => a \div d \in Nat /\ a \div d <= b \div d
  BY Z3
<1>3. \A b \in Nat, d \in Nat \ {0} : b \div d \in Nat
  BY Z3
<1> QED
  BY <1>1, <1>2, <1>3 DEF dia, Dias, Stamps

(* A register is not the absence of one. *)
LEMMA RegistroPresente ==
  ASSUME NEW recentes, NEW r \in RegistroChat(recentes) PROVE r # SemRegistro
<1>1. "tokens" \in DOMAIN r
  BY DEF RegistroChat
<1>2. DOMAIN SemRegistro = {"ausente"}
  BY DEF SemRegistro
<1> QED
  BY <1>1, <1>2

(* A message is counted on its day and answered by the daily limit. *)
Conta(r, resposta, t) ==
  /\ resposta.registro.dia = dia(t)
  /\ resposta.registro.mensagens_no_dia = Menor(Contagem(r, t) + 1, limite_diario + 1)
  /\ resposta.decisao = Teto(Contagem(r, t))

(* Or it is turned away, and the count stays. *)
NaoConta(r, resposta) ==
  /\ resposta.registro.dia = r.dia
  /\ resposta.registro.mensagens_no_dia = r.mensagens_no_dia
  /\ resposta.decisao \in {"Alerta", "AvisoLimite", "Silenciado"}

(* What the properties need to know of an evaluation. *)
Avaliada(r, resposta, t) ==
  /\ resposta.registro \in RegistroChat(resposta.registro.recentes_ts)
  /\ Conta(r, resposta, t) \/ NaoConta(r, resposta)
  /\ resposta.decisao = "Alerta" =>
       /\ resposta.registro.strikes = 3
       /\ resposta.registro.quarentena_ate = t + quarentena_strike3
  /\ t < r.quarentena_ate /\ r.strikes >= 3 =>
       /\ resposta.decisao = "Silenciado"
       /\ resposta.registro.strikes = r.strikes
       /\ resposta.registro.quarentena_ate = r.quarentena_ate

(* avaliar_em_quarentena *)
LEMMA EmQuarentena ==
  ASSUME NEW recentes, NEW r \in RegistroChat(recentes), NEW t \in Stamps
  PROVE  Avaliada(r, avaliar_em_quarentena(r, t), t)
<1> DEFINE Pausa(n, ate) == [r EXCEPT !.strikes = n, !.ultimo_ts = t, !.quarentena_ate = ate]
<1>0. /\ r.strikes \in Nat /\ t \in Nat /\ \A ate \in Nat : t + ate \in Nat
      /\ cooldown_strike2 \in Nat /\ quarentena_strike3 \in Nat
  BY AntiSpamAssumption DEF RegistroChat, Stamps
<1>00. \A n, ate \in Nat :
          /\ Pausa(n, ate) \in RegistroChat(recentes)
          /\ Pausa(n, ate).recentes_ts = recentes
          /\ Pausa(n, ate).strikes = n /\ Pausa(n, ate).quarentena_ate = ate
          /\ Pausa(n, ate).dia = r.dia
          /\ Pausa(n, ate).mensagens_no_dia = r.mensagens_no_dia
  BY DEF RegistroChat
<1> HIDE DEF Pausa
<1>1. CASE r.strikes >= 3
  <2>1. avaliar_em_quarentena(r, t) = Resposta([r EXCEPT !.ultimo_ts = t], "Silenciado")
    BY <1>1 DEF avaliar_em_quarentena
  <2> QED
    BY <1>0, <1>1, <2>1 DEF RegistroChat, Avaliada, NaoConta, Resposta
<1>2. CASE r.strikes = 2
  <2>1. avaliar_em_quarentena(r, t) = Resposta(Pausa(3, t + quarentena_strike3), "Alerta")
    BY <1>2 DEF avaliar_em_quarentena, Pausa
  <2> QED
    BY <1>0, <1>00, <1>2, <2>1 DEF Avaliada, NaoConta, Resposta
<1>3. CASE r.strikes < 2
  <2>1. avaliar_em_quarentena(r, t) = Resposta(Pausa(2, t + cooldown_strike2), "AvisoLimite")
    BY <1>0, <1>3 DEF avaliar_em_quarentena, Pausa
  <2> QED
    BY <1>0, <1>00, <1>3, <2>1 DEF Avaliada, NaoConta, Resposta
<1> QED
  BY <1>0, <1>1, <1>2, <1>3

(* Counting a message gives a register of the day of the message. *)
LEMMA Contando ==
  ASSUME NEW recentes, NEW r \in RegistroChat(recentes), NEW t \in Stamps
  PROVE  /\ ComContagem(r, t) \in RegistroChat(recentes)
         /\ ComContagem(r, t).dia = dia(t)
         /\ ComContagem(r, t).mensagens_no_dia = Menor(Contagem(r, t) + 1, limite_diario + 1)
         /\ ComContagem(r, t).strikes = r.strikes
         /\ ComContagem(r, t).quarentena_ate = r.quarentena_ate
         /\ Contagem(r, t) \in Nat
<1>1. /\ r.mensagens_no_dia \in 0..(limite_diario + 1) /\ limite_diario \in Nat
      /\ dia(t) \in Dias
  BY AntiSpamAssumption, DiaDeStamp DEF RegistroChat
<1>2. Contagem(r, t) \in 0..(limite_diario + 1)
  BY <1>1 DEF Contagem
<1>3. Menor(Contagem(r, t) + 1, limite_diario + 1) \in 0..(limite_diario + 1)
  BY <1>1, <1>2 DEF Menor
<1> DEFINE Com(d, n) == [r EXCEPT !.dia = d, !.mensagens_no_dia = n]
           n == Menor(Contagem(r, t) + 1, limite_diario + 1)
<1>4. \A d \in Dias, m \in 0..(limite_diario + 1) :
        /\ Com(d, m) \in RegistroChat(recentes)
        /\ Com(d, m).dia = d /\ Com(d, m).mensagens_no_dia = m
        /\ Com(d, m).strikes = r.strikes /\ Com(d, m).quarentena_ate = r.quarentena_ate
  BY DEF RegistroChat
<1>6. ComContagem(r, t) = Com(dia(t), n)
  BY DEF ComContagem
<1>5. Contagem(r, t) \in Nat
  BY <1>1, <1>2
<1> HIDE DEF Com, n
<1>7. n = Menor(Contagem(r, t) + 1, limite_diario + 1)
  BY DEF n
<1> QED
  BY <1>1, <1>3, <1>4, <1>5, <1>6, <1>7

(* avaliar_livre *)
LEMMA EmLiberdade ==
  ASSUME NEW recentes, NEW r \in RegistroChat(recentes), NEW t \in Stamps, NEW peso \in Nat,
         ~(t < r.quarentena_ate)
  PROVE  Avaliada(r, avaliar_livre(r, peso, t), t)
<1> DEFINE desde == Desde(t, r.ultimo_ts)
           strikes == IF desde > perdao_strikes THEN 0 ELSE r.strikes
           novas == <<t>> \o SelectSeq(r.recentes_ts, LAMBDA s : Desde(t, s) <= janela_flood)
           tokens == Menor(max_tokens, r.tokens + desde)
           resto == IF Teto(Contagem(r, t)) = "Permitido" THEN tokens - peso ELSE tokens
           Muda(x, n, s, ate) == [x EXCEPT !.tokens = n, !.ultimo_ts = t, !.strikes = s,
                                           !.quarentena_ate = ate, !.recentes_ts = novas]
           flood == Muda(r, 0, 3, t + quarentena_strike3)
           aceita == Muda(ComContagem(r, t), resto, strikes, 0)
           seca == Muda(r, 0, strikes + 1, t + cooldown_strike1)
<1>1. /\ t \in Nat /\ \A ate \in Nat : t + ate \in Nat
      /\ cooldown_strike1 \in Nat /\ quarentena_strike3 \in Nat
      /\ r.tokens \in 0..max_tokens /\ r.strikes \in Nat /\ r.ultimo_ts \in Nat
      /\ max_tokens \in Nat
  BY AntiSpamAssumption DEF RegistroChat, Stamps
<1>2. desde \in Nat /\ strikes \in Nat
  BY <1>1 DEF Desde
<1>3. tokens \in 0..max_tokens
  BY <1>1, <1>2 DEF Menor
<1>4. ASSUME NEW x \in RegistroChat(recentes), NEW n \in 0..max_tokens,
             NEW s \in Nat, NEW ate \in Nat
      PROVE  /\ Muda(x, n, s, ate) \in RegistroChat(novas)
             /\ Muda(x, n, s, ate).recentes_ts = novas
             /\ Muda(x, n, s, ate).strikes = s /\ Muda(x, n, s, ate).quarentena_ate = ate
             /\ Muda(x, n, s, ate).dia = x.dia
             /\ Muda(x, n, s, ate).mensagens_no_dia = x.mensagens_no_dia
  <2> HIDE DEF novas
  <2> QED
    BY DEF RegistroChat
<1>5. \/ avaliar_livre(r, peso, t) = Resposta(flood, "Alerta")
      \/ tokens >= peso /\ avaliar_livre(r, peso, t) = Resposta(aceita, Teto(Contagem(r, t)))
      \/ avaliar_livre(r, peso, t) = Resposta(seca, "AvisoLimite")
  <2>1. CASE Len(novas) >= limite_msgs_flood
    BY <2>1 DEF avaliar_livre
  <2>2. CASE ~(Len(novas) >= limite_msgs_flood)
    BY <2>2 DEF avaliar_livre
  <2> QED
    BY <2>1, <2>2
<1> HIDE DEF novas, tokens, strikes, desde, Muda
<1>6. CASE avaliar_livre(r, peso, t) = Resposta(flood, "Alerta")
  <2>1. /\ flood \in RegistroChat(novas) /\ flood.recentes_ts = novas
        /\ flood.dia = r.dia /\ flood.mensagens_no_dia = r.mensagens_no_dia
        /\ flood.strikes = 3 /\ flood.quarentena_ate = t + quarentena_strike3
    BY <1>1, <1>4
  <2> HIDE DEF flood
  <2> QED
    BY <1>6, <2>1 DEF Avaliada, NaoConta, Resposta
<1>7. CASE tokens >= peso /\ avaliar_livre(r, peso, t) = Resposta(aceita, Teto(Contagem(r, t)))
  <2>1. resto \in 0..max_tokens
    BY <1>1, <1>3, <1>7
  <2>2. /\ ComContagem(r, t) \in RegistroChat(recentes)
        /\ ComContagem(r, t).dia = dia(t)
        /\ ComContagem(r, t).mensagens_no_dia = Menor(Contagem(r, t) + 1, limite_diario + 1)
    BY Contando
  <2> HIDE DEF resto
  <2>3. /\ aceita \in RegistroChat(novas) /\ aceita.recentes_ts = novas
        /\ aceita.dia = dia(t)
        /\ aceita.mensagens_no_dia = Menor(Contagem(r, t) + 1, limite_diario + 1)
    BY <1>2, <1>4, <2>1, <2>2
  <2>4. Teto(Contagem(r, t)) # "Alerta"
    BY DEF Teto
  <2> HIDE DEF aceita
  <2> QED
    BY <1>7, <2>3, <2>4 DEF Avaliada, Conta, Resposta
<1>8. CASE avaliar_livre(r, peso, t) = Resposta(seca, "AvisoLimite")
  <2>1. /\ seca \in RegistroChat(novas) /\ seca.recentes_ts = novas
        /\ seca.dia = r.dia /\ seca.mensagens_no_dia = r.mensagens_no_dia
    BY <1>1, <1>2, <1>4
  <2> HIDE DEF seca
  <2> QED
    BY <1>8, <2>1 DEF Avaliada, NaoConta, Resposta
<1> QED
  BY <1>5, <1>6, <1>7, <1>8

(* A question of either kind. *)
respondida(r, q) ==
  IF q.peso > 0 THEN avaliar(r, q.peso, q.em) ELSE avaliar_atrasada(r, q.em)

(* Every answer of the anti-spam is one of those kinds. *)
LEMMA Responder ==
  ASSUME NEW recentes, NEW r \in RegistroChat(recentes), NEW q \in Pergunta
  PROVE  Avaliada(r, respondida(r, q), q.em)
<1>1. q.em \in Stamps /\ q.peso \in Nat
  <2>1. q.em \in Stamps /\ q.peso \in Pesos \cup {0}
    BY DEF Pergunta
  <2>2. \A x \in Pesos : x \in Nat
    BY AntiSpamAssumption
  <2> QED
    BY <2>1, <2>2
<1>2. CASE q.peso > 0 /\ q.em < r.quarentena_ate
  <2>1. respondida(r, q) = avaliar_em_quarentena(r, q.em)
    BY <1>2 DEF respondida, avaliar
  <2> QED
    BY <1>1, <2>1, EmQuarentena
<1>3. CASE q.peso > 0 /\ ~(q.em < r.quarentena_ate)
  <2>1. respondida(r, q) = avaliar_livre(r, q.peso, q.em)
    BY <1>3 DEF respondida, avaliar
  <2> QED
    BY <1>1, <1>3, <2>1, EmLiberdade
<1>4. CASE ~(q.peso > 0) /\ q.em < r.quarentena_ate /\ r.strikes >= 3
  <2>1. respondida(r, q) = Resposta(r, "Silenciado")
    BY <1>4 DEF respondida, avaliar_atrasada
  <2>2. r.recentes_ts = recentes
    BY DEF RegistroChat
  <2> QED
    BY <2>1, <2>2 DEF Avaliada, NaoConta, Resposta
<1>5. CASE ~(q.peso > 0) /\ ~(q.em < r.quarentena_ate /\ r.strikes >= 3)
  <2>1. respondida(r, q) = Resposta(ComContagem(r, q.em), Teto(Contagem(r, q.em)))
    BY <1>5 DEF respondida, avaliar_atrasada
  <2>2. /\ ComContagem(r, q.em) \in RegistroChat(recentes)
        /\ ComContagem(r, q.em).dia = dia(q.em)
        /\ ComContagem(r, q.em).mensagens_no_dia
             = Menor(Contagem(r, q.em) + 1, limite_diario + 1)
    BY <1>1, Contando
  <2>3. ComContagem(r, q.em).recentes_ts = recentes
    BY <2>2 DEF RegistroChat
  <2>4. Teto(Contagem(r, q.em)) # "Alerta"
    BY DEF Teto
  <2> QED
    BY <1>5, <2>1, <2>2, <2>3, <2>4 DEF Avaliada, Conta, Resposta
<1> QED
  BY <1>2, <1>3, <1>4, <1>5

---------------------------------------------------------------------------
(* What a question does, once the register it meets is known. *)
Encontrado(r, q) ==
  \/ r = Novo(q.em) /\ ~Presente
  \/ r = Novo(q.em) /\ Presente /\ ~Fica(registro, q.em)
  \/ r = registro /\ Presente

(* Handling a question answers it from what it finds. *)
LEMMA VerificarEncontra ==
  ASSUME Verificar
  PROVE  \E q \in perguntas : \E r :
           /\ Encontrado(r, q)
           /\ registro' = respondida(r, q).registro
           /\ feito' = Anotar(q.em, respondida(r, q).decisao)
           /\ perguntas' = perguntas \ {q}
           /\ agora' = agora
<1>1. PICK q \in perguntas, cheio \in BOOLEAN :
        LET guardado == IF registro # SemRegistro /\ q.peso > 0 /\ cheio /\ ~Fica(registro, q.em)
                        THEN SemRegistro ELSE registro
            r == IF guardado = SemRegistro THEN Novo(q.em) ELSE guardado
            resposta == IF q.peso > 0 THEN avaliar(r, q.peso, q.em) ELSE avaliar_atrasada(r, q.em)
        IN /\ registro' = resposta.registro
           /\ feito' = Anotar(q.em, resposta.decisao)
           /\ perguntas' = perguntas \ {q}
           /\ UNCHANGED agora
  BY DEF Verificar
<1> DEFINE guardado == IF registro # SemRegistro /\ q.peso > 0 /\ cheio /\ ~Fica(registro, q.em)
                       THEN SemRegistro ELSE registro
           r == IF guardado = SemRegistro THEN Novo(q.em) ELSE guardado
<1>2. /\ registro' = respondida(r, q).registro
      /\ feito' = Anotar(q.em, respondida(r, q).decisao)
      /\ perguntas' = perguntas \ {q} /\ agora' = agora
  BY <1>1, Zenon DEF respondida
<1>3. Encontrado(r, q)
  BY DEF Encontrado, Presente
<1> HIDE DEF r
<1> QED
  BY <1>2, <1>3

(* The register a question meets is a register; what it says of the day of *)
(* the question bounds what that day and later ones have accepted, and a   *)
(* running alert is in it.                                                 *)
LEMMA RegistroEncontrado ==
  ASSUME IInv, NEW q \in perguntas, NEW r, Encontrado(r, q)
  PROVE  /\ q \in Pergunta /\ q.em \in Stamps /\ dia(q.em) \in Dias
         /\ r \in RegistroChat(r.recentes_ts)
<1>1. q \in Pergunta /\ q.em \in Stamps
  BY DEF IInv, TypeOK, Pergunta
<1>2. dia(q.em) \in Dias
  BY <1>1, DiaDeStamp
<1>3. Novo(q.em) \in RegistroChat(Novo(q.em).recentes_ts)
  BY <1>1, <1>2, AntiSpamAssumption DEF Novo, RegistroChat, Stamps
<1>4. r = registro /\ Presente => r \in RegistroChat(r.recentes_ts)
  BY DEF IInv, TypeOK, Presente
<1> QED
  BY <1>1, <1>2, <1>3, <1>4 DEF Encontrado

(* The bookkeeping of one decision, field by field. *)
LEMMA Anotado ==
  ASSUME feito \in Feito, NEW t \in Stamps, NEW decisao, AlertaSilencia
  PROVE  LET novo == Anotar(t, decisao)
             castigo == /\ feito.alerta <= MaxAgora
                        /\ feito.vista < feito.alerta + quarentena_strike3
                        /\ t < feito.alerta + quarentena_strike3 IN
         /\ ~castigo \/ decisao \notin {"Permitido", "Alerta"} =>
              novo \in Feito /\ ~novo.quebras
         /\ novo.vista = IF feito.vista <= t THEN t ELSE feito.vista
         /\ novo.alerta = IF decisao = "Alerta" THEN t ELSE feito.alerta
         /\ novo.liberacoes = feito.liberacoes
         /\ novo.voltas = IF Presente /\ dia(t) < registro.dia
                          THEN feito.voltas + 1 ELSE feito.voltas
         /\ \A d \in Dias :
              novo.aceitas[d] = IF decisao = "Permitido" /\ d = dia(t)
                                THEN feito.aceitas[d] + 1 ELSE feito.aceitas[d]
<1> DEFINE castigo == /\ feito.alerta <= MaxAgora
                      /\ feito.vista < feito.alerta + quarentena_strike3
                      /\ t < feito.alerta + quarentena_strike3
           alerta == IF decisao = "Alerta" THEN t ELSE feito.alerta
           vista == IF feito.vista <= t THEN t ELSE feito.vista
           aceitas == IF decisao = "Permitido"
                      THEN [feito.aceitas EXCEPT ![dia(t)] = @ + 1] ELSE feito.aceitas
           voltas == IF registro # SemRegistro /\ dia(t) < registro.dia
                     THEN feito.voltas + 1 ELSE feito.voltas
           quebras == IF castigo /\ decisao \in {"Permitido", "Alerta"}
                      THEN TRUE ELSE feito.quebras
           Feita(a, v, c, n, b) ==
             [feito EXCEPT !.vista = v, !.alerta = a, !.aceitas = c, !.voltas = n, !.quebras = b]
<1>1. Anotar(t, decisao) = Feita(alerta, vista, aceitas, voltas, quebras)
  BY DEF Anotar
<1>2. /\ MaxAgora \in Nat /\ t \in 0..MaxAgora /\ dia(t) \in Dias
      /\ feito.aceitas \in [Dias -> Nat] /\ feito.voltas \in Nat
      /\ feito.vista \in Stamps /\ feito.alerta \in 0..(MaxAgora + 1)
  BY AntiSpamAssumption, DiaDeStamp DEF Feito, Stamps
<1>3. /\ alerta \in 0..(MaxAgora + 1) /\ vista \in Stamps /\ voltas \in Nat
      /\ aceitas \in [Dias -> Nat]
  BY <1>2 DEF Stamps
<1>4. \A d \in Dias : aceitas[d] = IF decisao = "Permitido" /\ d = dia(t)
                                   THEN feito.aceitas[d] + 1 ELSE feito.aceitas[d]
  BY <1>2
<1>5. feito.quebras = FALSE
  BY DEF AlertaSilencia, Feito
<1>6. ASSUME NEW a, NEW v, NEW c, NEW n, NEW b
      PROVE  /\ Feita(a, v, c, n, b).alerta = a /\ Feita(a, v, c, n, b).vista = v
             /\ Feita(a, v, c, n, b).aceitas = c /\ Feita(a, v, c, n, b).voltas = n
             /\ Feita(a, v, c, n, b).quebras = b
             /\ Feita(a, v, c, n, b).liberacoes = feito.liberacoes
             /\ a \in 0..(MaxAgora + 1) /\ v \in Stamps /\ c \in [Dias -> Nat]
                  /\ n \in Nat /\ b \in BOOLEAN => Feita(a, v, c, n, b) \in Feito
  BY DEF Feito
<1>7. ~castigo \/ decisao \notin {"Permitido", "Alerta"} => quebras = FALSE
  BY <1>5, Zenon
<1> HIDE DEF alerta, vista, aceitas, voltas, quebras, Feita
<1>8. /\ Anotar(t, decisao).alerta = alerta /\ Anotar(t, decisao).vista = vista
      /\ Anotar(t, decisao).aceitas = aceitas /\ Anotar(t, decisao).voltas = voltas
      /\ Anotar(t, decisao).quebras = quebras
      /\ Anotar(t, decisao).liberacoes = feito.liberacoes
  BY <1>1, <1>6
<1>9. quebras \in BOOLEAN => Anotar(t, decisao) \in Feito
  BY <1>1, <1>3, <1>6
<1>10. ~castigo \/ decisao \notin {"Permitido", "Alerta"} =>
         Anotar(t, decisao) \in Feito /\ ~Anotar(t, decisao).quebras
  BY <1>7, <1>8, <1>9, Zenon
<1>11. /\ alerta = IF decisao = "Alerta" THEN t ELSE feito.alerta
       /\ vista = IF feito.vista <= t THEN t ELSE feito.vista
       /\ voltas = IF Presente /\ dia(t) < registro.dia THEN feito.voltas + 1 ELSE feito.voltas
  BY DEF alerta, vista, voltas, Presente
<1> HIDE DEF castigo
<1>12. ~castigo \/ decisao \notin {"Permitido", "Alerta"} =>
         Anotar(t, decisao) \in Feito /\ ~Anotar(t, decisao).quebras
  BY <1>10
<1> QED
  BY <1>4, <1>8, <1>11, <1>12 DEF castigo

(* Verificar, for the question q that met the register r. *)
Verificada(q, r) ==
  /\ Encontrado(r, q)
  /\ registro' = respondida(r, q).registro
  /\ feito' = Anotar(q.em, respondida(r, q).decisao)

(* The answer during an alert's 30 minutes is silence, also when memory is *)
(* full and when a later alert was handled before: the silence is kept.    *)
LEMMA CastigoVerificada ==
  ASSUME IInv, NEW q \in perguntas, NEW r, Verificada(q, r)
  PROVE  /\ feito' \in Feito /\ AlertaSilencia' /\ Castigo'
         /\ registro' \in RegistroChat(registro'.recentes_ts)
<1> DEFINE resposta == respondida(r, q)
           t == q.em
           fim == feito.alerta + quarentena_strike3
           castigo == feito.alerta <= MaxAgora /\ feito.vista < fim /\ t < fim
<1>1. /\ q \in Pergunta /\ t \in Stamps /\ r \in RegistroChat(r.recentes_ts)
  BY RegistroEncontrado DEF Verificada
<1>2. Avaliada(r, resposta, t)
  BY <1>1, Responder
<1>3. resposta.registro \in RegistroChat(resposta.registro.recentes_ts)
  BY <1>2 DEF Avaliada
<1>4. resposta.registro # SemRegistro
  BY <1>3, RegistroPresente
<1>5. /\ t \in Nat /\ feito.vista \in Nat /\ feito.alerta \in Nat
      /\ quarentena_strike3 \in Nat /\ MaxAgora \in Nat /\ t <= MaxAgora
  BY <1>1, AntiSpamAssumption DEF IInv, TypeOK, Feito, Stamps
<1>6. castigo => /\ resposta.decisao = "Silenciado"
                 /\ resposta.registro.strikes >= 3
                 /\ resposta.registro.quarentena_ate = fim
  <2> SUFFICES ASSUME castigo
               PROVE  /\ resposta.decisao = "Silenciado"
                      /\ resposta.registro.strikes >= 3
                      /\ resposta.registro.quarentena_ate = fim
    OBVIOUS
  <2>1. Presente /\ registro.strikes >= 3 /\ registro.quarentena_ate = fim
    BY DEF IInv, Castigo
  <2>2. r = registro
    BY <2>1 DEF Verificada, Encontrado, Fica
  <2> QED
    BY <1>2, <2>1, <2>2 DEF Avaliada
<1> HIDE DEF resposta, fim
<1>7. /\ feito' = Anotar(t, resposta.decisao) /\ registro' = resposta.registro
  BY DEF Verificada, resposta
<1>8. ~castigo \/ resposta.decisao \notin {"Permitido", "Alerta"}
  BY <1>6
<1>9. /\ feito' \in Feito /\ ~feito'.quebras
      /\ feito'.vista = IF feito.vista <= t THEN t ELSE feito.vista
      /\ feito'.alerta = IF resposta.decisao = "Alerta" THEN t ELSE feito.alerta
  BY <1>1, <1>7, <1>8, Anotado DEF IInv, TypeOK, fim
<1>10. Castigo'
  <2> SUFFICES ASSUME feito'.alerta <= MaxAgora, feito'.vista < feito'.alerta + quarentena_strike3
               PROVE  /\ registro'.strikes >= 3
                      /\ registro'.quarentena_ate = feito'.alerta + quarentena_strike3
    BY <1>4, <1>7 DEF Castigo, Presente
  <2>1. CASE resposta.decisao = "Alerta"
    BY <1>2, <1>7, <1>9, <2>1 DEF Avaliada
  <2>2. CASE resposta.decisao # "Alerta"
    <3>1. castigo
      BY <1>5, <1>9, <2>2 DEF fim
    <3> QED
      BY <1>6, <1>7, <1>9, <2>2, <3>1 DEF fim
  <2> QED
    BY <2>1, <2>2
<1> QED
  BY <1>3, <1>7, <1>9, <1>10 DEF AlertaSilencia

(* The counts, whatever order the stamps come in. *)
LEMMA ContagensVerificada ==
  ASSUME IInv, feito' \in Feito, NEW q \in perguntas, NEW r, Verificada(q, r)
  PROVE  Contagens'
<1> DEFINE resposta == respondida(r, q)
           t == q.em
           hoje == dia(q.em)
           k == Recomecos
           c == Contagem(r, t)
           L == limite_diario
<1>1. /\ q \in Pergunta /\ t \in Stamps /\ hoje \in Dias /\ r \in RegistroChat(r.recentes_ts)
  BY RegistroEncontrado DEF Verificada
<1>2. Avaliada(r, resposta, t) /\ resposta.registro # SemRegistro
  BY <1>1, Responder, RegistroPresente DEF Avaliada
<1>3. /\ feito' = Anotar(t, resposta.decisao) /\ registro' = resposta.registro
      /\ feito \in Feito /\ AlertaSilencia
  BY DEF Verificada, IInv, TypeOK
<1>4. /\ feito'.liberacoes = feito.liberacoes
      /\ feito'.voltas = IF Presente /\ hoje < registro.dia THEN feito.voltas + 1 ELSE feito.voltas
      /\ \A d \in Dias :
           feito'.aceitas[d] = IF resposta.decisao = "Permitido" /\ d = hoje
                               THEN feito.aceitas[d] + 1 ELSE feito.aceitas[d]
  BY <1>1, <1>3, Anotado
<1>5. /\ \A d \in Dias : d \in Nat /\ feito.aceitas[d] \in Nat
      /\ L \in Nat /\ c \in Nat /\ r.dia \in Dias /\ r.mensagens_no_dia \in Nat
      /\ feito.voltas \in Nat /\ feito.liberacoes \in Nat
      /\ Presente => registro.dia \in Dias /\ registro.mensagens_no_dia \in Nat
  <2>1. L \in Nat /\ MaxAgora \in Nat /\ Dia \in Nat \ {0}
    BY AntiSpamAssumption
  <2>2. \A d \in Dias : d \in Nat
    BY DEF Dias
  <2>3. /\ \A d \in Dias : feito.aceitas[d] \in Nat
        /\ feito.voltas \in Nat /\ feito.liberacoes \in Nat
    BY <1>3, AntiSpamAssumption DEF Feito
  <2>4. \A x, recentes : x \in RegistroChat(recentes) =>
                           x.dia \in Dias /\ x.mensagens_no_dia \in Nat
    BY <2>1 DEF RegistroChat
  <2>5. Presente => registro \in RegistroChat(registro.recentes_ts)
    BY DEF IInv, TypeOK, Presente
  <2>6. c \in Nat
    BY <1>1, Contando
  <2> QED
    BY <1>1, <2>1, <2>2, <2>3, <2>4, <2>5, <2>6
<1>6. /\ k \in Nat /\ k' \in Nat
      /\ IF Presente /\ hoje < registro.dia THEN k' = k + 1 ELSE k' = k
  BY <1>4, <1>5 DEF Recomecos
<1>7. /\ Cotas(k) \in Nat /\ Cotas(k') \in Nat
      /\ Cotas(1 + k) = Cotas(k) + L /\ Cotas(1 + k') = Cotas(k') + L
      /\ IF Presente /\ hoje < registro.dia THEN Cotas(k') = Cotas(k) + L ELSE Cotas(k') = Cotas(k)
  BY <1>6, CotasCrescem
(* Before the question is answered. *)
<1>8. \A d \in Dias :
        /\ feito.aceitas[d] <= Cotas(k') + L
        /\ d > hoje => feito.aceitas[d] <= Cotas(k')
        /\ d = hoje => feito.aceitas[d] <= c + Cotas(k')
        /\ d > r.dia => feito.aceitas[d] <= Cotas(k')
        /\ d = r.dia => feito.aceitas[d] <= r.mensagens_no_dia + Cotas(k')
  <2>1. \A d \in Dias :
          /\ feito.aceitas[d] <= Cotas(k) + L
          /\ ~Presente \/ d > registro.dia => feito.aceitas[d] <= Cotas(k)
          /\ Presente /\ d = registro.dia =>
               feito.aceitas[d] <= registro.mensagens_no_dia + Cotas(k)
    BY <1>7 DEF IInv, Contagens
  <2> HIDE DEF k, L
  <2>2. CASE r = Novo(t)
    <3>1. r.dia = hoje /\ r.mensagens_no_dia = 0 /\ c = 0
      BY <2>2 DEF Novo, Contagem
    <3>2. ~Presente \/ (Presente /\ ~(registro.dia = hoje /\ registro.mensagens_no_dia > 0))
      BY <2>2, <3>1 DEF Verificada, Encontrado, Fica
    <3> QED
      BY <1>1, <1>5, <1>7, <2>1, <3>1, <3>2
  <2>3. CASE r = registro /\ Presente
    BY <1>1, <1>5, <1>7, <2>1, <2>3 DEF Contagem
  <2> QED
    BY <2>2, <2>3 DEF Verificada, Encontrado
<1>9. CASE Conta(r, resposta, t)
  <2>1. /\ registro'.dia = hoje
        /\ registro'.mensagens_no_dia = IF c + 1 <= L + 1 THEN c + 1 ELSE L + 1
        /\ resposta.decisao = "Permitido" => c < L
    BY <1>3, <1>9 DEF Conta, Menor, Teto
  <2> QED
    BY <1>1, <1>2, <1>3, <1>4, <1>5, <1>7, <1>8, <2>1 DEF Contagens, Presente
<1>10. CASE NaoConta(r, resposta)
  <2>1. /\ registro'.dia = r.dia /\ registro'.mensagens_no_dia = r.mensagens_no_dia
        /\ resposta.decisao # "Permitido"
    BY <1>3, <1>10 DEF NaoConta
  <2> QED
    BY <1>1, <1>2, <1>3, <1>4, <1>5, <1>7, <1>8, <2>1 DEF Contagens, Presente
<1> QED
  BY <1>2, <1>9, <1>10 DEF Avaliada

(* A question keeps the invariant. *)
LEMMA IInvVerificar == IInv /\ Verificar => IInv'
<1> SUFFICES ASSUME IInv, Verificar PROVE IInv'
  OBVIOUS
<1>0. PICK q \in perguntas :
        \E r : Verificada(q, r) /\ perguntas' = perguntas \ {q} /\ agora' = agora
  BY VerificarEncontra DEF Verificada
<1>1. PICK r : Verificada(q, r) /\ perguntas' = perguntas \ {q} /\ agora' = agora
  BY <1>0
<1>2. /\ feito' \in Feito /\ AlertaSilencia' /\ Castigo'
      /\ registro' \in RegistroChat(registro'.recentes_ts)
  BY <1>1, CastigoVerificada
<1>3. Contagens'
  BY <1>1, <1>2, ContagensVerificada
<1>4. TypeOK'
  BY <1>1, <1>2 DEF IInv, TypeOK
<1> QED
  BY <1>2, <1>3, <1>4 DEF IInv

(* desbloquear or a restart: the counts start again and the alert is over. *)
LEMMA IInvLiberar == IInv /\ Liberar => IInv'
<1> SUFFICES ASSUME IInv, Liberar PROVE IInv'
  OBVIOUS
<1>1. /\ MaxAgora \in Nat /\ MaxLiberacoes \in Nat /\ feito \in Feito
      /\ feito.liberacoes \in Nat /\ feito.voltas \in Nat
      /\ \A d \in Dias : feito.aceitas[d] \in Nat
  BY AntiSpamAssumption DEF IInv, TypeOK, Feito
<1>2. /\ feito' \in Feito /\ feito'.liberacoes = feito.liberacoes + 1
      /\ feito'.voltas = feito.voltas /\ feito'.aceitas = feito.aceitas
      /\ feito'.alerta = MaxAgora + 1 /\ feito'.quebras = feito.quebras
      /\ registro' = SemRegistro
  <2> DEFINE Feita(a, n) == [feito EXCEPT !.alerta = a, !.liberacoes = n]
  <2>1. feito' = Feita(MaxAgora + 1, feito.liberacoes + 1) /\ registro' = SemRegistro
    BY <1>1 DEF Liberar, Feito
  <2>2. feito.liberacoes + 1 \in 0..MaxLiberacoes /\ MaxAgora + 1 \in 0..(MaxAgora + 1)
    BY <1>1 DEF Liberar
  <2>3. \A a \in 0..(MaxAgora + 1), n \in 0..MaxLiberacoes :
          /\ Feita(a, n) \in Feito /\ Feita(a, n).liberacoes = n /\ Feita(a, n).alerta = a
          /\ Feita(a, n).voltas = feito.voltas /\ Feita(a, n).aceitas = feito.aceitas
          /\ Feita(a, n).quebras = feito.quebras
    BY <1>1 DEF Feito
  <2> HIDE DEF Feita
  <2> QED
    BY <2>1, <2>2, <2>3
<1>3. TypeOK'
  BY <1>2 DEF Liberar, IInv, TypeOK
<1>4. Castigo' /\ AlertaSilencia'
  BY <1>1, <1>2 DEF IInv, Castigo, AlertaSilencia
<1>5. /\ Recomecos \in Nat /\ Recomecos' = 1 + Recomecos
      /\ Cotas(Recomecos) \in Nat /\ limite_diario \in Nat
      /\ Cotas(1 + Recomecos) = Cotas(Recomecos) + limite_diario
      /\ Cotas(1 + Recomecos') = Cotas(Recomecos') + limite_diario
  <2>1. Recomecos \in Nat /\ Recomecos' = 1 + Recomecos /\ Recomecos' \in Nat
    BY <1>1, <1>2 DEF Recomecos
  <2> QED
    BY <2>1, CotasCrescem, AntiSpamAssumption
<1>6. \A d \in Dias : feito.aceitas[d] <= Cotas(Recomecos')
  BY <1>5 DEF IInv, Contagens
<1>7. Cotas(Recomecos') \in Nat
  BY <1>5
<1>8. Contagens'
  BY <1>1, <1>2, <1>5, <1>6, <1>7 DEF Contagens, Presente
<1> QED
  BY <1>3, <1>4, <1>8 DEF IInv

(* The invariant holds for ever. *)
LEMMA IInvSempre == Spec => []IInv
<1>1. Init => IInv
  <2> SUFFICES ASSUME Init PROVE IInv
    OBVIOUS
  <2>1. 0 \in Stamps /\ MaxAgora \in Nat /\ MaxLiberacoes \in Nat /\ limite_diario \in Nat
    BY AntiSpamAssumption DEF Stamps
  <2>2. feito \in Feito /\ ~feito.quebras /\ feito.alerta = MaxAgora + 1
    BY <2>1 DEF Init, Feito
  <2>3. Recomecos = 0 /\ \A d \in Dias : feito.aceitas[d] = 0
    BY DEF Init, Recomecos
  <2>4. Cotas(Recomecos) = 0 /\ Cotas(1 + Recomecos) \in Nat
    BY <2>1, <2>3, CotasCrescem
  <2>5. TypeOK
    BY <2>1, <2>2 DEF Init, TypeOK
  <2>6. Castigo /\ AlertaSilencia
    BY <2>1, <2>2 DEF Castigo, AlertaSilencia
  <2>7. Contagens
    BY <2>3, <2>4 DEF Init, Contagens, Presente
  <2> QED
    BY <2>5, <2>6, <2>7 DEF IInv
<1>2. IInv /\ [Next]_vars => IInv'
  <2> SUFFICES ASSUME IInv, [Next]_vars PROVE IInv'
    OBVIOUS
  <2>1. CASE UNCHANGED <<registro, feito>> /\ TypeOK'
    <3>1. Castigo' /\ Contagens' /\ AlertaSilencia'
      BY <2>1 DEF IInv, Castigo, Contagens, AlertaSilencia, Presente, Recomecos
    <3> QED
      BY <2>1, <3>1 DEF IInv
  <2>2. CASE Perguntar
    <3>1. TypeOK'
      BY <2>2 DEF Perguntar, IInv, TypeOK
    <3> QED
      BY <2>1, <2>2, <3>1 DEF Perguntar
  <2>3. CASE Relogio
    <3>1. TypeOK'
      BY <2>3, AntiSpamAssumption DEF Relogio, IInv, TypeOK, Stamps
    <3> QED
      BY <2>1, <2>3, <3>1 DEF Relogio
  <2>4. CASE UNCHANGED vars
    <3>1. TypeOK'
      BY <2>4 DEF vars, IInv, TypeOK
    <3> QED
      BY <2>1, <2>4, <3>1 DEF vars
  <2> QED
    BY <2>2, <2>3, <2>4, IInvVerificar, IInvLiberar DEF Next
<1> QED
  BY <1>1, <1>2, PTL DEF Spec

(* The register of a chat stays well formed whatever is asked of it. *)
THEOREM TypeCorrect == Spec => []TypeOK
  BY IInvSempre, PTL DEF IInv

(* After an alert of strike 3 nothing of the chat is acted on, and no      *)
(* second alert is sent, for quarentena_strike3: neither avaliar_atrasada, *)
(* nor limpar_inativos with a full memory, nor stamps handled out of order *)
(* end it early.                                                           *)
THEOREM AlertaCorrect == Spec => []AlertaSilencia
  BY IInvSempre, PTL DEF IInv

(* The accepted messages of a day stay within limite_diario times the      *)
(* number of times its count could start: pruning never starts it again.   *)
THEOREM TetoCorrect == Spec => []TetoDiario
<1>1. IInv => TetoDiario
  <2> SUFFICES ASSUME IInv PROVE TetoDiario
    OBVIOUS
  <2>1. feito.liberacoes \in Nat /\ feito.voltas \in Nat
    BY AntiSpamAssumption DEF IInv, TypeOK, Feito
  <2>2. 1 + Recomecos = 1 + feito.liberacoes + feito.voltas
    BY <2>1 DEF Recomecos
  <2> QED
    BY <2>2 DEF IInv, Contagens, TetoDiario, Cotas
<1> QED
  BY <1>1, IInvSempre, PTL
============================================================================
