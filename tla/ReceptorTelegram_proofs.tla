----------------------- MODULE ReceptorTelegram_proofs -----------------------
(***************************************************************************)
(* Type correctness of the Telegram poller and of the handlers behind it,  *)
(* and their four invariants: what a chat has said stays in its history, a *)
(* reset is not undone, the last command on a setting wins, and no message *)
(* is skipped.                                                             *)
(*                                                                         *)
(* The first two are about what a summary has read and not written yet;    *)
(* the third about who holds a copy of the row of settings; the last about *)
(* the offset of the poller.                                               *)
(***************************************************************************)
EXTENDS ReceptorTelegram, SequenceTheorems, TLAPS

Passos == {"fora", "inicio", "config", "padrao", "historico", "salvar", "limpar",
           "pergunta", "resposta", "enfileirar", "descrever", "descricao", "ler",
           "compactar", "anotar", "fim", "morta"}

Valores == [campo.reset -> Mensagens \cup {0}]

(* The turns a handler carries were written some time. *)
Tratador == [pc : Passos, cfg : Valores, lidos : SUBSET memoria.escritos,
             deve : SUBSET memoria.escritos]

Ajustado == [ultimo : Valores, obedecidos : SUBSET Mensagens,
             vencidos : SUBSET Mensagens, cruzados : BOOLEAN]

Tabelas ==
  /\ historico \in Seq(memoria.escritos)
  /\ config \in [existe : BOOLEAN, valor : Valores]
  /\ recebidas \subseteq Mensagens
  /\ memoria = [escritos |-> memoria.escritos, apagados |-> memoria.apagados,
                janela |-> memoria.janela, copiados |-> memoria.copiados]
  /\ ajustes \in Ajustado

Processos ==
  /\ tipo \in [Mensagens -> Tipos]
  /\ hdl \in [Mensagens -> Tratador]
  /\ faltas \in [avarias : Nat, reinicios : Nat, mortes : Nat]

(* The poller hands out what the server has, and asks for nothing beyond. *)
Poller ==
  /\ servidor \in [tem : 0 .. N, confirmado : Nat]
  /\ poller \in [pc : {"pedir", "lote", "fim"}, offset : Nat, prox : Nat, ate : Nat]
  /\ servidor.confirmado <= servidor.tem /\ poller.offset <= servidor.tem + 1
  /\ poller.pc = "lote" => 1 <= poller.prox /\ poller.prox <= poller.ate
                           /\ poller.ate <= servidor.tem

Boa == Tabelas /\ Processos /\ Poller

(* While a summary waits for the AI, what is in the history and was not    *)
(* read by it was written since.                                           *)
Janela ==
  \A m \in Mensagens :
    hdl[m].pc = "compactar" => Presentes \subseteq hdl[m].lidos \cup memoria.janela

(* What a reset erased and a summary still carries is among the copies. *)
Copias ==
  \A m \in Resumindo : Cobertos(hdl[m].lidos) \cap memoria.apagados \subseteq memoria.copiados

(* As long as no two handlers held the settings at once, the only one that *)
(* holds them has the current row.                                         *)
Sozinho(x) ==
  /\ \A y \in Mensagens : Gravando(y) => y = x
  /\ hdl[x].cfg = config.valor
  /\ hdl[x].pc = "padrao" => ~config.existe

Aceita(m) == hdl[m].pc \in {"config", "padrao", "historico", "salvar"}

(* As long as no statement failed, a command is obeyed once: its message   *)
(* was marked before.                                                      *)
UmaVez ==
  /\ ajustes.obedecidos \subseteq recebidas
  /\ \A m \in Mensagens : Aceita(m) => m \in recebidas /\ m \notin ajustes.obedecidos

(* The settings are those of commands that were obeyed, and what a start   *)
(* came to undo was of a kind that starts undo.                            *)
Obedecidos ==
  /\ \A c \in campo.reset : ajustes.ultimo[c] \in ajustes.obedecidos \cup {0}
  /\ ajustes.vencidos \subseteq {m \in ajustes.obedecidos : tipo[m] \in Desfeitos}

Ordem ==
  /\ Obedecidos
  /\ \A m \in Mensagens : hdl[m].pc = "salvar" => tipo[m] \in Ajustes
  /\ ~config.existe => config.valor = padrao
  /\ ~ajustes.cruzados => \A x \in Mensagens : Gravando(x) => Sozinho(x)
  /\ faltas.avarias = 0 => UmaVez

IInv ==
  /\ Boa
  /\ Janela /\ MemoriaFica
  /\ Copias /\ ResetEsquece
  /\ Ordem /\ UltimoAjusteVence

---------------------------------------------------------------------------
(* The constants the actions assign are of their types. *)
LEMMA Valor ==
  /\ padrao \in Valores
  /\ \A pc \in Passos, ds \in SUBSET memoria.escritos :
       [Livre EXCEPT !.pc = pc, !.deve = ds] \in Tratador
  /\ campo.reset = {"audio_ativo", "modo_descricao", "video_ativo", "modelo"}
<1>1. padrao \in Valores
  BY DEF padrao, Valores
<1> QED
  BY <1>1 DEF Livre, Tratador, campo

(* The initial state is well typed. *)
LEMMA BoaInicial == Init => Boa
<1> SUFFICES ASSUME Init  PROVE Boa
  OBVIOUS
<1>1. historico \in Seq(memoria.escritos)
  <2>1. CASE historico = <<>>
    BY <2>1, EmptySeq
  <2>2. CASE historico = Antigos
    <3>1. memoria.escritos = ToSet(Antigos)
      BY <2>2 DEF Init, InitConversa, Presentes
    <3>2. DOMAIN Antigos = 1 .. 2 /\ Antigos \in Seq({Antigos[1], Antigos[2]})
      BY DEF Antigos
    <3>3. Antigos[1] \in ToSet(Antigos) /\ Antigos[2] \in ToSet(Antigos)
      BY <3>2 DEF ToSet
    <3> QED
      BY <2>2, <3>1, <3>2, <3>3, SeqMonotonic
  <2> QED
    BY <2>1, <2>2 DEF Init, InitConversa
<1>2. Tabelas
  <2>1. config \in [existe : BOOLEAN, valor : Valores]
    <3>1. \A b \in BOOLEAN : [existe |-> b, valor |-> padrao] \in [existe : BOOLEAN, valor : Valores]
      BY Valor
    <3>2. \E b \in BOOLEAN : config = [existe |-> b, valor |-> padrao]
      BY DEF Init, InitConversa
    <3> QED
      BY <3>1, <3>2
  <2>2. ajustes \in Ajustado
    BY Valor DEF Init, InitConversa, Ajustado
  <2>3. memoria = [escritos |-> memoria.escritos, apagados |-> memoria.apagados,
                   janela |-> memoria.janela, copiados |-> memoria.copiados]
        /\ recebidas = {}
    BY DEF Init, InitConversa
  <2> QED
    BY <1>1, <2>1, <2>2, <2>3 DEF Tabelas
<1>3. Processos
  <2>1. Livre \in Tratador
    BY Valor DEF Livre, Tratador, Passos
  <2>2. hdl \in [Mensagens -> Tratador]
    BY <2>1 DEF Init, InitConversa
  <2>3. faltas \in [avarias : Nat, reinicios : Nat, mortes : Nat]
        /\ tipo \in [Mensagens -> Tipos]
    BY DEF Init, InitConversa
  <2> QED
    BY <2>2, <2>3 DEF Processos
<1>4. Poller
  BY ConversaAssumption DEF Init, Pedindo, Poller
<1> QED
  BY <1>2, <1>3, <1>4 DEF Boa

(* Turns are never forgotten as written ones. *)
LEMMA Escreve ==
  ASSUME Tabelas, NEW t, adicionar(t)
  PROVE  /\ memoria'.escritos = memoria.escritos \cup {t}
         /\ memoria'.apagados = memoria.apagados \ {t}
         /\ memoria'.janela = IF ResumoAberto THEN memoria.janela \cup {t} ELSE memoria.janela
         /\ memoria'.copiados = memoria.copiados
         /\ Presentes' = Presentes \cup {t}
         /\ Tabelas'
<1>1. /\ memoria'.escritos = memoria.escritos \cup {t}
      /\ memoria'.apagados = memoria.apagados \ {t}
      /\ memoria'.janela = IF ResumoAberto THEN memoria.janela \cup {t} ELSE memoria.janela
      /\ memoria'.copiados = memoria.copiados
      /\ memoria' = [escritos |-> memoria'.escritos, apagados |-> memoria'.apagados,
                     janela |-> memoria'.janela, copiados |-> memoria'.copiados]
  BY DEF adicionar, Tabelas
<1>2. historico \in Seq(memoria'.escritos) /\ t \in memoria'.escritos
  BY <1>1, SeqMonotonic DEF Tabelas
<1>3. /\ historico' \in Seq(memoria'.escritos)
      /\ Len(historico') = Len(historico) + 1
      /\ \A i \in 1 .. Len(historico) : historico'[i] = historico[i]
      /\ historico'[Len(historico) + 1] = t
  BY <1>2, AppendProperties DEF adicionar
<1>4. Presentes' = Presentes \cup {t}
  <2>1. DOMAIN historico = 1 .. Len(historico) /\ Len(historico) \in Nat
        /\ DOMAIN historico' = 1 .. (Len(historico) + 1)
    BY <1>2, <1>3, LenProperties
  <2> QED
    BY <1>3, <2>1 DEF Presentes, ToSet
<1> QED
  BY <1>1, <1>3, <1>4 DEF adicionar, Tabelas

(* A reset erases what there is; what a summary has read it keeps. *)
LEMMA Limpa ==
  ASSUME Tabelas, limpar
  PROVE  /\ memoria'.escritos = memoria.escritos /\ memoria'.janela = memoria.janela
         /\ memoria'.apagados = memoria.apagados \cup Lembrados
         /\ memoria'.copiados = memoria.copiados \cup EmResumo
         /\ Presentes' = {}
         /\ Tabelas'
<1>1. historico' = <<>> /\ UNCHANGED <<config, recebidas, ajustes>>
  BY DEF limpar, apagar_turnos
<1>2. Presentes' = {}
  BY <1>1 DEF Presentes, ToSet
<1>3. /\ memoria'.escritos = memoria.escritos /\ memoria'.janela = memoria.janela
      /\ memoria'.apagados = memoria.apagados \cup Lembrados
      /\ memoria'.copiados = memoria.copiados \cup EmResumo
      /\ memoria' = [escritos |-> memoria'.escritos, apagados |-> memoria'.apagados,
                     janela |-> memoria'.janela, copiados |-> memoria'.copiados]
  BY DEF limpar, Tabelas
<1> QED
  BY <1>1, <1>2, <1>3, EmptySeq DEF Tabelas

(* What a step of one handler that only moves on does to its record. *)
LEMMA Anda ==
  ASSUME Processos, NEW m \in Mensagens, NEW pc \in Passos, Vai(m, pc)
  PROVE  /\ hdl' \in [Mensagens -> Tratador]
         /\ hdl'[m].pc = pc /\ hdl'[m].deve = hdl[m].deve
         /\ pc \notin {"fim", "morta"} => hdl'[m].cfg = hdl[m].cfg /\ hdl'[m].lidos = hdl[m].lidos
         /\ \A x \in Mensagens \ {m} : hdl'[x] = hdl[x]
<1>1. hdl[m] \in Tratador
  BY DEF Processos
<1>2. CASE pc \in {"fim", "morta"}
  <2>1. hdl' = [hdl EXCEPT ![m] = [Livre EXCEPT !.pc = pc, !.deve = hdl[m].deve]]
    BY <1>2 DEF Vai
  <2>2. [Livre EXCEPT !.pc = pc, !.deve = hdl[m].deve] \in Tratador
    BY <1>1, Valor DEF Tratador
  <2>3. [Livre EXCEPT !.pc = pc, !.deve = hdl[m].deve].pc = pc
        /\ [Livre EXCEPT !.pc = pc, !.deve = hdl[m].deve].deve = hdl[m].deve
    BY DEF Livre
  <2> QED
    BY <1>2, <2>1, <2>2, <2>3 DEF Processos
<1>3. CASE pc \notin {"fim", "morta"}
  <2>1. hdl' = [hdl EXCEPT ![m] = [hdl[m] EXCEPT !.pc = pc]]
    BY <1>3 DEF Vai
  <2>2. [hdl[m] EXCEPT !.pc = pc] \in Tratador
    BY <1>1 DEF Tratador
  <2> QED
    BY <1>1, <2>1, <2>2 DEF Processos, Tratador
<1> QED
  BY <1>2, <1>3

(* A failing statement leaves a mark; the other faults leave that one.     *)
LEMMA Falhas ==
  ASSUME Processos
  PROVE  /\ Avaria => /\ faltas' \in [avarias : Nat, reinicios : Nat, mortes : Nat]
                      /\ faltas'.avarias # 0
         /\ \A qual \in {"reinicios", "mortes"} :
              Falta(qual) => /\ faltas' \in [avarias : Nat, reinicios : Nat, mortes : Nat]
                             /\ faltas'.avarias = faltas.avarias
  BY DEF Avaria, Falta, Processos

---------------------------------------------------------------------------
(* What turns stand for. *)

(* A turn is covered by itself or by a summary. *)
LEMMA Coberta ==
  ASSUME NEW S, NEW c
  PROVE  c \in Cobertos(S) <=> c \in S \/ \E t \in S : c \in t.cobre
  BY DEF Cobertos

(* More turns cover more. *)
LEMMA CobertosSobe == \A S, T : S \subseteq T => Cobertos(S) \subseteq Cobertos(T)
  BY Coberta

(* Turns put together cover what they cover apart. *)
LEMMA CobertosUne == \A S, T : Cobertos(S \cup T) = Cobertos(S) \cup Cobertos(T)
  BY Coberta

(* One turn covers itself and what it replaced. *)
LEMMA CobertosDeUm == \A t : Cobertos({t}) = {t} \cup t.cobre
  BY Coberta

(* No turns cover nothing. *)
LEMMA CobertosVazio == Cobertos({}) = {}
  BY Coberta

(* Summaries and replaced turns stay as they are, and none is begun. *)
Calmos ==
  \A x \in Mensagens :
    /\ hdl'[x].deve = hdl[x].deve
    /\ hdl'[x].pc \in {"compactar", "anotar"} =>
         hdl'[x].pc = hdl[x].pc /\ hdl'[x].lidos = hdl[x].lidos

Memoria == Janela /\ MemoriaFica /\ Copias /\ ResetEsquece

(* The turns that wait to be replaced by a summary. *)
Devidos == UNION {hdl[m].deve : m \in Mensagens}

(* A step that touches neither the turns nor a summary. *)
LEMMA MemoriaParada ==
  ASSUME Memoria, Calmos, UNCHANGED <<historico, memoria>>
  PROVE  Memoria'
<1>1. Presentes' = Presentes /\ Lembrados' = Lembrados
  BY DEF Presentes, Lembrados
<1>2. Devidos' = Devidos
  BY DEF Calmos, Devidos
<1>3. Janela' /\ Copias'
  BY <1>1 DEF Memoria, Calmos, Janela, Copias, Resumindo
<1>4. MemoriaFica' /\ ResetEsquece'
  BY <1>1, <1>2 DEF Memoria, MemoriaFica, ResetEsquece, Devidos
<1> QED
  BY <1>3, <1>4 DEF Memoria

(* A turn is added: while a summary waits for the AI, to the window. *)
LEMMA MemoriaFala ==
  ASSUME Tabelas, Memoria, Calmos, NEW t, t.cobre = {}, adicionar(t)
  PROVE  Memoria'
<1>1. /\ memoria'.escritos = memoria.escritos \cup {t}
      /\ memoria'.apagados = memoria.apagados \ {t}
      /\ memoria'.janela = IF ResumoAberto THEN memoria.janela \cup {t} ELSE memoria.janela
      /\ memoria'.copiados = memoria.copiados
      /\ Presentes' = Presentes \cup {t}
  BY Escreve
<1>2. Lembrados' = Lembrados \cup {t}
  <2>1. Cobertos({t}) = {t}
    BY CobertosDeUm
  <2>2. Lembrados' = Cobertos(Presentes \cup {t})
    BY <1>1 DEF Lembrados
  <2> QED
    BY <2>1, <2>2, CobertosUne DEF Lembrados
<1>3. Devidos' = Devidos
  BY DEF Calmos, Devidos
<1>4. Janela'
  <2> SUFFICES ASSUME NEW m \in Mensagens, hdl'[m].pc = "compactar"
               PROVE  Presentes' \subseteq hdl'[m].lidos \cup memoria'.janela
    BY DEF Janela
  <2>1. hdl[m].pc = "compactar" /\ hdl'[m].lidos = hdl[m].lidos
    BY DEF Calmos
  <2>2. ResumoAberto
    BY <2>1 DEF ResumoAberto
  <2> QED
    BY <1>1, <2>1, <2>2 DEF Memoria, Janela
<1>5. MemoriaFica'
  <2>1. Cobertos(memoria.janela) \subseteq Cobertos(memoria'.janela)
    BY <1>1, CobertosSobe
  <2> QED
    BY <1>1, <1>2, <1>3, <2>1 DEF Memoria, MemoriaFica, Devidos
<1>6. Copias'
  BY <1>1 DEF Memoria, Calmos, Copias, Resumindo
<1>7. ResetEsquece'
  BY <1>1, <1>2 DEF Memoria, ResetEsquece
<1> QED
  BY <1>4, <1>5, <1>6, <1>7 DEF Memoria

(* A reset: what the summaries have read counts as copied. *)
LEMMA MemoriaLimpa ==
  ASSUME Tabelas, Memoria, Calmos, limpar
  PROVE  Memoria'
<1>1. /\ memoria'.escritos = memoria.escritos /\ memoria'.janela = memoria.janela
      /\ memoria'.apagados = memoria.apagados \cup Lembrados
      /\ memoria'.copiados = memoria.copiados \cup EmResumo
      /\ Presentes' = {}
  BY Limpa
<1>2. Lembrados' = {}
  BY <1>1, CobertosVazio DEF Lembrados
<1>3. Devidos' = Devidos
  BY DEF Calmos, Devidos
<1>4. Janela'
  BY <1>1 DEF Janela
<1>5. MemoriaFica'
  BY <1>1, <1>3 DEF Memoria, MemoriaFica, Devidos
<1>6. Copias'
  <2> SUFFICES ASSUME NEW m \in Mensagens, hdl'[m].pc \in {"compactar", "anotar"}
               PROVE  Cobertos(hdl'[m].lidos) \subseteq memoria'.copiados
    BY DEF Copias, Resumindo
  <2>1. m \in Resumindo /\ hdl'[m].lidos = hdl[m].lidos
    BY DEF Calmos, Resumindo
  <2>2. hdl[m].lidos \subseteq UNION {hdl[x].lidos : x \in Resumindo}
    BY <2>1
  <2> QED
    BY <1>1, <2>1, <2>2, CobertosSobe DEF EmResumo
<1>7. ResetEsquece'
  BY <1>2 DEF ResetEsquece
<1> QED
  BY <1>4, <1>5, <1>6, <1>7 DEF Memoria

---------------------------------------------------------------------------
(* Nobody takes the settings, or changes them. *)
Quietos ==
  /\ UNCHANGED <<config, ajustes, tipo>>
  /\ recebidas \subseteq recebidas'
  /\ faltas'.avarias = 0 => faltas.avarias = 0
  /\ \A x \in Mensagens :
       /\ Gravando(x)' => /\ Gravando(x) /\ hdl'[x].cfg = hdl[x].cfg
                          /\ hdl'[x].pc = "padrao" => hdl[x].pc = "padrao"
       /\ hdl'[x].pc = "salvar" => tipo[x] \in Ajustes
       /\ faltas'.avarias = 0 /\ Aceita(x)' =>
            Aceita(x) \/ x \in recebidas' \ ajustes.obedecidos

(* A step that leaves the settings alone. *)
LEMMA OrdemParada ==
  ASSUME Ordem, UltimoAjusteVence, Quietos
  PROVE  Ordem' /\ UltimoAjusteVence'
<1>1. ~ajustes'.cruzados => \A x \in Mensagens : Gravando(x)' => Sozinho(x)'
  BY DEF Ordem, Quietos, Sozinho
<1>2. faltas'.avarias = 0 => UmaVez'
  BY DEF Ordem, Quietos, UmaVez
<1>3. Ordem'
  BY <1>1, <1>2 DEF Ordem, Obedecidos, Quietos
<1>4. UltimoAjusteVence'
  BY DEF UltimoAjusteVence, Vigente, Quietos
<1> QED
  BY <1>3, <1>4

(* A handler that moves on to a point where it neither begins a summary    *)
(* nor holds the settings. *)
LEMMA Sai ==
  ASSUME Processos, Ordem, UNCHANGED <<config, ajustes, tipo>>,
         recebidas \subseteq recebidas', faltas'.avarias = 0 => faltas.avarias = 0,
         NEW m \in Mensagens,
         NEW pc \in Passos \ {"config", "padrao", "historico", "salvar", "compactar", "anotar"},
         Vai(m, pc)
  PROVE  Calmos /\ Quietos
<1>1. Calmos
  BY Anda DEF Calmos
<1>2. \A x \in Mensagens : hdl'[x] = hdl[x] \/ hdl'[x].pc = pc
  BY Anda
<1> QED
  BY <1>1, <1>2 DEF Quietos, Gravando, Aceita, Ordem, Ajustes

---------------------------------------------------------------------------
(* What every step of a process keeps. *)
Salvo == Tabelas /\ Processos /\ Memoria /\ Ordem /\ UltimoAjusteVence

(* Where a handler may go without holding the settings or a summary. *)
Soltos == Passos \ {"config", "padrao", "historico", "salvar", "compactar", "anotar"}

(* Handlers move, and the tables stay as they are. *)
LEMMA TabelasParadas ==
  ASSUME Salvo, Nada, Calmos, Quietos, hdl' \in [Mensagens -> Tratador],
         faltas' \in [avarias : Nat, reinicios : Nat, mortes : Nat]
  PROVE  Salvo'
<1>1. UNCHANGED <<historico, config, recebidas, memoria, ajustes, tipo>>
  BY DEF Nada, tabelas, Quietos
<1>2. Memoria' /\ Ordem' /\ UltimoAjusteVence'
  BY <1>1, MemoriaParada, OrdemParada DEF Salvo
<1>3. Tabelas' /\ Tratador' = Tratador
  BY <1>1 DEF Salvo, Tabelas, Tratador
<1>4. Processos'
  BY <1>1, <1>3 DEF Salvo, Processos
<1> QED
  BY <1>2, <1>3, <1>4 DEF Salvo

(* A handler only moves on. *)
LEMMA Move ==
  ASSUME Salvo, NEW m \in Mensagens, NEW pc \in Soltos, Nada, Vai(m, pc), UNCHANGED tipo,
         faltas' \in [avarias : Nat, reinicios : Nat, mortes : Nat],
         faltas'.avarias = 0 => faltas.avarias = 0
  PROVE  Salvo'
<1>1. UNCHANGED <<historico, config, recebidas, memoria, ajustes>>
  BY DEF Nada, tabelas
<1>2. Calmos /\ Quietos
  BY <1>1, Sai DEF Salvo, Soltos
<1>3. hdl' \in [Mensagens -> Tratador]
  BY Anda DEF Salvo, Soltos
<1> QED
  BY <1>2, <1>3, TabelasParadas

(* It gives up, goes on having changed nothing, or fails a statement. *)
LEMMA MoveCerto ==
  ASSUME Salvo, NEW m \in Mensagens, NEW pc \in Soltos, Nada, Vai(m, pc), UNCHANGED tipo,
         UNCHANGED faltas \/ Avaria
  PROVE  Salvo'
<1>1. /\ faltas' \in [avarias : Nat, reinicios : Nat, mortes : Nat]
      /\ faltas'.avarias = 0 => faltas.avarias = 0
  BY Falhas DEF Salvo, Processos
<1> QED
  BY <1>1, Move

(* It gives up. *)
LEMMA MoveFim ==
  ASSUME Salvo, NEW m \in Mensagens, Desiste(m), UNCHANGED tipo
  PROVE  Salvo'
  BY MoveCerto DEF Desiste, Soltos, Passos

(* A turn is written. *)
LEMMA Escrita ==
  ASSUME Salvo, NEW m \in Mensagens, NEW papel, NEW abre,
         NEW certo \in Soltos, NEW errado \in Soltos,
         Tenta(m, adicionar(Fala(papel, m, abre)), certo, errado), UNCHANGED tipo
  PROVE  Salvo'
<1>1. CASE adicionar(Fala(papel, m, abre)) /\ Vai(m, certo) /\ UNCHANGED faltas
  <2>1. Fala(papel, m, abre).cobre = {}
    BY DEF Fala
  <2>2. UNCHANGED <<config, recebidas, ajustes>>
    BY <1>1 DEF adicionar
  <2>3. Calmos /\ Quietos
    BY <1>1, <2>2, Sai DEF Salvo, Soltos
  <2>4. Memoria'
    BY <1>1, <2>1, <2>3, MemoriaFala DEF Salvo
  <2>5. Ordem' /\ UltimoAjusteVence'
    BY <2>3, OrdemParada DEF Salvo
  <2>6. Tabelas' /\ memoria.escritos \subseteq memoria'.escritos
    BY <1>1, Escreve DEF Salvo
  <2>7. hdl' \in [Mensagens -> Tratador] /\ Tratador \subseteq Tratador'
    BY <1>1, <2>6, Anda DEF Salvo, Soltos, Tratador
  <2>8. Processos'
    BY <1>1, <2>7 DEF Salvo, Processos
  <2> QED
    BY <2>4, <2>5, <2>6, <2>8 DEF Salvo
<1>2. CASE Avaria /\ Nada /\ Vai(m, errado)
  BY <1>2, MoveCerto
<1> QED
  BY <1>1, <1>2 DEF Tenta

(* Recording a question, an answer or a medium keeps what must be kept. *)
LEMMA Escritas ==
  ASSUME Salvo, NEW m \in Mensagens, UNCHANGED tipo,
         \/ GravarPergunta(m) \/ GravarResposta(m) \/ enfileirar_midia(m)
         \/ Descrever(m) \/ GravarDescricao(m)
  PROVE  Salvo'
<1>0. {"pergunta", "resposta", "fim", "descrever", "descricao"} \subseteq Soltos
  BY DEF Soltos, Passos
<1>1. CASE GravarPergunta(m)
  BY <1>0, <1>1, MoveFim, Escrita DEF GravarPergunta
<1>2. CASE GravarResposta(m)
  BY <1>0, <1>2, Escrita DEF GravarResposta
<1>3. CASE enfileirar_midia(m)
  BY <1>0, <1>3, Escrita DEF enfileirar_midia
<1>4. CASE Descrever(m)
  BY <1>0, <1>4, MoveFim, Escrita DEF Descrever
<1>5. CASE GravarDescricao(m)
  BY <1>0, <1>5, Escrita DEF GravarDescricao
<1> QED
  BY <1>1, <1>2, <1>3, <1>4, <1>5

(* A reset clears the chat. *)
LEMMA Limpeza ==
  ASSUME Salvo, NEW m \in Mensagens, LimparHistorico(m), UNCHANGED tipo
  PROVE  Salvo'
<1>0. "fim" \in Soltos
  BY DEF Soltos, Passos
<1>1. CASE limpar /\ Vai(m, "fim") /\ UNCHANGED faltas
  <2>2. UNCHANGED <<config, recebidas, ajustes>>
    BY <1>1 DEF limpar, apagar_turnos
  <2>3. Calmos /\ Quietos
    BY <1>0, <1>1, <2>2, Sai DEF Salvo, Soltos
  <2>4. Memoria'
    BY <1>1, <2>3, MemoriaLimpa DEF Salvo
  <2>5. Ordem' /\ UltimoAjusteVence'
    BY <2>3, OrdemParada DEF Salvo
  <2>6. Tabelas' /\ memoria.escritos = memoria'.escritos
    BY <1>1, Limpa DEF Salvo
  <2>7. hdl' \in [Mensagens -> Tratador] /\ Tratador \subseteq Tratador'
    BY <1>0, <1>1, <2>6, Anda DEF Salvo, Soltos, Tratador
  <2>8. Processos'
    BY <1>1, <2>7 DEF Salvo, Processos
  <2> QED
    BY <2>4, <2>5, <2>6, <2>8 DEF Salvo
<1>2. CASE Avaria /\ Nada /\ Vai(m, "fim")
  BY <1>0, <1>2, MoveCerto
<1> QED
  BY <1>1, <1>2 DEF LimparHistorico, Tenta

(* A summary reads the history. *)
LEMMA Leitura ==
  ASSUME Salvo, NEW m \in Mensagens, LerParaResumo(m), UNCHANGED tipo
  PROVE  Salvo'
<1>0. "fim" \in Soltos
  BY DEF Soltos, Passos
<1>1. CASE Avaria /\ Nada /\ Vai(m, "fim")
  BY <1>0, <1>1, MoveCerto
<1>2. CASE Desiste(m)
  BY <1>2, MoveFim
<1>3. CASE Nada /\ UNCHANGED faltas /\ Vai(m, "fim")
  BY <1>0, <1>3, MoveCerto
<1>4. CASE /\ hdl' = [hdl EXCEPT ![m].pc = "compactar", ![m].lidos = Presentes]
           /\ Nada /\ UNCHANGED faltas
  <2>1. UNCHANGED <<historico, config, recebidas, memoria, ajustes>>
    BY <1>4 DEF Nada, tabelas
  <2>2. hdl[m] \in Tratador /\ hdl \in [Mensagens -> Tratador]
    BY DEF Salvo, Processos
  <2>3. Presentes \subseteq memoria.escritos
    BY LenProperties, ElementOfSeq DEF Salvo, Tabelas, Presentes, ToSet
  <2>4. /\ hdl'[m].pc = "compactar" /\ hdl'[m].lidos = Presentes
        /\ hdl'[m].deve = hdl[m].deve /\ hdl'[m] \in Tratador
        /\ \A x \in Mensagens \ {m} : hdl'[x] = hdl[x]
        /\ hdl' \in [Mensagens -> Tratador]
    BY <1>4, <2>2, <2>3 DEF Tratador, Passos
  <2>5. Presentes' = Presentes /\ Lembrados' = Lembrados
    BY <2>1 DEF Presentes, Lembrados
  <2>6. Devidos' = Devidos
    BY <2>4 DEF Devidos
  <2>7. Janela'
    BY <2>1, <2>4, <2>5 DEF Salvo, Memoria, Janela
  <2>8. MemoriaFica' /\ ResetEsquece'
    BY <2>1, <2>5, <2>6 DEF Salvo, Memoria, MemoriaFica, ResetEsquece, Devidos
  <2>9. Copias'
    <3>1. Cobertos(Presentes) \cap memoria.apagados \subseteq memoria.copiados
      BY DEF Salvo, Memoria, ResetEsquece, Lembrados
    <3> QED
      BY <2>1, <2>4, <3>1 DEF Salvo, Memoria, Copias, Resumindo
  <2>10. Quietos
    BY <1>4, <2>1, <2>4 DEF Salvo, Quietos, Gravando, Aceita, Ordem
  <2>11. Ordem' /\ UltimoAjusteVence'
    BY <2>10, OrdemParada DEF Salvo
  <2>12. Tabelas' /\ Tratador' = Tratador
    BY <2>1 DEF Salvo, Tabelas, Tratador
  <2>13. Processos'
    BY <1>4, <2>4, <2>12 DEF Salvo, Processos
  <2> QED
    BY <2>7, <2>8, <2>9, <2>11, <2>12, <2>13 DEF Salvo, Memoria
<1> QED
  BY <1>1, <1>2, <1>3, <1>4 DEF LerParaResumo

(* A summary clears the chat: what it has not read was written meanwhile. *)
LEMMA Compactacao ==
  ASSUME Salvo, NEW m \in Mensagens, Compactar(m), UNCHANGED tipo
  PROVE  Salvo'
<1>0. "fim" \in Soltos
  BY DEF Soltos, Passos
<1>1. CASE Avaria /\ Nada /\ Vai(m, "fim")
  BY <1>0, <1>1, MoveCerto
<1>2. CASE Desiste(m)
  BY <1>2, MoveFim
<1>3. CASE /\ apagar_turnos
           /\ hdl' = [hdl EXCEPT ![m].pc = "anotar", ![m].deve = @ \cup hdl[m].lidos]
           /\ UNCHANGED <<memoria, filas, faltas>>
  <2>1. hdl[m].pc = "compactar"
    BY DEF Compactar
  <2>2. historico' = <<>> /\ UNCHANGED <<config, recebidas, memoria, ajustes, faltas>>
    BY <1>3 DEF apagar_turnos
  <2>3. hdl[m] \in Tratador /\ hdl \in [Mensagens -> Tratador]
    BY DEF Salvo, Processos
  <2>4. /\ hdl'[m].pc = "anotar" /\ hdl'[m].lidos = hdl[m].lidos
        /\ hdl'[m].deve = hdl[m].deve \cup hdl[m].lidos /\ hdl'[m] \in Tratador
        /\ \A x \in Mensagens \ {m} : hdl'[x] = hdl[x]
        /\ hdl' \in [Mensagens -> Tratador]
    BY <1>3, <2>3 DEF Tratador, Passos
  <2>5. Presentes' = {}
    BY <2>2 DEF Presentes, ToSet
  <2>6. Lembrados' = {}
    BY <2>5, CobertosVazio DEF Lembrados
  <2>7. Devidos' = Devidos \cup hdl[m].lidos
    BY <2>4 DEF Devidos
  <2>8. Lembrados \subseteq Cobertos(hdl[m].lidos) \cup Cobertos(memoria.janela)
    <3>1. Presentes \subseteq hdl[m].lidos \cup memoria.janela
      BY <2>1 DEF Salvo, Memoria, Janela
    <3>2. Cobertos(Presentes) \subseteq Cobertos(hdl[m].lidos \cup memoria.janela)
      BY <3>1, CobertosSobe
    <3> QED
      BY <3>2, CobertosUne DEF Lembrados
  <2>9. MemoriaFica'
    <3>1. Cobertos(Devidos') = Cobertos(Devidos) \cup Cobertos(hdl[m].lidos)
      BY <2>7, CobertosUne
    <3> QED
      BY <2>2, <2>6, <2>8, <3>1 DEF Salvo, Memoria, MemoriaFica, Devidos
  <2>10. Janela' /\ ResetEsquece'
    BY <2>5, <2>6 DEF Janela, ResetEsquece
  <2>11. Copias'
    BY <2>1, <2>2, <2>4 DEF Salvo, Memoria, Copias, Resumindo
  <2>12. Quietos
    BY <2>2, <2>4 DEF Salvo, Quietos, Gravando, Aceita, Ordem
  <2>13. Ordem' /\ UltimoAjusteVence'
    BY <2>12, OrdemParada DEF Salvo
  <2>14. Tabelas' /\ Tratador' = Tratador
    BY <2>2, EmptySeq DEF Salvo, Tabelas, Tratador
  <2>15. Processos'
    BY <2>2, <2>4, <2>14 DEF Salvo, Processos
  <2> QED
    BY <2>9, <2>10, <2>11, <2>13, <2>14, <2>15 DEF Salvo, Memoria
<1> QED
  BY <1>1, <1>2, <1>3 DEF Compactar

(* The summary is written: it stands for what was owed. *)
LEMMA Anotacao ==
  ASSUME Salvo, NEW m \in Mensagens, Anotar(m), UNCHANGED tipo
  PROVE  Salvo'
<1>0. "fim" \in Soltos
  BY DEF Soltos, Passos
<1>1. CASE Avaria /\ Nada /\ Vai(m, "fim")
  BY <1>0, <1>1, MoveCerto
<1>2. ASSUME NEW abre \in BOOLEAN, adicionar(Resumo(m, abre, hdl[m].lidos)), UNCHANGED faltas,
             hdl' = [hdl EXCEPT ![m] =
               [Livre EXCEPT !.pc = "fim", !.deve = hdl[m].deve \ hdl[m].lidos]]
      PROVE  Salvo'
  <2> DEFINE t == Resumo(m, abre, hdl[m].lidos)
  <2> DEFINE livre == [Livre EXCEPT !.pc = "fim", !.deve = hdl[m].deve \ hdl[m].lidos]
  <2>1. hdl[m].pc = "anotar"
    BY DEF Anotar
  <2>2. t.cobre = Cobertos(hdl[m].lidos)
    BY DEF Resumo
  <2>3. /\ memoria'.escritos = memoria.escritos \cup {t}
        /\ memoria'.apagados = memoria.apagados \ {t}
        /\ memoria'.janela = IF ResumoAberto THEN memoria.janela \cup {t} ELSE memoria.janela
        /\ memoria'.copiados = memoria.copiados
        /\ Presentes' = Presentes \cup {t}
        /\ Tabelas'
    BY <1>2, Escreve DEF Salvo
  <2>4. hdl[m] \in Tratador /\ hdl \in [Mensagens -> Tratador]
    BY DEF Salvo, Processos
  <2>5. livre \in Tratador /\ livre.pc = "fim" /\ livre.deve = hdl[m].deve \ hdl[m].lidos
    <3>1. hdl[m].deve \ hdl[m].lidos \in SUBSET memoria.escritos /\ "fim" \in Passos
      BY <2>4 DEF Tratador, Passos
    <3>2. livre \in Tratador
      BY <3>1, Valor
    <3> QED
      BY <3>2 DEF Livre
  <2>6. /\ hdl'[m] = livre
        /\ \A x \in Mensagens \ {m} : hdl'[x] = hdl[x]
        /\ hdl' \in [Mensagens -> Tratador]
    BY <1>2, <2>4, <2>5
  <2>7. Lembrados' = Lembrados \cup {t} \cup Cobertos(hdl[m].lidos)
    <3>1. Lembrados' = Cobertos(Presentes \cup {t})
      BY <2>3 DEF Lembrados
    <3>2. Cobertos({t}) = {t} \cup Cobertos(hdl[m].lidos)
      BY <2>2, CobertosDeUm
    <3> QED
      BY <3>1, <3>2, CobertosUne DEF Lembrados
  <2>8. Devidos \subseteq Devidos' \cup hdl[m].lidos
    <3> SUFFICES ASSUME NEW x \in Mensagens, NEW c \in hdl[x].deve, c \notin hdl[m].lidos
                 PROVE  c \in hdl'[x].deve
      BY DEF Devidos
    <3> QED
      BY <2>5, <2>6
  <2>9. MemoriaFica'
    <3>1. Cobertos(Devidos) \subseteq Cobertos(Devidos') \cup Cobertos(hdl[m].lidos)
      <4>1. Cobertos(Devidos) \subseteq Cobertos(Devidos' \cup hdl[m].lidos)
        BY <2>8, CobertosSobe
      <4> QED
        BY <4>1, CobertosUne
    <3>2. Cobertos(memoria.janela) \subseteq Cobertos(memoria'.janela)
      BY <2>3, CobertosSobe
    <3> QED
      BY <2>3, <2>7, <3>1, <3>2 DEF Salvo, Memoria, MemoriaFica, Devidos
  <2>10. Janela'
    <3> SUFFICES ASSUME NEW x \in Mensagens, hdl'[x].pc = "compactar"
                 PROVE  Presentes' \subseteq hdl'[x].lidos \cup memoria'.janela
      BY DEF Janela
    <3>1. hdl[x].pc = "compactar" /\ hdl'[x].lidos = hdl[x].lidos
      BY <2>5, <2>6
    <3>2. ResumoAberto
      BY <3>1 DEF ResumoAberto
    <3> QED
      BY <2>3, <3>1, <3>2 DEF Salvo, Memoria, Janela
  <2>11. Copias'
    <3> SUFFICES ASSUME NEW x \in Mensagens, hdl'[x].pc \in {"compactar", "anotar"}
                 PROVE  Cobertos(hdl'[x].lidos) \cap memoria'.apagados \subseteq memoria'.copiados
      BY DEF Copias, Resumindo
    <3>1. hdl'[x] = hdl[x]
      BY <2>5, <2>6
    <3> QED
      BY <2>3, <3>1 DEF Salvo, Memoria, Copias, Resumindo
  <2>12. ResetEsquece'
    <3>1. Cobertos(hdl[m].lidos) \cap memoria.apagados \subseteq memoria.copiados
      BY <2>1 DEF Salvo, Memoria, Copias, Resumindo
    <3> QED
      BY <2>3, <2>7, <3>1 DEF Salvo, Memoria, ResetEsquece
  <2>13. Quietos
    <3>1. UNCHANGED <<config, recebidas, ajustes, faltas>>
      BY <1>2 DEF adicionar
    <3> QED
      BY <2>5, <2>6, <3>1 DEF Salvo, Quietos, Gravando, Aceita, Ordem
  <2>14. Ordem' /\ UltimoAjusteVence'
    BY <2>13, OrdemParada DEF Salvo
  <2>15. Processos'
    <3>1. Tratador \subseteq Tratador'
      BY <2>3 DEF Tratador
    <3> QED
      BY <1>2, <2>6, <3>1 DEF Salvo, Processos
  <2> QED
    BY <2>3, <2>9, <2>10, <2>11, <2>12, <2>14, <2>15 DEF Salvo, Memoria
<1> QED
  BY <1>1, <1>2 DEF Anotar

(* A message is accepted once: the table knows it from then on. *)
LEMMA Aceitacao ==
  ASSUME Salvo, NEW m \in Mensagens, Aceitar(m), UNCHANGED tipo
  PROVE  Salvo'
<1>0. "fim" \in Soltos /\ "config" \in Passos
  BY DEF Soltos, Passos
<1>1. CASE Desiste(m)
  BY <1>1, MoveFim
<1>2. ASSUME NEW pc \in {"config", "fim"}, Vai(m, pc),
             \/ marcar_recebida(m) /\ ~ja_processada(m) /\ UNCHANGED faltas
             \/ Nada /\ Avaria
      PROVE  Salvo'
  <2>1. /\ UNCHANGED <<historico, config, memoria, ajustes>>
        /\ recebidas \subseteq recebidas' /\ recebidas' \subseteq Mensagens
    BY <1>2 DEF marcar_recebida, Nada, tabelas, Salvo, Tabelas
  <2>2. /\ hdl' \in [Mensagens -> Tratador] /\ hdl'[m].pc = pc
        /\ hdl'[m].deve = hdl[m].deve
        /\ \A x \in Mensagens \ {m} : hdl'[x] = hdl[x]
    BY <1>0, <1>2, Anda DEF Salvo, Soltos
  <2>3. Calmos
    BY <2>2 DEF Calmos
  <2>4. /\ faltas' \in [avarias : Nat, reinicios : Nat, mortes : Nat]
        /\ faltas'.avarias = 0 => UNCHANGED faltas /\ m \in recebidas' \ recebidas
    BY <1>2, Falhas DEF Salvo, Processos, marcar_recebida, ja_processada
  <2>5. Quietos
    <3>1. faltas'.avarias = 0 => m \notin ajustes.obedecidos
      BY <2>4 DEF Salvo, Ordem, UmaVez
    <3> QED
      BY <2>1, <2>2, <2>4, <3>1 DEF Salvo, Quietos, Gravando, Aceita, Ordem
  <2>6. Memoria' /\ Ordem' /\ UltimoAjusteVence'
    BY <2>1, <2>3, <2>5, MemoriaParada, OrdemParada DEF Salvo
  <2>7. Tabelas' /\ Tratador' = Tratador
    BY <2>1 DEF Salvo, Tabelas, Tratador
  <2>8. Processos'
    BY <2>2, <2>4, <2>7 DEF Salvo, Processos
  <2> QED
    BY <2>6, <2>7, <2>8 DEF Salvo
<1> QED
  BY <1>1, <1>2 DEF Aceitar, Tenta

---------------------------------------------------------------------------
(* The settings. *)

(* A handler reads the settings: it is the only one that holds them, or    *)
(* the crossing is on record.                                              *)
LEMMA Leitor ==
  ASSUME Salvo, NEW m \in Mensagens, LerConfig(m), UNCHANGED tipo
  PROVE  Salvo'
<1>0. "fim" \in Soltos
  BY DEF Soltos, Passos
<1>1. CASE Avaria /\ Nada /\ Vai(m, "fim")
  BY <1>0, <1>1, MoveCerto
<1>2. ASSUME NEW pc, pc = IF config.existe THEN "historico" ELSE "padrao",
             hdl' = [hdl EXCEPT ![m].pc = pc, ![m].cfg = config.valor],
             ajustes' = [ajustes EXCEPT !.cruzados = @ \/
               /\ pc = "padrao" \/ tipo[m] \in Ajustes
               /\ \E x \in Mensagens : Gravando(x)],
             UNCHANGED <<historico, config, recebidas, memoria, filas, faltas>>
      PROVE  Salvo'
  <2>1. hdl[m] \in Tratador /\ hdl \in [Mensagens -> Tratador] /\ config.valor \in Valores
    BY DEF Salvo, Processos, Tabelas
  <2>2. /\ hdl'[m].pc = pc /\ hdl'[m].cfg = config.valor
        /\ hdl'[m].deve = hdl[m].deve /\ hdl'[m] \in Tratador
        /\ \A x \in Mensagens \ {m} : hdl'[x] = hdl[x]
        /\ hdl' \in [Mensagens -> Tratador]
    BY <1>2, <2>1 DEF Tratador, Passos
  <2>3. hdl[m].pc = "config"
    BY DEF LerConfig
  <2>4. Memoria'
    BY <1>2, <2>2, MemoriaParada DEF Salvo, Calmos
  <2>5. /\ ajustes'.ultimo = ajustes.ultimo /\ ajustes'.obedecidos = ajustes.obedecidos
        /\ ~ajustes'.cruzados =>
             /\ ~ajustes.cruzados
             /\ pc = "padrao" \/ tipo[m] \in Ajustes => \A x \in Mensagens : ~Gravando(x)
        /\ ajustes'.vencidos = ajustes.vencidos /\ ajustes' \in Ajustado
    BY <1>2 DEF Salvo, Tabelas, Ajustado
  <2>6. ~ajustes'.cruzados => \A x \in Mensagens : Gravando(x)' => Sozinho(x)'
    <3> SUFFICES ASSUME ~ajustes'.cruzados, NEW x \in Mensagens, Gravando(x)'
                 PROVE  Sozinho(x)'
      OBVIOUS
    <3>1. CASE pc = "padrao" \/ tipo[m] \in Ajustes
      <4>1. \A y \in Mensagens : Gravando(y)' => y = m
        BY <1>2, <2>2, <2>5, <3>1 DEF Gravando
      <4> QED
        BY <1>2, <2>2, <4>1 DEF Sozinho
    <3>2. CASE pc # "padrao" /\ tipo[m] \notin Ajustes
      <4>1. ~Gravando(m)' /\ \A y \in Mensagens : Gravando(y)' => Gravando(y) /\ y # m
        BY <2>2, <3>2 DEF Gravando
      <4>2. x # m /\ Sozinho(x)
        BY <2>5, <4>1 DEF Salvo, Ordem
      <4> QED
        BY <1>2, <2>2, <4>1, <4>2 DEF Sozinho
    <3> QED
      BY <3>1, <3>2
  <2>7. Ordem'
    <3>1. \A x \in Mensagens : hdl'[x].pc = "salvar" => tipo'[x] \in Ajustes
      BY <1>2, <2>2 DEF Salvo, Ordem
    <3>2. faltas'.avarias = 0 => UmaVez'
      BY <1>2, <2>2, <2>3, <2>5 DEF Salvo, Ordem, UmaVez, Aceita
    <3>3. Obedecidos'
      BY <2>5 DEF Salvo, Ordem, Obedecidos
    <3> QED
      BY <1>2, <2>6, <3>1, <3>2, <3>3 DEF Salvo, Ordem
  <2>8. UltimoAjusteVence'
    BY <1>2, <2>5 DEF Salvo, UltimoAjusteVence, Vigente
  <2>9. Tabelas' /\ Tratador' = Tratador
    BY <1>2, <2>5 DEF Salvo, Tabelas, Tratador
  <2>10. Processos'
    BY <1>2, <2>2, <2>9 DEF Salvo, Processos
  <2> QED
    BY <2>4, <2>7, <2>8, <2>9, <2>10 DEF Salvo
<1> QED
  BY <1>1, <1>2 DEF LerConfig

(* A chat without a row gets the default one: nobody chose anything yet.   *)
LEMMA Insercao ==
  ASSUME Salvo, NEW m \in Mensagens, inserir_padrao(m), UNCHANGED tipo
  PROVE  Salvo'
<1>0. "fim" \in Soltos /\ "historico" \in Passos
  BY DEF Soltos, Passos
<1>1. CASE Avaria /\ Nada /\ Vai(m, "fim")
  BY <1>0, <1>1, MoveCerto
<1>2. CASE salvar(padrao) /\ UNCHANGED <<ajustes, faltas>> /\ Vai(m, "historico")
  <2>1. /\ config' = [existe |-> TRUE, valor |-> padrao]
        /\ UNCHANGED <<historico, recebidas, memoria, ajustes, faltas>>
    BY <1>2 DEF salvar
  <2>2. /\ hdl' \in [Mensagens -> Tratador] /\ hdl'[m].pc = "historico"
        /\ hdl'[m].deve = hdl[m].deve /\ hdl'[m].cfg = hdl[m].cfg
        /\ \A x \in Mensagens \ {m} : hdl'[x] = hdl[x]
    BY <1>0, <1>2, Anda DEF Salvo
  <2>3. hdl[m].pc = "padrao" /\ Gravando(m)
    BY DEF inserir_padrao, Gravando
  <2>4. Memoria'
    BY <2>1, <2>2, MemoriaParada DEF Salvo, Calmos
  <2>5. ~ajustes.cruzados => Sozinho(m) /\ config'.valor = config.valor
    BY <2>1, <2>3 DEF Salvo, Ordem, Sozinho
  <2>6. ~ajustes'.cruzados => \A x \in Mensagens : Gravando(x)' => Sozinho(x)'
    <3> SUFFICES ASSUME ~ajustes.cruzados, NEW x \in Mensagens, Gravando(x)'
                 PROVE  Sozinho(x)'
      BY <2>1
    <3>1. \A y \in Mensagens : Gravando(y)' => y = m
      BY <2>2, <2>5 DEF Gravando, Sozinho
    <3> QED
      BY <2>2, <2>5, <3>1 DEF Sozinho
  <2>7. Ordem'
    <3>1. \A x \in Mensagens : hdl'[x].pc = "salvar" => tipo'[x] \in Ajustes
      BY <2>2 DEF Salvo, Ordem
    <3>2. faltas'.avarias = 0 => UmaVez'
      BY <2>1, <2>2, <2>3 DEF Salvo, Ordem, UmaVez, Aceita
    <3>3. Obedecidos'
      BY <2>1 DEF Salvo, Ordem, Obedecidos
    <3> QED
      BY <2>1, <2>6, <3>1, <3>2, <3>3 DEF Ordem
  <2>8. UltimoAjusteVence'
    BY <2>1, <2>5 DEF Salvo, UltimoAjusteVence, Vigente
  <2>9. Tabelas' /\ Tratador' = Tratador
    BY <2>1, Valor DEF Salvo, Tabelas, Tratador
  <2>10. Processos'
    BY <2>1, <2>2, <2>9 DEF Salvo, Processos
  <2> QED
    BY <2>4, <2>7, <2>8, <2>9, <2>10 DEF Salvo
<1> QED
  BY <1>1, <1>2 DEF inserir_padrao, Tenta

(* A command on the settings keeps holding them. *)
LEMMA Decisao ==
  ASSUME Salvo, NEW m \in Mensagens, Decidir(m), UNCHANGED tipo
  PROVE  Salvo'
<1>0. "salvar" \in Passos /\ {"fim", "enfileirar", "ler", "pergunta"} \subseteq Soltos
  BY DEF Soltos, Passos
<1>1. CASE Avaria /\ Nada /\ Vai(m, "fim")
  BY <1>0, <1>1, MoveCerto
<1>2. ASSUME NEW pc \in {"fim", "enfileirar", "ler", "pergunta"},
             Nada, Vai(m, pc), UNCHANGED faltas
      PROVE  Salvo'
  BY <1>0, <1>2, MoveCerto
<1>3. CASE Nada /\ Vai(m, "salvar") /\ UNCHANGED faltas /\ tipo[m] \in Ajustes
  <2>1. UNCHANGED <<historico, config, recebidas, memoria, ajustes>>
    BY <1>3 DEF Nada, tabelas
  <2>2. /\ hdl' \in [Mensagens -> Tratador] /\ hdl'[m].pc = "salvar"
        /\ hdl'[m].deve = hdl[m].deve /\ hdl'[m].cfg = hdl[m].cfg
        /\ \A x \in Mensagens \ {m} : hdl'[x] = hdl[x]
    BY <1>0, <1>3, Anda DEF Salvo
  <2>3. hdl[m].pc = "historico"
    BY DEF Decidir
  <2>4. Calmos
    BY <2>2 DEF Calmos
  <2>5. Quietos
    BY <1>3, <2>1, <2>2, <2>3 DEF Salvo, Quietos, Gravando, Aceita, Ordem
  <2> QED
    BY <1>3, <2>2, <2>4, <2>5, TabelasParadas DEF Salvo, Processos
<1> QED
  BY <1>1, <1>2, <1>3 DEF Decidir, Tenta

(* A command is obeyed: the only holder writes what it read, with its own  *)
(* field changed, and that is what obeying it after the others means.      *)
LEMMA Ajuste ==
  ASSUME Salvo, NEW m \in Mensagens, SalvarConfig(m), UNCHANGED tipo
  PROVE  Salvo'
<1>0. {"limpar", "fim"} \subseteq Soltos
  BY DEF Soltos, Passos
<1>1. ASSUME NEW pc \in {"limpar", "fim"}, Avaria, Nada, Vai(m, pc)
      PROVE  Salvo'
  BY <1>0, <1>1, MoveCerto
<1>2. ASSUME NEW pc \in {"limpar", "fim"}, salvar_ajuste(m), Vai(m, pc), UNCHANGED faltas
      PROVE  Salvo'
  <2> DEFINE novo(velho) == [c \in DOMAIN velho |->
                               IF c \notin campo[tipo[m]] THEN velho[c]
                               ELSE IF tipo[m] = "reset" THEN 0 ELSE m]
  <2>1. /\ config' = [existe |-> TRUE, valor |-> novo(hdl[m].cfg)]
        /\ UNCHANGED <<historico, recebidas, memoria, faltas>>
        /\ ajustes' = [ajustes EXCEPT
             !.ultimo = IF m \in ajustes.obedecidos THEN @ ELSE novo(@),
             !.obedecidos = @ \cup {m}]
    BY <1>2 DEF salvar_ajuste, salvar
  <2>2. \A v \in Valores :
          /\ novo(v) \in Valores
          /\ \A c \in campo.reset : novo(v)[c] = IF c \notin campo[tipo[m]] THEN v[c]
                                              ELSE IF tipo[m] = "reset" THEN 0 ELSE m
    BY DEF Valores
  <2>3. /\ hdl' \in [Mensagens -> Tratador] /\ hdl'[m].pc = pc
        /\ hdl'[m].deve = hdl[m].deve
        /\ \A x \in Mensagens \ {m} : hdl'[x] = hdl[x]
    BY <1>0, <1>2, Anda DEF Salvo, Soltos
  <2>4. hdl[m].pc = "salvar" /\ Gravando(m) /\ Aceita(m)
    BY DEF SalvarConfig, Gravando, Aceita, Salvo, Ordem
  <2>5. Memoria'
    BY <2>1, <2>3, MemoriaParada DEF Salvo, Calmos
  <2>6. hdl[m].cfg \in Valores /\ ajustes.ultimo \in Valores
    BY DEF Salvo, Processos, Tratador, Tabelas, Ajustado
  <2> HIDE DEF novo
  <2>7. Tabelas' /\ Tratador' = Tratador
    BY <2>1, <2>2, <2>6 DEF Salvo, Tabelas, Tratador, Ajustado
  <2>8. /\ ajustes'.cruzados = ajustes.cruzados
        /\ ajustes'.vencidos = ajustes.vencidos
        /\ ajustes'.obedecidos = ajustes.obedecidos \cup {m}
        /\ ajustes'.ultimo = IF m \in ajustes.obedecidos THEN ajustes.ultimo
                             ELSE novo(ajustes.ultimo)
    BY <2>1 DEF Salvo, Tabelas, Ajustado
  <2>9. ~ajustes'.cruzados => \A x \in Mensagens : ~Gravando(x)'
    BY <1>2, <2>3, <2>4, <2>8 DEF Salvo, Ordem, Sozinho, Gravando
  <2>10. Ordem'
    <3>1. \A x \in Mensagens : hdl'[x].pc = "salvar" => tipo'[x] \in Ajustes
      BY <2>3 DEF Salvo, Ordem
    <3>2. faltas'.avarias = 0 => UmaVez'
      BY <1>2, <2>1, <2>3, <2>4, <2>8 DEF Salvo, Ordem, UmaVez, Aceita
    <3>3. Obedecidos'
      BY <1>2, <2>2, <2>6, <2>8 DEF Salvo, Ordem, Obedecidos
    <3> QED
      BY <2>1, <2>9, <3>1, <3>2, <3>3 DEF Ordem
  <2>11. UltimoAjusteVence'
    <3> SUFFICES ASSUME ~ajustes.cruzados, faltas.avarias = 0
                 PROVE  config'.valor = Vigente'
      BY <2>1, <2>8 DEF UltimoAjusteVence
    <3>1. hdl[m].cfg = config.valor /\ config.valor = Vigente
      BY <2>4 DEF Salvo, Ordem, Sozinho, UltimoAjusteVence
    <3>2. m \notin ajustes.obedecidos
      BY <2>4 DEF Salvo, Ordem, UmaVez
    <3>3. m \notin ajustes.vencidos /\ 0 \notin ajustes.vencidos
      BY <3>2 DEF Salvo, Ordem, Obedecidos, Tabelas, Ajustado, Mensagens
    <3>4. ajustes'.ultimo = novo(ajustes.ultimo) /\ config'.valor = novo(Vigente)
      BY <2>1, <2>8, <3>1, <3>2
    <3>5. Vigente \in Valores
      BY <2>6, <3>1
    <3>6. \A c \in campo.reset : novo(Vigente)[c] = Vigente'[c]
      BY <2>2, <2>6, <2>8, <3>3, <3>4, <3>5 DEF Vigente
    <3> QED
      BY <2>2, <3>4, <3>5, <3>6 DEF Valores, Vigente
  <2>12. Processos'
    BY <2>1, <2>3, <2>7 DEF Salvo, Processos
  <2> QED
    BY <2>5, <2>7, <2>10, <2>11, <2>12 DEF Salvo
<1> QED
  BY <1>1, <1>2 DEF SalvarConfig, Tenta

(* Every step of a handler keeps the invariant. *)
LEMMA Passa ==
  ASSUME Salvo, NEW m \in Mensagens, Passo(m)
  PROVE  Salvo'
  BY Aceitacao, Leitor, Insercao, Decisao, Ajuste, Limpeza, Escritas, Leitura, Compactacao,
     Anotacao DEF Passo

---------------------------------------------------------------------------
(* What happens to the handlers from outside. *)

(* The late queue kills a task: what it owed it keeps owing. *)
LEMMA Morte ==
  ASSUME Salvo, NEW m \in Mensagens, MatarTardia(m)
  PROVE  Salvo'
<1>1. "morta" \in Soltos
  BY DEF Soltos, Passos
<1>2. /\ faltas' \in [avarias : Nat, reinicios : Nat, mortes : Nat]
      /\ faltas'.avarias = 0 => faltas.avarias = 0
  BY Falhas DEF MatarTardia, Salvo
<1> QED
  BY <1>1, <1>2, Move DEF MatarTardia

(* What a start does to the settings: nothing to the default ones; and     *)
(* what they should have before it becomes what they should have after it. *)
LEMMA Reposto ==
  ASSUME Salvo, Derrubar
  PROVE  /\ config' \in [existe : BOOLEAN, valor : Valores] /\ ajustes' \in Ajustado
         /\ faltas' \in [avarias : Nat, reinicios : Nat, mortes : Nat]
         /\ Obedecidos' /\ UltimoAjusteVence'
         /\ ~config'.existe => config'.valor = padrao
<1>1. PICK feitos \in SUBSET Desfeitos :
        /\ config' = [config EXCEPT !.valor = criar(config.valor, feitos)]
        /\ Falta(IF config'.valor = criar(config.valor, Desfeitos)
                 THEN "reinicios" ELSE "avarias")
  BY DEF Derrubar
<1>2. /\ config \in [existe : BOOLEAN, valor : Valores] /\ ajustes \in Ajustado
      /\ 0 \notin Mensagens
  BY DEF Salvo, Tabelas, Mensagens
<1>3. \A v \in Valores, fs \in SUBSET Desfeitos :
        /\ criar(v, fs) \in Valores
        /\ \A c \in campo.reset :
             criar(v, fs)[c] = IF v[c] # 0 /\ tipo[v[c]] \in fs THEN 0 ELSE v[c]
  BY DEF criar, Valores
<1>4. config'.existe = config.existe /\ config'.valor = criar(config.valor, feitos)
      /\ config' \in [existe : BOOLEAN, valor : Valores]
  BY <1>1, <1>2, <1>3
<1>5. /\ ajustes'.ultimo = ajustes.ultimo /\ ajustes'.obedecidos = ajustes.obedecidos
      /\ ajustes'.cruzados = ajustes.cruzados
      /\ ajustes'.vencidos = {m \in ajustes.obedecidos : tipo[m] \in Desfeitos}
      /\ ajustes' \in Ajustado /\ tipo' = tipo
  BY <1>2 DEF Derrubar, Ajustado
<1>6. /\ faltas' \in [avarias : Nat, reinicios : Nat, mortes : Nat]
      /\ faltas'.avarias = 0 => /\ faltas.avarias = 0
                                /\ config'.valor = criar(config.valor, Desfeitos)
  BY <1>1, Falhas DEF Avaria, Salvo
<1>7. Obedecidos'
  BY <1>5 DEF Salvo, Ordem, Obedecidos
<1>8. ~config'.existe => config'.valor = padrao
  <2>0. padrao \in Valores /\ \A c \in campo.reset : padrao[c] = 0
    BY Valor DEF padrao
  <2>1. /\ criar(padrao, feitos) \in Valores
        /\ \A c \in campo.reset : criar(padrao, feitos)[c] = padrao[c]
    BY <1>3, <2>0
  <2>2. criar(padrao, feitos) = padrao
    BY <2>0, <2>1 DEF Valores
  <2> QED
    BY <1>4, <2>2 DEF Salvo, Ordem
<1>9. UltimoAjusteVence'
  <2> SUFFICES ASSUME ~ajustes.cruzados, faltas'.avarias = 0
               PROVE  config'.valor = Vigente'
    BY <1>5 DEF UltimoAjusteVence
  <2>1. config.valor = Vigente /\ config'.valor = criar(Vigente, Desfeitos)
        /\ Vigente \in Valores
    BY <1>2, <1>6 DEF Salvo, UltimoAjusteVence
  <2>2. ASSUME NEW c \in campo.reset
        PROVE  config'.valor[c] = Vigente'[c]
    <3>1. /\ ajustes.ultimo[c] \in ajustes.obedecidos \cup {0}
          /\ 0 \notin ajustes.obedecidos
          /\ ajustes.vencidos \subseteq ajustes'.vencidos
      BY <1>2, <1>5 DEF Salvo, Ordem, Obedecidos, Ajustado
    <3>2. /\ Vigente[c] = IF ajustes.ultimo[c] \in ajustes.vencidos THEN 0
                          ELSE ajustes.ultimo[c]
          /\ Vigente'[c] = IF ajustes.ultimo[c] \in ajustes'.vencidos THEN 0
                           ELSE ajustes.ultimo[c]
      BY <1>5 DEF Vigente
    <3>3. config'.valor[c] = IF Vigente[c] # 0 /\ tipo[Vigente[c]] \in Desfeitos
                             THEN 0 ELSE Vigente[c]
      BY <1>3, <2>1
    <3> QED
      BY <1>5, <3>1, <3>2, <3>3
  <2>3. config'.valor \in Valores
    BY <1>4
  <2> QED
    BY <2>2, <2>3 DEF Valores, Vigente
<1> QED
  BY <1>4, <1>5, <1>6, <1>7, <1>8, <1>9

(* A restart leaves no handler running. *)
LEMMA Queda ==
  ASSUME Salvo, Derrubar
  PROVE  Salvo'
<1>2. UNCHANGED <<historico, recebidas, memoria, tipo>>
  BY DEF Derrubar
<1>3. ASSUME NEW x \in Mensagens
      PROVE  /\ hdl'[x] \in Tratador /\ hdl'[x].deve = hdl[x].deve
             /\ hdl'[x].pc \in {"fora", "fim", "morta"}
  <2>1. hdl[x] \in Tratador
    BY DEF Salvo, Processos
  <2>2. CASE hdl[x].pc \in {"fora", "fim"}
    BY <2>1, <2>2 DEF Derrubar
  <2>3. CASE hdl[x].pc \notin {"fora", "fim"}
    <3>1. hdl'[x] = [Livre EXCEPT !.pc = "morta", !.deve = hdl[x].deve]
      BY <2>3 DEF Derrubar
    <3>2. hdl[x].deve \in SUBSET memoria.escritos /\ "morta" \in Passos
      BY <2>1 DEF Tratador, Passos
    <3>3. [Livre EXCEPT !.pc = "morta", !.deve = hdl[x].deve] \in Tratador
      BY <3>2, Valor
    <3> QED
      BY <3>1, <3>3 DEF Livre
  <2> QED
    BY <2>2, <2>3
<1>4. hdl' \in [Mensagens -> Tratador]
  BY <1>3 DEF Derrubar
<1>5. Calmos
  BY <1>3 DEF Calmos
<1>6. Memoria'
  BY <1>2, <1>5, MemoriaParada DEF Salvo
<1>7. Ordem' /\ UltimoAjusteVence'
  <2>1. \A x \in Mensagens : ~Gravando(x)' /\ ~Aceita(x)' /\ hdl'[x].pc # "salvar"
    BY <1>3 DEF Gravando, Aceita
  <2>2. faltas'.avarias = 0 => UmaVez'
    <3>1. faltas'.avarias = 0 => faltas.avarias = 0
      BY Falhas DEF Derrubar, Salvo, Avaria
    <3>2. ajustes'.obedecidos = ajustes.obedecidos
      BY DEF Derrubar, Salvo, Tabelas, Ajustado
    <3> QED
      BY <1>2, <2>1, <3>1, <3>2 DEF Salvo, Ordem, UmaVez
  <2> QED
    BY <2>1, <2>2, Reposto DEF Ordem
<1>8. Tabelas' /\ Tratador' = Tratador
  BY <1>2, Reposto DEF Salvo, Tabelas, Tratador
<1>9. Processos'
  BY <1>2, <1>4, <1>8, Reposto DEF Salvo, Processos
<1> QED
  BY <1>6, <1>7, <1>8, <1>9 DEF Salvo

(* An update is dispatched, for the first time or again. *)
LEMMA Despacho ==
  ASSUME Salvo, NEW m \in Mensagens, NEW atrasada \in BOOLEAN, despachar_evento(m, atrasada)
  PROVE  Salvo'
<1> DEFINE novo == [Livre EXCEPT !.pc = "inicio", !.deve = hdl[m].deve]
<1>1. hdl[m] \in Tratador /\ hdl \in [Mensagens -> Tratador]
  BY DEF Salvo, Processos
<1>2. hdl[m].deve \in SUBSET memoria.escritos /\ "inicio" \in Passos
  BY <1>1 DEF Tratador, Passos
<1>3. novo \in Tratador
  BY <1>2, Valor
<1>4. novo.pc = "inicio" /\ novo.deve = hdl[m].deve
  BY DEF Livre
<1>5. /\ hdl'[m] = novo /\ \A x \in Mensagens \ {m} : hdl'[x] = hdl[x]
      /\ hdl' \in [Mensagens -> Tratador]
  BY <1>1, <1>3 DEF despachar_evento
<1>6. UNCHANGED <<historico, config, recebidas, memoria, ajustes, tipo, faltas>>
  BY DEF despachar_evento, Nada, tabelas
<1>7. Calmos
  BY <1>4, <1>5 DEF Calmos
<1>8. Quietos
  BY <1>4, <1>5, <1>6 DEF Salvo, Quietos, Gravando, Aceita, Ordem
<1>9. faltas' \in [avarias : Nat, reinicios : Nat, mortes : Nat]
  BY <1>6 DEF Salvo, Processos
<1> QED
  BY <1>5, <1>7, <1>8, <1>9, TabelasParadas DEF despachar_evento

---------------------------------------------------------------------------
(* The whole of it. *)

(* The invariant, cut into what the handlers keep and what the poller      *)
(* keeps, before a step and after it.                                      *)
LEMMA Partes == (IInv <=> Salvo /\ Poller) /\ (IInv' <=> Salvo' /\ Poller')
  BY DEF IInv, Boa, Salvo, Memoria

(* At first nothing is owed, held or erased. *)
LEMMA Inicial == Init => IInv
<1> SUFFICES ASSUME Init  PROVE IInv
  OBVIOUS
<1>1. Boa
  BY BoaInicial
<1>2. \A m \in Mensagens : hdl[m] = Livre
  BY DEF Init, InitConversa
<1>3. /\ memoria.escritos = Presentes /\ memoria.apagados = {}
      /\ ajustes.ultimo = padrao /\ ajustes.obedecidos = {} /\ ajustes.vencidos = {}
      /\ config.valor = padrao
  BY DEF Init, InitConversa
<1>4. \A m \in Mensagens : hdl[m].pc = "fora"
  BY <1>2 DEF Livre
<1>5. Janela /\ Copias /\ ResetEsquece
  BY <1>3, <1>4 DEF Janela, Copias, Resumindo, ResetEsquece
<1>6. MemoriaFica
  BY <1>3, Coberta DEF MemoriaFica, Lembrados
<1>7. Ordem /\ UltimoAjusteVence
  <2>1. Obedecidos /\ Vigente = padrao
    BY <1>3 DEF Obedecidos, Vigente, padrao
  <2> QED
    BY <1>3, <1>4, <2>1 DEF Ordem, UmaVez, Gravando, Aceita, UltimoAjusteVence
<1> QED
  BY <1>1, <1>5, <1>6, <1>7 DEF IInv

(* The poller keeps inside what the server has. *)
LEMMA Enquete ==
  ASSUME Poller, Chegar \/ obter_updates \/ FalhaPolling \/ processar_updates
                   \/ WebhookAtivo \/ Reiniciar
  PROVE  Poller'
<1> USE ConversaAssumption
<1>1. CASE Chegar
  BY <1>1 DEF Poller, Chegar
<1>2. CASE obter_updates
  <2>1. /\ servidor' \in [tem : 0 .. N, confirmado : Nat]
        /\ servidor'.tem = servidor.tem /\ servidor'.confirmado < servidor.tem
    BY <1>2 DEF Poller, obter_updates, confirmar
  <2>2. /\ poller'.pc = "lote" /\ poller'.offset = poller.offset
        /\ poller'.prox = servidor'.confirmado + 1 /\ poller'.ate = servidor.tem
        /\ poller' \in [pc : {"pedir", "lote", "fim"}, offset : Nat, prox : Nat, ate : Nat]
    <3>1. poller' = [poller EXCEPT
            !.pc = "lote", !.prox = servidor'.confirmado + 1, !.ate = servidor.tem]
      BY <1>2 DEF obter_updates
    <3>2. servidor'.confirmado + 1 \in Nat /\ servidor.tem \in Nat
      BY <2>1 DEF Poller
    <3> QED
      BY <3>1, <3>2 DEF Poller
  <2> QED
    BY <2>1, <2>2 DEF Poller
<1>3. CASE FalhaPolling
  BY <1>3 DEF Poller, FalhaPolling, confirmar
<1>4. CASE processar_updates
  BY <1>4 DEF Poller, processar_updates, Pedindo
<1>5. CASE WebhookAtivo
  BY <1>5 DEF Poller, WebhookAtivo
<1>6. CASE Reiniciar
  BY <1>6 DEF Poller, Reiniciar, Pedindo
<1> QED
  BY <1>1, <1>2, <1>3, <1>4, <1>5, <1>6

(* Every step keeps the invariant. *)
LEMMA Passagem == IInv /\ [Next]_vars => IInv'
<1> SUFFICES ASSUME IInv, [Next]_vars  PROVE IInv'
  OBVIOUS
<1>0. Salvo /\ Poller
  BY Partes
<1>1. ASSUME UNCHANGED conversa
      PROVE  Salvo' /\ (Poller' => IInv')
  <2>1. Nada /\ UNCHANGED <<hdl, tipo, faltas>>
    BY <1>1 DEF conversa, Nada
  <2>2. Calmos /\ Quietos
    BY <1>0, <2>1 DEF Nada, tabelas, Calmos, Quietos, Gravando, Aceita, Salvo, Ordem
  <2>3. /\ hdl' \in [Mensagens -> Tratador]
        /\ faltas' \in [avarias : Nat, reinicios : Nat, mortes : Nat]
    BY <1>0, <2>1 DEF Salvo, Processos
  <2>4. Salvo'
    BY <1>0, <2>1, <2>2, <2>3, TabelasParadas
  <2>5. Poller' => IInv'
    BY <2>4, Partes
  <2> QED
    BY <2>4, <2>5
<1>2. CASE Chegar \/ obter_updates \/ FalhaPolling \/ WebhookAtivo
  BY <1>0, <1>1, <1>2, Enquete, Partes
     DEF Chegar, obter_updates, FalhaPolling, WebhookAtivo
<1>3. CASE processar_updates
  <2>1. poller.prox \in Mensagens
    BY <1>0, <1>3, ConversaAssumption DEF Poller, processar_updates, Mensagens
  <2>2. Salvo'
    BY <1>0, <1>3, <2>1, Despacho DEF processar_updates
  <2> QED
    BY <1>0, <1>3, <2>2, Enquete, Partes
<1>4. CASE Reiniciar
  BY <1>0, <1>4, Queda, Enquete, Partes DEF Reiniciar
<1>5. ASSUME NEW m \in Mensagens, Tratar(m)
      PROVE  IInv'
  <2>1. Poller'
    BY <1>0, <1>5 DEF Tratar, Poller
  <2> QED
    BY <1>0, <1>5, <2>1, Passa, Partes DEF Tratar
<1>6. ASSUME NEW m \in Mensagens, MatarTardia(m), UNCHANGED <<servidor, poller>>
      PROVE  IInv'
  <2>1. Poller'
    BY <1>0, <1>6 DEF Poller
  <2> QED
    BY <1>0, <1>6, <2>1, Morte, Partes
<1>7. CASE UNCHANGED vars
  <2>1. Poller' /\ UNCHANGED conversa
    BY <1>0, <1>7 DEF vars, Poller
  <2> QED
    BY <1>1, <2>1
<1> QED
  BY <1>2, <1>3, <1>4, <1>5, <1>6, <1>7 DEF Next

(* The inductive invariant holds in every reachable state. *)
THEOREM InvCorrect == Spec => []IInv
<1> QED
  BY Inicial, Passagem, PTL DEF Spec

(* The tables, the handlers and the poller have their types. *)
THEOREM TypeCorrect == Spec => []TypeOK
<1>1. IInv => TypeOK
  BY DEF IInv, Boa, Tabelas, Processos, Poller, TypeOK, Tratador, Passos, Valores
<1> QED
  BY InvCorrect, <1>1, PTL

(* What a chat has said stays in its history, word for word or inside a    *)
(* summary, unless it was erased or a summary took it away.                *)
THEOREM MemoriaCorrect == Spec => []MemoriaFica
<1> QED
  BY InvCorrect, PTL DEF IInv

(* What a reset erased does not come back. *)
THEOREM ResetCorrect == Spec => []ResetEsquece
<1> QED
  BY InvCorrect, PTL DEF IInv

(* The last command on a setting wins. *)
THEOREM AjusteCorrect == Spec => []UltimoAjusteVence
<1> QED
  BY InvCorrect, PTL DEF IInv

---------------------------------------------------------------------------
(* The offset and the handlers.                                            *)

(* Message m has never been handed to a handler, or its handler died with  *)
(* the application before the server was told to drop the message.         *)
PorEntregar(m) ==
  \/ hdl[m].pc = "fora"
  \/ hdl[m].pc = "morta" /\ m > servidor.confirmado /\ faltas.mortes = 0

(* The server is told to drop only what was handed to a handler, and the   *)
(* poller, until it leaves for a webhook, never goes past a message that   *)
(* it still has to hand out: neither the offset it will ask with nor the   *)
(* place it is at in its batch, through failed polls, restarts in the      *)
(* middle of a batch and updates delivered again.                          *)
NadaPulado ==
  \A m \in Mensagens :
    /\ hdl[m].pc = "fora" => m > servidor.confirmado
    /\ PorEntregar(m) /\ poller.pc # "fim" =>
         poller.offset <= m /\ (poller.pc = "lote" => poller.prox <= m)

(* A step of a handler neither starts nor kills one. *)
LEMMA Trabalha ==
  ASSUME Processos, NEW m \in Mensagens, Passo(m)
  PROVE  /\ hdl[m].pc # "fora" /\ hdl'[m].pc \notin {"fora", "morta"}
         /\ \A x \in Mensagens \ {m} : hdl'[x] = hdl[x]
         /\ faltas'.mortes = faltas.mortes
<1> DEFINE Certos == Passos \ {"fora", "morta"}
<1>1. \A pc \in Certos :
        Vai(m, pc) => /\ hdl'[m].pc \notin {"fora", "morta"}
                      /\ \A x \in Mensagens \ {m} : hdl'[x] = hdl[x]
  BY Anda
<1>2. Avaria \/ UNCHANGED faltas => faltas'.mortes = faltas.mortes
  BY DEF Avaria, Falta, Processos
<1>3. /\ hdl[m] \in Tratador /\ hdl \in [Mensagens -> Tratador]
      /\ tipo[m] \in Tipos
  BY DEF Processos
<1>4. {"config", "historico", "salvar", "limpar", "pergunta", "resposta", "enfileirar",
       "descrever", "descricao", "ler", "compactar", "anotar", "fim", "padrao"} \subseteq Certos
  BY DEF Passos
<1> DEFINE Bom == /\ hdl'[m].pc \notin {"fora", "morta"}
                  /\ \A x \in Mensagens \ {m} : hdl'[x] = hdl[x]
                  /\ faltas'.mortes = faltas.mortes
<1>5. \A pc \in Certos : Vai(m, pc) /\ (Avaria \/ UNCHANGED faltas) => Bom
  BY <1>1, <1>2
<1> HIDE DEF Certos, Bom
<1>6. hdl[m].pc # "fora"
  BY DEF Passo, Aceitar, LerConfig, inserir_padrao, Decidir, SalvarConfig, LimparHistorico,
         GravarPergunta, GravarResposta, enfileirar_midia, Descrever, GravarDescricao,
         LerParaResumo, Compactar, Anotar
<1> SUFFICES Bom
  BY <1>6 DEF Bom
<1>7. Desiste(m) => Bom
  BY <1>4, <1>5 DEF Desiste
<1>8. CASE Aceitar(m)
  BY <1>4, <1>5, <1>7, <1>8 DEF Aceitar, Tenta
<1>9. CASE LerConfig(m)
  <2>1. CASE Avaria /\ Nada /\ Vai(m, "fim")
    BY <1>4, <1>5, <2>1
  <2>2. ASSUME NEW pc \in {"historico", "padrao"},
               hdl' = [hdl EXCEPT ![m].pc = pc, ![m].cfg = config.valor], UNCHANGED faltas
        PROVE  Bom
    BY <1>3, <2>2 DEF Bom, Tratador
  <2>3. \/ Avaria /\ Nada /\ Vai(m, "fim")
        \/ \E pc \in {"historico", "padrao"} :
             /\ hdl' = [hdl EXCEPT ![m].pc = pc, ![m].cfg = config.valor]
             /\ UNCHANGED faltas
    BY <1>9 DEF LerConfig
  <2> QED
    BY <2>1, <2>2, <2>3
<1>10. CASE Decidir(m)
  <2>1. PICK acao \in {"salvar", "enfileirar", "ler", "pergunta", "fim"} :
          Tenta(m, Nada, acao, "fim")
    BY <1>10, Zenon DEF Decidir
  <2> QED
    BY <1>4, <1>5, <2>1 DEF Tenta
<1>11. CASE SalvarConfig(m)
  <2>1. PICK pc \in {"limpar", "fim"} : Tenta(m, salvar_ajuste(m), pc, pc)
    BY <1>11, Zenon DEF SalvarConfig
  <2> QED
    BY <1>4, <1>5, <2>1 DEF Tenta
<1>12. CASE inserir_padrao(m) \/ LimparHistorico(m) \/ GravarPergunta(m) \/ GravarResposta(m)
  BY <1>4, <1>5, <1>7, <1>12
     DEF inserir_padrao, LimparHistorico, GravarPergunta, GravarResposta, Tenta
<1>13. CASE enfileirar_midia(m) \/ Descrever(m) \/ GravarDescricao(m)
  BY <1>4, <1>5, <1>7, <1>13 DEF enfileirar_midia, Descrever, GravarDescricao, Tenta
<1>14. CASE LerParaResumo(m)
  <2>1. ASSUME hdl' = [hdl EXCEPT ![m].pc = "compactar", ![m].lidos = Presentes], UNCHANGED faltas
        PROVE  Bom
    BY <1>3, <2>1 DEF Bom, Tratador
  <2> QED
    BY <1>4, <1>5, <1>7, <1>14, <2>1, Zenon DEF LerParaResumo
<1>15. CASE Compactar(m)
  <2>1. ASSUME hdl' = [hdl EXCEPT ![m].pc = "anotar", ![m].deve = @ \cup hdl[m].lidos],
               UNCHANGED faltas
        PROVE  Bom
    BY <1>3, <2>1 DEF Bom, Tratador
  <2> QED
    BY <1>4, <1>5, <1>7, <1>15, <2>1, Zenon DEF Compactar
<1>16. CASE Anotar(m)
  <2>1. ASSUME hdl' = [hdl EXCEPT ![m] =
                 [Livre EXCEPT !.pc = "fim", !.deve = hdl[m].deve \ hdl[m].lidos]],
               UNCHANGED faltas
        PROVE  Bom
    BY <1>3, <2>1 DEF Bom, Livre
  <2> QED
    BY <1>4, <1>5, <1>16, <2>1, Zenon DEF Anotar
<1> QED
  BY <1>8, <1>9, <1>10, <1>11, <1>12, <1>13, <1>14, <1>15, <1>16 DEF Passo

(* Where a step hands nothing out and does not move the poller, only a     *)
(* handler that newly has to be replaced could be passed over.             *)
LEMMA PuladoFica ==
  ASSUME NadaPulado, UNCHANGED <<servidor, poller>>,
         \A m \in Mensagens : /\ hdl'[m].pc = "fora" => hdl[m].pc = "fora"
                              /\ PorEntregar(m)' => PorEntregar(m)
  PROVE  NadaPulado'
  BY DEF NadaPulado

(* What getUpdates confirms, the poller has gone past. *)
LEMMA Confirmado ==
  ASSUME Poller, NadaPulado, confirmar, poller.pc = "pedir", hdl' = hdl, faltas' = faltas,
         NEW m \in Mensagens
  PROVE  /\ servidor'.confirmado \in Nat
         /\ hdl'[m].pc = "fora" => m > servidor'.confirmado
         /\ (PorEntregar(m))' => m > servidor'.confirmado /\ poller.offset <= m
<1>1. /\ servidor.confirmado \in Nat /\ poller.offset \in Nat /\ servidor.tem \in Nat
      /\ m \in Nat
  BY ConversaAssumption DEF Poller, Mensagens
<1>2. servidor'.confirmado = IF poller.offset > servidor.confirmado + 1
                             THEN poller.offset - 1 ELSE servidor.confirmado
  BY DEF confirmar, Poller
<1>3. servidor'.confirmado \in Nat /\ servidor'.confirmado >= servidor.confirmado
  BY <1>1, <1>2
<1>4. PorEntregar(m) => m > servidor.confirmado /\ poller.offset <= m
  BY DEF PorEntregar, NadaPulado
<1>5. PorEntregar(m) => m > servidor'.confirmado /\ poller.offset <= m
  BY <1>1, <1>2, <1>4
<1>6. (PorEntregar(m))' => PorEntregar(m)
  BY <1>1, <1>3 DEF PorEntregar
<1>7. hdl'[m].pc = "fora" => PorEntregar(m)
  BY DEF PorEntregar
<1> QED
  BY <1>3, <1>5, <1>6, <1>7

(* Every step of the poller keeps it. *)
LEMMA PuladoEnquete ==
  ASSUME Poller, Processos, NadaPulado,
         obter_updates \/ FalhaPolling \/ processar_updates \/ WebhookAtivo \/ Reiniciar
  PROVE  NadaPulado'
<1>0. /\ servidor.confirmado \in Nat /\ poller.offset \in Nat /\ servidor.tem \in Nat
      /\ poller.prox \in Nat /\ poller.ate \in Nat
      /\ \A m \in Mensagens : m \in Nat /\ m >= 1
  BY ConversaAssumption DEF Poller, Mensagens
<1>1. CASE obter_updates
  <2>1. /\ confirmar /\ poller.pc = "pedir" /\ hdl' = hdl /\ faltas' = faltas
        /\ poller' = [poller EXCEPT
             !.pc = "lote", !.prox = servidor'.confirmado + 1, !.ate = servidor.tem]
    BY <1>1 DEF obter_updates, conversa
  <2>2. poller'.offset = poller.offset /\ poller'.prox = servidor'.confirmado + 1
    BY <2>1 DEF Poller
  <2>3. ASSUME NEW m \in Mensagens, PorEntregar(m)'
        PROVE  m > servidor'.confirmado /\ poller.offset <= m
    BY <2>1, <2>3, Confirmado
  <2>4. \A m \in Mensagens : hdl'[m].pc = "fora" => m > servidor'.confirmado
    BY <2>1, Confirmado
  <2>5. servidor'.confirmado \in Nat
    BY <1>0, <2>1 DEF confirmar, Poller
  <2>6. \A m \in Mensagens : PorEntregar(m)' => poller'.offset <= m /\ poller'.prox <= m
    BY <1>0, <2>2, <2>3, <2>5
  <2> QED
    BY <2>4, <2>6 DEF NadaPulado
<1>2. CASE FalhaPolling
  <2>1. /\ confirmar /\ poller.pc = "pedir"
        /\ hdl' = hdl /\ faltas' = faltas /\ poller' = poller
    BY <1>2 DEF FalhaPolling, conversa
  <2>2. \A m \in Mensagens : /\ hdl'[m].pc = "fora" => m > servidor'.confirmado
                             /\ (PorEntregar(m))' => poller.offset <= m
    BY <2>1, Confirmado
  <2> QED
    BY <2>1, <2>2 DEF NadaPulado
<1>3. CASE processar_updates
  <2> DEFINE p == poller.prox
  <2>1. /\ poller.pc = "lote" /\ p \in Mensagens /\ p <= poller.ate
        /\ UNCHANGED <<servidor, faltas>>
    BY <1>3, ConversaAssumption DEF processar_updates, despachar_evento, Poller, Mensagens
  <2>2. hdl' = [hdl EXCEPT ![p] = [Livre EXCEPT !.pc = "inicio", !.deve = hdl[p].deve]]
    BY <1>3 DEF processar_updates, despachar_evento
  <2>3. hdl'[p].pc = "inicio" /\ \A x \in Mensagens \ {p} : hdl'[x] = hdl[x]
    BY <2>1, <2>2 DEF Processos, Livre
  <2>4. \A m \in Mensagens :
          PorEntregar(m)' => PorEntregar(m) /\ m # p /\ poller.offset <= m /\ p <= m
    BY <2>1, <2>3 DEF PorEntregar, NadaPulado
  <2>5. \/ poller'.pc = "pedir" /\ poller'.offset = poller.ate + 1 /\ p = poller.ate
        \/ /\ poller'.pc = "lote" /\ poller'.offset = poller.offset
           /\ poller'.prox = p + 1
    BY <1>3 DEF processar_updates, Pedindo, Poller
  <2>6. \A m \in Mensagens : PorEntregar(m)' => p + 1 <= m
    BY <1>0, <2>4
  <2> QED
    BY <2>1, <2>3, <2>4, <2>5, <2>6 DEF NadaPulado
<1>4. CASE WebhookAtivo
  <2>1. UNCHANGED <<servidor, hdl>> /\ poller'.pc = "fim"
    BY <1>4 DEF WebhookAtivo, conversa, Poller
  <2> QED
    BY <2>1 DEF NadaPulado
<1>5. CASE Reiniciar
  <2>1. poller'.pc = "pedir" /\ poller'.offset = 0 /\ UNCHANGED servidor
    BY <1>5 DEF Reiniciar, Pedindo
  <2>2. \A m \in Mensagens : hdl'[m].pc = "fora" => hdl[m].pc = "fora"
    BY <1>5 DEF Reiniciar, Derrubar, Livre
  <2> QED
    BY <1>0, <2>1, <2>2 DEF NadaPulado
<1> QED
  BY <1>1, <1>2, <1>3, <1>4, <1>5

(* Every step keeps it. *)
LEMMA PuladoSempre == IInv /\ NadaPulado /\ [Next]_vars => NadaPulado'
<1> SUFFICES ASSUME IInv, NadaPulado, [Next]_vars PROVE NadaPulado'
  OBVIOUS
<1>0. Poller /\ Processos
  BY DEF IInv, Boa
<1>1. CASE Chegar
  <2>1. UNCHANGED <<hdl, faltas, poller>> /\ servidor'.confirmado = servidor.confirmado
    BY <1>0, <1>1 DEF Chegar, conversa, Poller
  <2> QED
    BY <2>1 DEF NadaPulado, PorEntregar
<1>2. ASSUME NEW m \in Mensagens, Tratar(m) PROVE NadaPulado'
  <2>1. /\ hdl'[m].pc \notin {"fora", "morta"}
        /\ \A x \in Mensagens \ {m} : hdl'[x] = hdl[x]
        /\ faltas'.mortes = faltas.mortes /\ UNCHANGED <<servidor, poller>>
    BY <1>0, <1>2, Trabalha DEF Tratar
  <2> QED
    BY <2>1, PuladoFica DEF PorEntregar
<1>3. ASSUME NEW m \in Mensagens, MatarTardia(m), UNCHANGED <<servidor, poller>>
      PROVE  NadaPulado'
  <2>1. "morta" \in Passos
    BY DEF Passos
  <2>2. hdl'[m].pc = "morta" /\ \A x \in Mensagens \ {m} : hdl'[x] = hdl[x]
    BY <1>0, <1>3, <2>1, Anda DEF MatarTardia
  <2>3. faltas'.mortes # 0
    BY <1>0, <1>3 DEF MatarTardia, Falta, Processos
  <2> QED
    BY <1>3, <2>2, <2>3, PuladoFica DEF PorEntregar
<1>4. CASE UNCHANGED vars
  BY <1>4, PuladoFica DEF vars, conversa, PorEntregar
<1> QED
  BY <1>0, <1>1, <1>2, <1>3, <1>4, PuladoEnquete DEF Next

(* No update is lost between the server and the handlers: what the server  *)
(* may drop was handed out, and what still has to be handed out lies ahead *)
(* of the poller.                                                          *)
THEOREM PuladoCorrect == Spec => []NadaPulado
<1>1. Init => NadaPulado
  BY DEF Init, Pedindo, NadaPulado, Mensagens
<1> QED
  BY <1>1, Inicial, Passagem, PuladoSempre, PTL DEF Spec
============================================================================
