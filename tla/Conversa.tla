------------------------------ MODULE Conversa ------------------------------
(***************************************************************************)
(* What becomes of the messages of one chat once they are in: the handler  *)
(* of each message (src/src/shell/tratador_mensagem.gleam), the image      *)
(* queue (fila_midia.gleam) and the late queue (fila_atrasadas.gleam),     *)
(* over the tables they share: the turns of the conversation               *)
(* (historico_sqlite.gleam), the row of settings (config_sqlite.gleam) and *)
(* the ids already received (transacao_sqlite.gleam).                      *)
(*                                                                         *)
(* Every message runs in a process of its own and every port operation is  *)
(* one SQL statement, so any handler may run between two statements of     *)
(* another, any statement may fail, and the application may stop anywhere. *)
(* AI calls and sends change no table of this module: they are the choice, *)
(* in the step that follows them, between going on and giving up.          *)
(***************************************************************************)
EXTENDS Naturals, Sequences, SequencesExt, FiniteSets

CONSTANTS
  N,                \* bound: messages the user sends, numbered in that order
  Tipos,            \* kinds of message the user may send
  turnos_compactar, \* turns from which a summary replaces the history (10)
  MaxFaltas         \* bound: failing statements, restarts, and handlers the
                    \*   late queue kills, all together

Mensagens == 1 .. N

(* Commands that save the settings: .audio, .curto|.longo, .video on|off,  *)
(* .modelo, .reset.  Kept apart: a model that a start replaces.  .video    *)
(* alone is whichever of the two it amounts to.                            *)
Ajustes == {"audio", "modo", "video_on", "video_off", "modelo", "modelo_antigo", "reset"}

ASSUME ConversaAssumption ==
  /\ N \in Nat /\ turnos_compactar \in Nat \ {0, 1}
  /\ Tipos \subseteq Ajustes \cup {"texto", "link", "midia", "resumir"}
  /\ MaxFaltas \in Nat

VARIABLES
  tipo,       \* the kind of each message
  historico,  \* the turns of the chat, in the order of their row ids
  config,     \* the row of configs
  recebidas,  \* ids marked as received
  hdl,        \* the process handling each message
  filas,      \* the late queue and the mailbox of the image queue
  faltas,     \* what has been spent of the bounds on faults
  memoria,    \* history: the turns written, and what happened to them since
  ajustes     \* history: the settings in the order the commands were obeyed,
              \*   the commands obeyed, and those that a start came to undo

tabelas == <<historico, config, recebidas, memoria, ajustes>>
conversa == <<tabelas, tipo, hdl, filas, faltas>>

(* A setting is named after the message that chose it; 0 is the default. *)
campo == [audio |-> {"audio_ativo"}, modo |-> {"modo_descricao"},
          video_on |-> {"video_ativo"}, video_off |-> {"video_ativo"},
          modelo |-> {"modelo"}, modelo_antigo |-> {"modelo"},
          reset |-> {"audio_ativo", "modo_descricao", "video_ativo", "modelo"}]
padrao == [c \in campo.reset |-> 0]

(* A turn is told by its speaker and the message it comes from; the two    *)
(* labels a medium gets (tratador, then fila_midia) are kept apart.  abre: *)
(* tem_midia_no_historico counts it.  cobre: the turns a summary replaced. *)
Fala(papel, m, abre) == [papel |-> papel, de |-> m, abre |-> abre, cobre |-> {}]
Cobertos(turnos) == turnos \cup UNION {t.cobre : t \in turnos}
Resumo(m, abre, turnos) ==
  [papel |-> "resumo", de |-> m, abre |-> abre, cobre |-> Cobertos(turnos)]

Presentes == ToSet(historico)
Lembrados == Cobertos(Presentes)
Antigos == << Fala("midia", 0, TRUE), Fala("assistente", 0, FALSE) >>

Livre == [pc |-> "fora", cfg |-> padrao, lidos |-> {}, deve |-> {}]

(* Commands that config_sqlite.criar undoes at every start, each kind in a *)
(* statement of its own: videos are on again, a retired model is replaced  *)
(* by the default.  (Its UPDATE on prompts finds only rows older than the  *)
(* present commands.)                                                      *)
Desfeitos == {"video_off", "modelo_antigo"}

criar(valor, feitos) ==
  [c \in DOMAIN valor |->
     IF valor[c] # 0 /\ tipo[valor[c]] \in feitos THEN 0 ELSE valor[c]]

(* After the first start. *)
InitConversa ==
  /\ tipo \in [Mensagens -> Tipos]
  /\ \/ historico = <<>> /\ config = [existe |-> FALSE, valor |-> padrao]
     \/ historico = Antigos /\ config = [existe |-> TRUE, valor |-> padrao]
  /\ recebidas = {}
  /\ hdl = [m \in Mensagens |-> Livre]
  /\ filas = [tardias |-> <<>>, imagem |-> <<>>]
  /\ faltas = [avarias |-> 0, reinicios |-> 0, mortes |-> 0]
  /\ memoria = [escritos |-> Presentes, apagados |-> {}, janela |-> {}, copiados |-> {}]
  /\ ajustes = [ultimo |-> padrao, obedecidos |-> {}, vencidos |-> {}, cruzados |-> FALSE]

---------------------------------------------------------------------------
(* The statements.  Each leaves the tables it does not name alone.         *)

Nada == UNCHANGED tabelas

marcar_recebida(m) ==
  /\ recebidas' = recebidas \cup {m}
  /\ UNCHANGED <<historico, config, memoria, ajustes>>

(* A summary waits for the AI with the turns it has read, and with those   *)
(* the summaries among them stand for.                                     *)
ResumoAberto == \E m \in Mensagens : hdl[m].pc = "compactar"
Resumindo == {m \in Mensagens : hdl[m].pc \in {"compactar", "anotar"}}
EmResumo == Cobertos(UNION {hdl[m].lidos : m \in Resumindo})

adicionar(t) ==
  /\ historico' = Append(historico, t)
  /\ memoria' = [memoria EXCEPT
       !.escritos = @ \cup {t},
       !.apagados = @ \ {t},
       !.janela = IF ResumoAberto THEN @ \cup {t} ELSE @]
  /\ UNCHANGED <<config, recebidas, ajustes>>

(* A slip: the DELETE names another chat. *)
limpar_de_outro == UNCHANGED <<historico, config, recebidas, ajustes>>

(* DELETE FROM historico WHERE chat_id = ? *)
apagar_turnos == historico' = <<>> /\ UNCHANGED <<config, recebidas, ajustes>>

(* LimparHistorico of a reset: what it erases is to stay forgotten, except *)
(* what a summary has already read.                                        *)
limpar ==
  /\ apagar_turnos
  /\ memoria' = [memoria EXCEPT
       !.apagados = @ \cup Lembrados,
       !.copiados = @ \cup EmResumo]

(* INSERT ... ON CONFLICT DO UPDATE: the whole row, whoever wrote it last. *)
salvar(valor) ==
  /\ config' = [existe |-> TRUE, valor |-> valor]
  /\ UNCHANGED <<historico, recebidas, memoria>>

(* SalvarConfig: the snapshot read by this handler with its own field set. *)
salvar_ajuste(m) ==
  LET novo(velho) == [c \in DOMAIN velho |->
                        IF c \notin campo[tipo[m]] THEN velho[c]
                        ELSE IF tipo[m] = "reset" THEN 0 ELSE m] IN
  /\ salvar(novo(hdl[m].cfg))
  /\ ajustes' = [ajustes EXCEPT
       !.ultimo = IF m \in ajustes.obedecidos THEN @ ELSE novo(@),
       !.obedecidos = @ \cup {m}]

tem_midia_no_historico == \E t \in Presentes : t.abre
---------------------------------------------------------------------------
(* The processes.                                                          *)

(* A late message runs once it heads its queue; the others at once. *)
Vez(m) == \A i \in DOMAIN filas.tardias : filas.tardias[i] = m => i = 1

(* A slip: nothing lets the late queue go on. *)
Sem_travada(fila, m) == fila

Sem(fila, m) == SelectSeq(fila, LAMBDA x : x # m)

(* Going on to pc; the end of a task lets its queue go on too. *)
Libera(m, pc) ==
  filas' = CASE pc \in {"fim", "morta"} ->
                  [f \in DOMAIN filas |-> Sem(filas[f], m)]
             [] pc = "descrever" ->
                  [tardias |-> Sem(filas.tardias, m), imagem |-> Append(filas.imagem, m)]
             [] OTHER -> filas

Vai(m, pc) ==
  /\ hdl' = [hdl EXCEPT ![m] =
       IF pc \in {"fim", "morta"} THEN [Livre EXCEPT !.pc = pc, !.deve = hdl[m].deve]
       ELSE [@ EXCEPT !.pc = pc]]
  /\ Libera(m, pc)

Falta(qual) ==
  /\ faltas.avarias + faltas.reinicios + faltas.mortes < MaxFaltas
  /\ faltas' = [faltas EXCEPT ![qual] = @ + 1]

Avaria == Falta("avarias")

(* A statement that works, or one that fails and changes nothing. *)
Tenta(m, efeito, certo, errado) ==
  \/ efeito /\ Vai(m, certo) /\ UNCHANGED faltas
  \/ Avaria /\ Nada /\ Vai(m, errado)

(* A download, an AI call or a send failed: the user is told, and no more. *)
Desiste(m) == Nada /\ Vai(m, "fim") /\ UNCHANGED faltas

(* A slip: the table is never asked. *)
ja_processada_nunca(m) == FALSE

(* foi_recebida *)
ja_processada(m) == m \in recebidas

(* baixar_ou_avisar, mensagem_antiga, ja_processada and the verdict of the *)
(* anti-spam: with the table out of reach the message goes on, unmarked.   *)
Aceitar(m) ==
  /\ hdl[m].pc = "inicio" /\ Vez(m)
  /\ \/ Desiste(m)
     \/ ~ja_processada(m) /\ Tenta(m, marcar_recebida(m), "config", "config")
     \/ ~ja_processada(m) /\ marcar_recebida(m) /\ Vai(m, "fim") /\ UNCHANGED faltas
     \/ ja_processada(m) /\ Avaria /\ Nada /\ Vai(m, "config")

(* Between reading the settings and saving them. *)
Gravando(m) == \/ hdl[m].pc = "padrao"
               \/ tipo[m] \in Ajustes /\ hdl[m].pc \in {"historico", "salvar"}

(* config.obter: a chat without a row is given the default one, in a       *)
(* second statement.                                                       *)
LerConfig(m) ==
  /\ hdl[m].pc = "config" /\ Vez(m)
  /\ LET pc == IF config.existe THEN "historico" ELSE "padrao" IN
     \/ /\ hdl' = [hdl EXCEPT ![m].pc = pc, ![m].cfg = config.valor]
        /\ ajustes' = [ajustes EXCEPT !.cruzados = @ \/
             /\ pc = "padrao" \/ tipo[m] \in Ajustes
             /\ \E x \in Mensagens : Gravando(x)]
        /\ UNCHANGED <<historico, config, recebidas, memoria, filas, faltas>>
     \/ Avaria /\ Nada /\ Vai(m, "fim")

inserir_padrao(m) ==
  /\ hdl[m].pc = "padrao" /\ Vez(m)
  /\ Tenta(m, salvar(padrao) /\ UNCHANGED ajustes, "historico", "fim")

(* historico.obter and the action the processador chooses from it. *)
Decidir(m) ==
  /\ hdl[m].pc = "historico" /\ Vez(m)
  /\ LET acao == CASE tipo[m] \in Ajustes -> "salvar"
                   [] tipo[m] = "midia" -> "enfileirar"
                   [] tipo[m] = "resumir" -> "ler"
                   [] tipo[m] = "link" \/ tem_midia_no_historico -> "pergunta"
                   [] OTHER -> "fim" IN   \* only told what the bot is for
     Tenta(m, Nada, acao, "fim")

(* SalvarConfig; a reset goes on to clear the chat even if it fails. *)
SalvarConfig(m) ==
  /\ hdl[m].pc = "salvar" /\ Vez(m)
  /\ LET pc == IF tipo[m] = "reset" THEN "limpar" ELSE "fim" IN
     Tenta(m, salvar_ajuste(m), pc, pc)

LimparHistorico(m) ==
  /\ hdl[m].pc = "limpar" /\ Vez(m)
  /\ Tenta(m, limpar, "fim", "fim")

(* responder_com_ia and entregar_resposta_ia: once the answer is delivered *)
(* the question is recorded, then the answer.                              *)
GravarPergunta(m) ==
  /\ hdl[m].pc = "pergunta" /\ Vez(m)
  /\ \/ Desiste(m)
     \/ Tenta(m, adicionar(Fala("usuario", m, tipo[m] = "link")), "resposta", "fim")

GravarResposta(m) ==
  /\ hdl[m].pc = "resposta" /\ Vez(m)
  /\ Tenta(m, adicionar(Fala("assistente", m, FALSE)), "fim", "fim")

enfileirar_midia(m) ==
  /\ hdl[m].pc = "enfileirar" /\ Vez(m)
  /\ Tenta(m, adicionar(Fala("midia", m, TRUE)), "descrever", "descrever")

(* fila_midia, one job at a time: a failed description is only logged. *)
Descrever(m) ==
  /\ hdl[m].pc = "descrever" /\ Head(filas.imagem) = m
  /\ \/ Desiste(m)
     \/ Tenta(m, adicionar(Fala("rotulo", m, TRUE)), "descricao", "descricao")

GravarDescricao(m) ==
  /\ hdl[m].pc = "descricao"
  /\ Tenta(m, adicionar(Fala("assistente", m, FALSE)), "fim", "fim")

(* resumir_historico: read, ask the AI, and from turnos_compactar turns on *)
(* clear the chat and write the summary in their place.                    *)
LerParaResumo(m) ==
  /\ hdl[m].pc = "ler" /\ Vez(m)
  /\ \/ Avaria /\ Nada /\ Vai(m, "fim")
     \/ Len(historico) < 2 /\ Desiste(m)   \* nothing to sum up
     \/ /\ Len(historico) >= 2
        /\ \/ Len(historico) < turnos_compactar /\ Vai(m, "fim")
           \/ /\ Len(historico) >= turnos_compactar
              /\ hdl' = [hdl EXCEPT ![m].pc = "compactar", ![m].lidos = Presentes]
              /\ UNCHANGED filas
        /\ Nada /\ UNCHANGED faltas

Compactar(m) ==
  /\ hdl[m].pc = "compactar" /\ Vez(m)
  /\ \/ Desiste(m)
     \/ Avaria /\ Nada /\ Vai(m, "fim")
     \/ /\ apagar_turnos
        /\ hdl' = [hdl EXCEPT ![m].pc = "anotar", ![m].deve = @ \cup hdl[m].lidos]
        /\ UNCHANGED <<memoria, filas, faltas>>

(* A slip: the summary is sent but never written. *)
Anotar_so_envia(m) ==
  /\ hdl[m].pc = "anotar" /\ Vez(m)
  /\ hdl' = [hdl EXCEPT ![m] = [Livre EXCEPT !.pc = "fim"]]
  /\ Libera(m, "fim") /\ Nada /\ UNCHANGED faltas

(* Nothing says whether the summary still names a kind of media. *)
Anotar(m) ==
  /\ hdl[m].pc = "anotar" /\ Vez(m)
  /\ \/ Avaria /\ Nada /\ Vai(m, "fim")
     \/ \E abre \in BOOLEAN :
          /\ adicionar(Resumo(m, abre, hdl[m].lidos))
          /\ hdl' = [hdl EXCEPT ![m] =
               [Livre EXCEPT !.pc = "fim", !.deve = hdl[m].deve \ hdl[m].lidos]]
          /\ Libera(m, "fim") /\ UNCHANGED faltas

Passo(m) ==
  /\ \/ Aceitar(m) \/ LerConfig(m) \/ inserir_padrao(m) \/ Decidir(m)
     \/ SalvarConfig(m) \/ LimparHistorico(m)
     \/ GravarPergunta(m) \/ GravarResposta(m)
     \/ enfileirar_midia(m) \/ Descrever(m) \/ GravarDescricao(m)
     \/ LerParaResumo(m) \/ Compactar(m) \/ Anotar(m)
  /\ UNCHANGED tipo

(* fila_atrasadas.executar kills a task that outlives its time. *)
MatarTardia(m) ==
  /\ filas.tardias # <<>> /\ Head(filas.tardias) = m
  /\ Falta("mortes")
  /\ Vai(m, "morta") /\ Nada /\ UNCHANGED tipo

(* A restart: the processes are gone, the tables stay, except for what the *)
(* start does to the settings.  It ignores that a statement of its own     *)
(* fails (feitos are those that do not); that counts as a failing          *)
(* statement if there was something to undo.                               *)
Derrubar ==
  /\ \E feitos \in SUBSET Desfeitos :
       /\ config' = [config EXCEPT !.valor = criar(@, feitos)]
       /\ Falta(IF config'.valor = criar(config.valor, Desfeitos)
                THEN "reinicios" ELSE "avarias")
  /\ ajustes' = [ajustes EXCEPT !.vencidos = {m \in ajustes.obedecidos : tipo[m] \in Desfeitos}]
  /\ hdl' = [m \in Mensagens |->
       IF hdl[m].pc \in {"fora", "fim"} THEN hdl[m]
       ELSE [Livre EXCEPT !.pc = "morta", !.deve = hdl[m].deve]]
  /\ filas' = [tardias |-> <<>>, imagem |-> <<>>]
  /\ UNCHANGED <<historico, recebidas, memoria, tipo>>

(* receptor_telegram.despachar_evento: an old message goes to the late     *)
(* queue, any other runs at once.                                          *)
despachar_evento(m, atrasada) ==
  /\ hdl' = [hdl EXCEPT ![m] = [Livre EXCEPT !.pc = "inicio", !.deve = hdl[m].deve]]
  /\ filas' = IF atrasada THEN [filas EXCEPT !.tardias = Append(@, m)] ELSE filas
  /\ Nada /\ UNCHANGED <<tipo, faltas>>
============================================================================
