--------------------------- MODULE ContextoVideo ---------------------------
(***************************************************************************)
(* The last video of a chat: table video_contexto                          *)
(* (src/src/adaptadores/video_contexto_sqlite.gleam), the actor that       *)
(* describes videos (src/src/shell/fila_midia.gleam), the handlers that    *)
(* answer questions about it or forget it                                  *)
(* (src/src/shell/tratador_mensagem.gleam), and the files the AI provider  *)
(* keeps.  Chats share no row and no file: the module is about one chat.   *)
(*                                                                         *)
(* Each SQL statement and each call to the provider is a step; the actor   *)
(* is serial, handlers are not.  A file is named by the order of its       *)
(* upload; a context's age is counted in ticks and stops at its validity.  *)
(***************************************************************************)
EXTENDS Naturals, FiniteSets

CONSTANTS
  Atendentes,                 \* processes that handle messages of the chat
  MaxVideos,                  \* bound: videos the chat sends
  perguntas_followup_video,   \* 2 in the code
  validade_contexto_video_s,  \* 1800 s in the code; ticks here
  MaxFaltas                   \* bound: failing SQL statements or file deletions,
                              \* deliveries that err but reach the user,
                              \* handlers killed, restarts

ASSUME ContextoVideoAssumption ==
  /\ IsFiniteSet(Atendentes)
  /\ MaxVideos \in Nat /\ MaxFaltas \in Nat
  /\ perguntas_followup_video \in Nat \ {0}
  /\ validade_contexto_video_s \in Nat \ {0}

VARIABLES
  contexto,    \* the chat's row, or SemContexto
  arquivos,    \* files the provider keeps
  fila,        \* the actor: where it stands, its file, the one it replaces
  atendente,   \* each handler: where it stands, what it read of the row
  subidos,     \* videos uploaded so far
  faltas,      \* what has been spent of MaxFaltas
  respostas,   \* file -> questions answered about it, one that goes out twice
               \* being one; read by properties only
  tomados      \* files whose row a handler of another video deleted; read by
               \* properties only

vars == <<contexto, arquivos, fila, atendente, subidos, faltas, respostas, tomados>>

Videos == 1..MaxVideos
Nenhum == 0
Talvez == Videos \cup {Nenhum}
Idades == 0..validade_contexto_video_s

(* SemContexto: no row. *)
Contexto == [uri : Talvez, restantes : 0..perguntas_followup_video, idade : Idades]
SemContexto == [uri |-> Nenhum, restantes |-> 0, idade |-> 0]

Ha == contexto.uri # Nenhum

Fila == [pc : {"ociosa", "descrever", "desfazer", "remover", "excluir", "apagar", "salvar"},
         uri : Talvez, antigo : Talvez]

Ociosa == [pc |-> "ociosa", uri |-> Nenhum, antigo |-> Nenhum]

Atendente == [pc : {"livre", "decidir", "perguntar", "decrementar", "contar",
                    "remover", "limpar", "excluir", "apagar"},
              lido : Contexto]

Livre == [pc |-> "livre", lido |-> SemContexto]

Init ==
  /\ contexto = SemContexto
  /\ arquivos = {}
  /\ fila = Ociosa
  /\ atendente = [a \in Atendentes |-> Livre]
  /\ subidos = 0
  /\ faltas = 0
  /\ respostas = [v \in Videos |-> 0]
  /\ tomados = {}

---------------------------------------------------------------------------
Falta == faltas < MaxFaltas /\ faltas' = faltas + 1

(* A statement or call whose failure the code ignores: var changes or not. *)
Tentar(var, feito) ==
  \/ var' = feito /\ UNCHANGED faltas
  \/ Falta /\ UNCHANGED var

(* ----- the actor of the video queue ----- *)

FilaSegue(pc) == fila' = [fila EXCEPT !.pc = pc]

(* descrever_video: the upload succeeded; one that fails changes nothing. *)
SubirVideo ==
  /\ fila.pc = "ociosa" /\ subidos < MaxVideos
  /\ subidos' = subidos + 1
  /\ arquivos' = arquivos \cup {subidos + 1}
  /\ fila' = [pc |-> "descrever", uri |-> subidos + 1, antigo |-> Nenhum]
  /\ UNCHANGED <<contexto, atendente, faltas, respostas, tomados>>

(* aguardar_video_ativo and processar_video succeed, or one of them fails. *)
DescreverVideo ==
  /\ fila.pc = "descrever"
  /\ FilaSegue("remover") \/ FilaSegue("desfazer")
  /\ UNCHANGED <<contexto, arquivos, atendente, subidos, faltas, respostas, tomados>>

DesfazerUpload ==
  /\ fila.pc = "desfazer"
  /\ Tentar(arquivos, arquivos \ {fila.uri})
  /\ fila' = Ociosa
  /\ UNCHANGED <<contexto, atendente, subidos, respostas, tomados>>

(* lembrar_video, remover: the SELECT; if it fails nothing is deleted. *)
LembrarSelecionar ==
  /\ fila.pc = "remover"
  /\ \/ /\ fila' = [fila EXCEPT !.pc = "excluir", !.antigo = contexto.uri]
        /\ UNCHANGED faltas
     \/ Falta /\ FilaSegue("salvar")
  /\ UNCHANGED <<contexto, arquivos, atendente, subidos, respostas, tomados>>

LembrarExcluir ==
  /\ fila.pc = "excluir"
  /\ Tentar(contexto, SemContexto)
  /\ FilaSegue(IF fila.antigo = Nenhum THEN "salvar" ELSE "apagar")
  /\ UNCHANGED <<arquivos, atendente, subidos, respostas, tomados>>

LembrarApagar ==
  /\ fila.pc = "apagar"
  /\ Tentar(arquivos, arquivos \ {fila.antigo})
  /\ FilaSegue("salvar")
  /\ UNCHANGED <<contexto, atendente, subidos, respostas, tomados>>

(* lembrar_video, salvar: an upsert. *)
LembrarSalvar ==
  /\ fila.pc = "salvar"
  /\ Tentar(contexto, [uri |-> fila.uri, restantes |-> perguntas_followup_video,
                       idade |-> 0])
  /\ fila' = Ociosa
  /\ UNCHANGED <<arquivos, atendente, subidos, respostas, tomados>>

PassoFila ==
  \/ DescreverVideo \/ DesfazerUpload
  \/ LembrarSelecionar \/ LembrarExcluir \/ LembrarApagar \/ LembrarSalvar

(* ----- a handler ----- *)

Segue(a, pc) == atendente' = [atendente EXCEPT ![a].pc = pc]
Larga(a) == atendente' = [atendente EXCEPT ![a] = Livre]

(* gerar_e_enviar finds a context; without one, or when the SELECT fails,  *)
(* the reply has nothing to do with videos.                                *)
ObterContexto(a) ==
  /\ atendente[a].pc = "livre" /\ Ha
  /\ atendente' = [atendente EXCEPT ![a] = [pc |-> "decidir", lido |-> contexto]]
  /\ UNCHANGED <<contexto, arquivos, fila, subidos, faltas, respostas, tomados>>

(* A slip: a context never expires. *)
EncerradoSemPrazo(lido) == lido.restantes <= 0

(* responder_sobre_video, the two guards. *)
Encerrado(lido) ==
  lido.idade >= validade_contexto_video_s \/ lido.restantes <= 0

Decidir(a) ==
  /\ atendente[a].pc = "decidir"
  /\ Segue(a, IF Encerrado(atendente[a].lido) THEN "remover" ELSE "perguntar")
  /\ UNCHANGED <<contexto, arquivos, fila, subidos, faltas, respostas, tomados>>

(* processar_video and entregar of its answer.  The user gets none if the  *)
(* AI fails, as it does when the file is gone, or if the answer is neither *)
(* journalled nor delivered, now or later.  An answer counts as soon as it *)
(* is sure to reach the user: delivered; or, although entrega_auditada     *)
(* returned an error, because the channel had it or because the row left   *)
(* open is sent by fila_offline.  That error ends the handler before the   *)
(* charge, and so does a failed write of the question to the history.      *)
Perguntar(a) ==
  /\ atendente[a].pc = "perguntar"
  /\ LET v == atendente[a].lido.uri IN
       \/ Larga(a) /\ UNCHANGED <<faltas, respostas>>          \* no answer, ever
       \/ /\ v \in arquivos
          /\ respostas' = [respostas EXCEPT ![v] = @ + 1]
          /\ \/ Segue(a, "decrementar") /\ UNCHANGED faltas   \* to be charged
             \/ Falta /\ Larga(a)                            \* never charged
  /\ UNCHANGED <<contexto, arquivos, fila, subidos, tomados>>

(* A slip: a question is not charged. *)
DecrementarNada(a) ==
  /\ atendente[a].pc = "decrementar"
  /\ Segue(a, "contar")
  /\ UNCHANGED <<contexto, arquivos, fila, subidos, faltas, respostas, tomados>>

(* decrementar_perguntas, the UPDATE, on whatever row the chat has now; an *)
(* error counts as no question left.                                       *)
Decrementar(a) ==
  /\ atendente[a].pc = "decrementar"
  /\ \/ /\ contexto' = IF contexto.restantes > 0
                       THEN [contexto EXCEPT !.restantes = @ - 1] ELSE contexto
        /\ Segue(a, "contar")
        /\ UNCHANGED faltas
     \/ Falta /\ Segue(a, "remover") /\ UNCHANGED contexto
  /\ UNCHANGED <<arquivos, fila, subidos, respostas, tomados>>

(* decrementar_perguntas, the SELECT: no row counts as no question left. *)
Contar(a) ==
  /\ atendente[a].pc = "contar"
  /\ \/ /\ IF contexto.restantes > 0 THEN Larga(a) ELSE Segue(a, "remover")
        /\ UNCHANGED faltas
     \/ Falta /\ Segue(a, "remover")
  /\ UNCHANGED <<contexto, arquivos, fila, subidos, respostas, tomados>>

(* encerrar_contexto_video, remover: the uri it finds is not used. *)
EncerrarSelecionar(a) ==
  /\ atendente[a].pc = "remover"
  /\ \/ Segue(a, "excluir") /\ UNCHANGED faltas
     \/ Falta /\ Segue(a, "apagar")
  /\ UNCHANGED <<contexto, arquivos, fila, subidos, respostas, tomados>>

(* limpar_historico: its remover decides which file is deleted; if the     *)
(* SELECT fails, none is.                                                  *)
LimparHistorico(a) ==
  /\ atendente[a].pc = "livre"
  /\ Segue(a, "limpar")
  /\ UNCHANGED <<contexto, arquivos, fila, subidos, faltas, respostas, tomados>>

LimparSelecionar(a) ==
  /\ atendente[a].pc = "limpar"
  /\ \/ /\ atendente' = [atendente EXCEPT ![a] = [pc |-> "excluir", lido |-> contexto]]
        /\ UNCHANGED faltas
     \/ Falta /\ Larga(a)
  /\ UNCHANGED <<contexto, arquivos, fila, subidos, respostas, tomados>>

(* Slips: the row is kept; the row is deleted, the file is not. *)
ExcluirNada(a) ==
  /\ atendente[a].pc = "excluir"
  /\ Segue(a, "apagar")
  /\ UNCHANGED <<contexto, arquivos, fila, subidos, faltas, respostas, tomados>>

ExcluirSemApagar(a) ==
  /\ atendente[a].pc = "excluir"
  /\ Tentar(contexto, SemContexto)
  /\ tomados' = IF Ha /\ contexto' = SemContexto /\ contexto.uri # atendente[a].lido.uri
                THEN tomados \cup {contexto.uri} ELSE tomados
  /\ Larga(a)
  /\ UNCHANGED <<arquivos, fila, subidos, respostas>>

(* remover, the DELETE: of the chat's row, whichever video it is about. *)
Excluir(a) ==
  /\ atendente[a].pc = "excluir"
  /\ Tentar(contexto, SemContexto)
  /\ tomados' = IF Ha /\ contexto' = SemContexto /\ contexto.uri # atendente[a].lido.uri
                THEN tomados \cup {contexto.uri} ELSE tomados
  /\ Segue(a, "apagar")
  /\ UNCHANGED <<arquivos, fila, subidos, respostas>>

(* apagar_video_no_provedor of the uri the handler read. *)
Apagar(a) ==
  /\ atendente[a].pc = "apagar"
  /\ Tentar(arquivos, arquivos \ {atendente[a].lido.uri})
  /\ Larga(a)
  /\ UNCHANGED <<contexto, fila, subidos, respostas, tomados>>

(* A handler that has begun goes on. *)
PassoAtendente(a) ==
  \/ Decidir(a) \/ Perguntar(a) \/ Decrementar(a) \/ Contar(a)
  \/ EncerrarSelecionar(a) \/ LimparSelecionar(a) \/ Excluir(a) \/ Apagar(a)

(* ----- the rest ----- *)

(* fila_atrasadas kills a handler after 300 s. *)
Matar(a) ==
  /\ atendente[a].pc # "livre"
  /\ Falta /\ Larga(a)
  /\ UNCHANGED <<contexto, arquivos, fila, subidos, respostas, tomados>>

(* The application is restarted: actor and handlers lose what they had. *)
Reiniciar ==
  /\ Falta
  /\ fila' = Ociosa
  /\ atendente' = [a \in Atendentes |-> Livre]
  /\ UNCHANGED <<contexto, arquivos, subidos, respostas, tomados>>

(* The age is only compared with the validity: it stops there. *)
MaisVelho(c) ==
  IF c.uri # Nenhum /\ c.idade < validade_contexto_video_s
  THEN [c EXCEPT !.idade = @ + 1] ELSE c

Envelhecer ==
  /\ contexto' = MaisVelho(contexto)
  /\ atendente' = [a \in Atendentes |->
       [atendente[a] EXCEPT !.lido = IF atendente[a].pc = "decidir" THEN MaisVelho(@) ELSE @]]
  /\ UNCHANGED <<arquivos, fila, subidos, faltas, respostas, tomados>>

Next ==
  \/ SubirVideo
  \/ PassoFila
  \/ \E a \in Atendentes :
       ObterContexto(a) \/ LimparHistorico(a) \/ PassoAtendente(a) \/ Matar(a)
  \/ Reiniciar
  \/ Envelhecer

Spec == Init /\ [][Next]_vars

(* Running handlers and the actor go on, time passes.  Nobody has to send  *)
(* a video, ask a question or clear the history.                           *)
Fairness ==
  /\ WF_vars(PassoFila)
  /\ \A a \in Atendentes : WF_vars(PassoAtendente(a))
  /\ WF_vars(Envelhecer)

FairSpec == Spec /\ Fairness

---------------------------------------------------------------------------
(* The type of every variable; the questions left stay within the quota. *)
TypeOK ==
  /\ contexto \in Contexto
  /\ arquivos \subseteq Videos
  /\ fila \in Fila
  /\ atendente \in [Atendentes -> Atendente]
  /\ subidos \in 0..MaxVideos
  /\ faltas \in 0..MaxFaltas
  /\ respostas \in [Videos -> Nat]
  /\ tomados \subseteq Videos

(* The row names a file the provider still has, although handlers delete   *)
(* the file they read of minutes ago while the actor replaces the row;     *)
(* only a failed statement leaves a row without a file.                    *)
ContextoTemArquivo == Ha /\ faltas = 0 => contexto.uri \in arquivos

(* Somebody is going to put file v into the row, or to delete it. *)
EmMaos(v) ==
  \/ fila.uri = v
  \/ fila.pc = "apagar" /\ fila.antigo = v
  \/ \E a \in Atendentes : atendente[a].pc = "apagar" /\ atendente[a].lido.uri = v

(* A file stays at the provider with no row that names it only if a        *)
(* handler that was about another video (or none) deleted its row, or if   *)
(* a call failed or was cut short.                                         *)
SobraTemCausa ==
  \A v \in arquivos :
    contexto.uri = v \/ EmMaos(v) \/ v \in tomados \/ faltas > 0

(* Handlers that read the quota at the same time may all answer, so the    *)
(* quota can be exceeded, but by no more than one answer per other handler *)
(* that runs; a fault loses at most the charge every handler has pending   *)
(* (a restart loses them all; a delivery that errs, and whose answer goes  *)
(* out all the same, loses its own).                                       *)
RespostasPorVideo ==
  \A v \in Videos :
    respostas[v] + 1 <=
      perguntas_followup_video + Cardinality(Atendentes) * (1 + faltas)

(* A context ends as long as the chat keeps asking: by quota or by age,    *)
(* even if every answer of the AI fails.                                   *)
ContextoAcaba ==
  \A v \in Videos :
    []<>(\E a \in Atendentes : atendente[a].pc = "decidir") => []<>(contexto.uri # v)

============================================================================
