------------------------------ MODULE Recepcao ------------------------------
(***************************************************************************)
(* What Gleam does with a message the bridge posts: the webhook            *)
(* (src/src/amelie_gleam.gleam), the process it starts or the serial queue *)
(* it uses (src/src/shell/fila_atrasadas.gleam), the deduplication at the  *)
(* head of tratador_mensagem.tratar and the hourly maintenance.            *)
(***************************************************************************)
EXTENDS FilaPonte

CONSTANTS
  MaxTratadores,     \* bound: posts Gleam may accept
  IdadeMidia,        \* manutencao deletes media files this old (1 h)
  IdadeMaxima,       \* older messages are ignored (48 h)
  RetencaoRecebidas  \* a message id is remembered this long (7 days)

ASSUME RecepcaoAssumption ==
  /\ MaxTratadores \in Nat /\ IdadeMidia \in Nat
  /\ IdadeMaxima \in Nat /\ RetencaoRecebidas \in Nat
  /\ IdadeMaxima <= RetencaoRecebidas /\ IdadeMidia <= IdadeSpool

VARIABLES
  gleam,               \* "no ar" or "fora"
  tratador,            \* one record per accepted post, in the order of arrival
  recebidas,           \* table mensagens_recebidas: message -> tick, or Ausente
  processadas,         \* message -> times the bot has acted on it; no code state
  sobrepostas,         \* messages that two handlers could find new; no code state
  interrompidas        \* messages a handler of which was cut short; no code state

varsGleam == <<gleam, tratador, recebidas, processadas, sobrepostas, interrompidas>>

Tratadores == 1..MaxTratadores
Ausente == MaxHora + 1

Passos == {"ausente", "carregar", "checar", "marcar", "processar", "fim"}

(* linha: the row posted; tardia: handled by the serial queue; faltou: its *)
(* media could not be read, so that the user is asked to send it again.    *)
Tratador == [pc : Passos, msg : Mensagens \cup {Nenhuma}, linha : 0..MaxFila,
             tardia : BOOLEAN, faltou : BOOLEAN]

TypeOKGleam ==
  /\ gleam \in {"no ar", "fora"}
  /\ tratador \in [Tratadores -> Tratador]
  /\ recebidas \in [Mensagens -> 0..Ausente]
  /\ processadas \in [Mensagens -> Nat]
  /\ sobrepostas \subseteq Mensagens
  /\ interrompidas \subseteq Mensagens

InitGleam ==
  /\ gleam = "no ar"
  /\ tratador = [h \in Tratadores |-> [pc |-> "ausente", msg |-> Nenhuma, linha |-> 0,
                                       tardia |-> FALSE, faltou |-> FALSE]]
  /\ recebidas = [m \in Mensagens |-> Ausente]
  /\ processadas = [m \in Mensagens |-> 0]
  /\ sobrepostas = {}
  /\ interrompidas = {}

Vivo(h) == tratador[h].pc \notin {"ausente", "fim"}

(* The handler has yet to mark its message as received. *)
SemMarca(h) == tratador[h].pc \in {"carregar", "checar", "marcar"}

---------------------------------------------------------------------------
(* validar_webhook: a payload whose media file is gone is answered 400. *)
Valida(id) == webhook_queue[id].msg \in Midias => id \in spool

(* The next record for a handler. *)
Livre(h) ==
  tratador[h].pc = "ausente" /\ \A g \in 1..(h - 1) : tratador[g].pc # "ausente"

(* despachar_webhook: a message that was late gets its media read now and  *)
(* queues up; any other gets a process of its own.  e_atrasada: more than  *)
(* two minutes, so within the first tick both happen.                      *)
Despachar(id) ==
  \E h \in Tratadores, tardia \in BOOLEAN :
    LET m == webhook_queue[id].msg IN
    /\ Livre(h)
    /\ hora > 0 => tardia
    /\ tratador' = [tratador EXCEPT ![h] =
         [pc |-> IF tardia THEN "checar" ELSE "carregar", msg |-> m, linha |-> id,
          tardia |-> tardia, faltou |-> FALSE]]
    /\ spool' = IF tardia THEN spool \ {id} ELSE spool
    /\ sobrepostas' = IF \E g \in Tratadores : SemMarca(g) /\ tratador[g].msg = m
                      THEN sobrepostas \cup {m} ELSE sobrepostas
    /\ UNCHANGED <<gleam, recebidas, processadas, interrompidas>>

(* One post of row id (postToGleam, tratar_webhook).  ok is what the bridge *)
(* sees: an error also when Gleam is down, says 400, or its answer is lost; *)
(* beyond MaxTratadores every post fails.                                   *)
Postar(id, ok) ==
  \/ /\ ok /\ gleam = "no ar" /\ Valida(id)
     /\ Despachar(id)
     /\ UNCHANGED faltas
  \/ /\ ~ok /\ gleam = "no ar" /\ Valida(id)
     /\ Falta
     /\ Despachar(id)
  \/ /\ ~ok /\ (gleam = "fora" \/ ~Valida(id) \/ ~\E h \in Tratadores : Livre(h))
     /\ UNCHANGED <<spool, faltas>> /\ UNCHANGED varsGleam

(* fila_atrasadas runs one late message at a time, in order. *)
Vez(h) == tratador[h].tardia =>
            \A g \in 1..(h - 1) : tratador[g].tardia => ~Vivo(g)

Passo(h, de) == Vez(h) /\ tratador[h].pc = de

(* carregar_midia: the file is read and deleted; if it is not there the    *)
(* message turns into MidiaIndisponivel.                                   *)
CarregarMidia(h) ==
  /\ Passo(h, "carregar")
  /\ LET id == tratador[h].linha IN
       /\ tratador' = [tratador EXCEPT ![h].pc = "checar", ![h].faltou = ~Valida(id)]
       /\ spool' = spool \ {id}
  /\ UNCHANGED <<gleam, recebidas, processadas, sobrepostas, interrompidas, faltas>>

(* A slip: a message is old as soon as it is late. *)
mensagem_antiga_cedo == hora > 0

(* mensagem_antiga: every message was sent at tick 0. *)
mensagem_antiga == hora > IdadeMaxima

(* The handler ends; what it was matters no more. *)
Fim(h) == [tratador[h] EXCEPT !.pc = "fim", !.tardia = FALSE]

(* tratar_chegada up to foi_recebida; a SELECT that fails lets it pass. *)
Checar(h) ==
  /\ Passo(h, "checar")
  /\ LET m == tratador[h].msg
         nova == ~mensagem_antiga /\ recebidas[m] = Ausente IN
       \/ /\ tratador' = [tratador EXCEPT ![h] =
               IF nova THEN [@ EXCEPT !.pc = "marcar"] ELSE Fim(h)]
          /\ UNCHANGED <<sobrepostas, faltas>>
       \/ /\ ~mensagem_antiga
          /\ Falta
          /\ tratador' = [tratador EXCEPT ![h].pc = "processar"]
          /\ sobrepostas' = sobrepostas \cup {m}
  /\ UNCHANGED <<spool, gleam, recebidas, processadas, interrompidas>>

(* marcar_recebida, INSERT OR IGNORE; a failure is logged and ignored. *)
Marcar(h) ==
  /\ Passo(h, "marcar")
  /\ LET m == tratador[h].msg IN
       \/ /\ recebidas' = [recebidas EXCEPT ![m] = IF @ = Ausente THEN hora ELSE @]
          /\ UNCHANGED <<sobrepostas, faltas>>
       \/ /\ Falta
          /\ sobrepostas' = sobrepostas \cup {m}
          /\ UNCHANGED recebidas
  /\ tratador' = [tratador EXCEPT ![h].pc = "processar"]
  /\ UNCHANGED <<spool, gleam, processadas, interrompidas>>

(* The bot acts on the message: anti-spam, commands, AI, reply. *)
Processar(h) ==
  /\ Passo(h, "processar")
  /\ processadas' = [processadas EXCEPT ![tratador[h].msg] = @ + 1]
  /\ tratador' = [tratador EXCEPT ![h] = Fim(h)]
  /\ UNCHANGED <<spool, gleam, recebidas, sobrepostas, interrompidas, faltas>>

(* fila_atrasadas kills a task that runs for more than 300 s. *)
MatarTardia(h) ==
  /\ tratador[h].tardia /\ Vivo(h) /\ Vez(h)
  /\ Falta
  /\ tratador' = [tratador EXCEPT ![h] = Fim(h)]
  /\ interrompidas' = interrompidas \cup {tratador[h].msg}
  /\ UNCHANGED <<spool, gleam, recebidas, processadas, sobrepostas>>

(* Slips: media of any age is deleted; ids are forgotten while the message *)
(* may still come back.                                                    *)
ManutencaoSemIdade ==
  /\ gleam = "no ar"
  /\ spool' = {}
  /\ UNCHANGED <<recebidas, faltas, gleam, tratador, processadas, sobrepostas, interrompidas>>

ManutencaoCedo ==
  /\ gleam = "no ar"
  /\ spool' = {i \in spool : Idade(i) < IdadeMidia}
  /\ recebidas' = [m \in Mensagens |->
       IF recebidas[m] # Ausente /\ hora - recebidas[m] >= RetencaoRecebidas
       THEN Ausente ELSE recebidas[m]]
  /\ UNCHANGED <<gleam, tratador, processadas, sobrepostas, interrompidas, faltas>>

(* manutencao.executar: media files first, then old message ids. *)
Manutencao ==
  /\ gleam = "no ar"
  /\ spool' = {i \in spool : Idade(i) < IdadeMidia}
  /\ recebidas' = [m \in Mensagens |->
       IF recebidas[m] # Ausente /\ hora - recebidas[m] > RetencaoRecebidas
       THEN Ausente ELSE recebidas[m]]
  /\ UNCHANGED <<gleam, tratador, processadas, sobrepostas, interrompidas, faltas>>

(* Gleam stops: handlers and the serial queue's mailbox are lost. *)
Cair ==
  /\ gleam = "no ar"
  /\ Falta
  /\ gleam' = "fora"
  /\ interrompidas' = interrompidas \cup {tratador[h].msg : h \in {g \in Tratadores : Vivo(g)}}
  /\ tratador' = [h \in Tratadores |-> IF Vivo(h) THEN Fim(h) ELSE tratador[h]]
  /\ UNCHANGED <<spool, recebidas, processadas, sobrepostas>>

Subir ==
  /\ gleam = "fora"
  /\ gleam' = "no ar"
  /\ UNCHANGED <<spool, tratador, recebidas, processadas, sobrepostas, interrompidas, faltas>>

PassoTratador(h) == CarregarMidia(h) \/ Checar(h) \/ Marcar(h) \/ Processar(h)
============================================================================
