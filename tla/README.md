# Amélie in TLA+

Specifications, model-checking configurations and machine-checked proofs for
Amélie, a chat assistant made of two programs: the bot, in Gleam on the Erlang
VM (`src/src`), and the bridge to WhatsApp, in Go (`src/whatsmeow-bridge`).
Operators, variables and actions keep the (Portuguese) names of the source
where they have one.

## 1. The system

```
WhatsApp --events--> bridge (Go) --POST /webhook--> bot (Gleam) --HTTPS--> AI provider
                       |  ^                           |    |
              webhook_queue, session store            |    +--HTTPS--> Telegram
                       |  +----POST /send, /health----+
                       +------ spool directory of media files (shared) ------+
```

| Component | Source | State it keeps | Operations | What is hard about it |
|---|---|---|---|---|
| Delivery journal | `adaptadores/transacao_sqlite` | table `transacoes` on one SQLite connection the whole bot shares | registrar, atualizar_status, atualizar_erro, marcar_entregue, obter_pendentes, limpar_antigas | each operation is one statement, `registrar` is two; statements of all processes interleave |
| Audited send | `shell/entrega_auditada` | none: a handler process per message | record, send, write the outcome | killed or failing between any two steps |
| Retry queue | `shell/fila_offline` | an actor, ticked every interval | read open rows, ask the bridge once, per row wait or send and write | works on a snapshot while handlers write the same rows |
| Channels | `adaptadores/whatsmeow_http`, `telegram_http`, `roteador_mensageiro`, `handleSend` | the session, in the bridge | send | an answer may be lost after delivery; error codes classify failures across two languages |
| Breaker and retries | `shell/disjuntor`, `shell/ia_resiliente` | Fechado / Aberto / SemiAberto, mailbox | Verificar, Sucesso, Falha; three attempts with backoff | late answers, lost probes, outcomes of old calls |
| Bridge queue | `main.go`, `queue_retention.go`, `history_recovery.go` | table `webhook_queue`, spool files | enqueueAndDeliver, processQueue, cleanupQueue | several goroutines post one row; restarts of either program; expiry |
| Reception | `amelie_gleam.gleam`, `fila_atrasadas`, `manutencao`, head of `tratador_mensagem` | ids received, the serial late queue | webhook, ja_processada, maintenance | duplicates, files consumed by reading, marks made before the work |
| Anti-spam | `core/anti_spam`, `shell/anti_spam` | one register per chat, in memory | avaliar, avaliar_atrasada, desbloquear, limpar_inativos | stamps handled out of order; pruning; midnight |
| Video context | `video_contexto_sqlite`, `fila_midia`, `tratador_mensagem` | one row per chat, files at the provider | describe, ask, forget | the row is read before a call of minutes and changed after it |
| Media retry | `main.go` | two maps under `retryMu`, sleeping goroutines | requestMediaRetry, handleMediaRetry, sticker fallback | the answer of the phone, the timer and other copies of the message race |
| Pairing, session | `pairing.go`, `main.go` | client, generation, stop channel, connection error | request, watch, renew, reset, LoggedOut | the client is replaced inside and outside the mutex |
| Supervision | `amelie_gleam.gleam`, `arvore_supervisao` | the actors | start, restart | actors lose their state; tables stay, but the start updates the settings |
| Commands, history, configuration | `tratador_mensagem`, `historico_sqlite`, `config_sqlite` | turns per chat, configuration per chat | commands, summaries | read-modify-write across statements and AI calls |
| AI cache | `cache_ia` | answers with an expiry | look up, insert, evict | limit and expiry |
| Telegram receiver | `receptor_telegram`, `telegram_webhook` | the polling offset | poll, dispatch | a batch is confirmed by the next poll, not by its handlers; the loop may end |
| History recovery | `history_recovery.go` | messages already taken, under `historyMu` | read a packet, recover what was not answered | packets overlap and their goroutines take the lock in any order |
| Stickers | `main.go`, `media_exec.go` | conversion slots | convert, lay out the contact sheet | slots run out; a conversion may fail half way |
| Groups | `chat_policy.go`, `main.go`, `grupo_sqlite` | time of the last attempt to leave | leave | events of a group the bot is leaving; an attempt fails |
| Pure code | `core/processador`, `autorizacao`, `comando/despachante`, prompts, validation, mime and size limits, HTTP guards | none | | |

What makes each correct, in one line each: a reply recorded is delivered or
given up for a cause, and not delivered many times; a failing provider is left
alone and rediscovered; a message WhatsApp delivered reaches the bot and is
acted on once; a silenced chat stays silent and a day's limit is a limit; a
video file is not deleted under a context that names it, nor kept without one;
a sticker always gets an answer; a pairing code that died is replaced or its
death is announced, and never replaces a newer one; a chat keeps its history
until somebody erases it, forgets what was erased, and obeys the last setting;
what reaches the bridge is queued whichever way it came.

## 2. The modules

| Module | Models | Extends |
|---|---|---|
| `Transacoes` | the journal: rows, ids, `last_insert_rowid()`, failing statements | |
| `Canal` | session, error classes, a send, what really happened to each reply | `Transacoes` |
| `EntregaAuditada` | a handler sending its reply | `Canal` |
| `FilaOffline` | the retry queue | `Canal` |
| `Entrega` | the two together, with maintenance, other tables, clock, restart | both |
| `Registro` | abstract: what the journal promises of each reply | |
| `EntregaRegistro` | the refinement mapping from `Entrega` to `Registro` | `Entrega` |
| `Disjuntor` | the breaker actor and its mailbox | |
| `IaResiliente` | its callers, the provider, the clock | `Disjuntor` |
| `FilaPonte` | `webhook_queue` and the spool | |
| `Recepcao` | webhook, late queue, deduplication, maintenance of the bot | `FilaPonte` |
| `Chegada` | the way of a message through both programs, with restarts of each | `Recepcao` |
| `AntiSpam` | the register of one chat and the questions on their way to the actor | |
| `ContextoVideo` | the row of one chat, the media queue, the handlers, the files | |
| `RetryMidia` | the media retry of one message | |
| `Pareamento` | clients, codes, watchers, renewals, resets of the session | |
| `Conversa` | the handlers of one chat over its history, its settings and the ids received | |
| `ReceptorTelegram` | the Telegram poller in front of them | `Conversa` |
| `Figurinhas` | the arithmetic of contact sheets and canvases | |
| `Recebimento` | events, history recovery, sticker conversions, leaving a group | `Figurinhas` |
| `*_proofs` (seven) | theorems, for `Entrega` (with the refinement), `IaResiliente`, `Chegada`, `AntiSpam`, `ContextoVideo`, `Pareamento`, `ReceptorTelegram` | the module of that name |
| `Ponte_proofs` | theorems for the goroutines of the bridge | `RetryMidia`, `Recebimento` |
| `MC*` | the definitions a configuration needs | the module of that name |

### Delivery of replies

`linhas` is the table, keyed by row id; `prox` is the AUTOINCREMENT counter;
`ultimo` is what `last_insert_rowid()` would answer on the shared connection.
`rem[e]` is where the handler of reply `e` stands: `novo`, `inserido` (after
the INSERT, before the SELECT of the id), `envio`, `gravacao` (after the send,
before the write), `descarte` (between the two statements of a definitive
failure), `fim`. `fila.pc`, `lote` and `visto` are the same for the queue: the
snapshot is `lote` with the counters `visto`, gone through in row order, and
each write uses `visto`, not the table, as the code does. `Canal.enviar` picks
an answer the channel can give in its present state and may lose it after
delivery. `hist` (received, failures that count, refused) is a history variable
that only properties read.

Error codes are classes: the codes of a bridge without a session
(`CodigosPonte`), refusals, and everything else. `codigos_sessao` is copied
from the source, so a code of the bridge that is not in it counts as any other
failure, as it does in the code.

`Registro` is the abstract specification: it knows no rows, attempts or
statements, only what the journal says of each reply (`fora`, `aberta`,
`entregue`, `descartada`, `esquecida`), what happened to it, and who still
holds it. `EntregaRegistro` reads these off the table: the status of the row a
reply's own INSERT created, the history of the channel, and as holders the
reply's handler, the queue's snapshot and any handler that was given the id of
the row by `last_insert_rowid()`. `CumpreRegistro` says that every behaviour of
`Entrega` is one of `Registro`; that a verdict is final once nobody holds the
reply (`VereditoFinal`) follows in the abstract module.

### Breaker

The mailbox is a sequence; a caller that sent `Verificar` waits for at most a
second: it either gets its answer or goes ahead (`Desistir`), and then its
question is still in the mailbox. Times are ages in ticks. `seguidas` and
`sondagem` are history variables.

### Incoming messages

`webhook_queue` rows have a message, a state, a count of attempts and an age.
The goroutines that received the message (`via`) and the one worker
(`trabalhador`) both post; `Postar` is one step of the bot: it refuses, or
accepts, reads and deletes the media file and starts a handler (`tratador`) or
queues it as late. Writing the file and inserting the row are one step. A
handler runs age check, the SELECT and the INSERT of the deduplication and the
processing as separate steps. Processing itself is one step here. Time is
`hora`, in ticks; all limits of age are constants in the same ticks, and their
order is the one of the code (an hour for a delivered row and for a file, 24 for
the queue, 48 for the age of a message, seven days for its id).

### Anti-spam

`registro` is the register of one chat. `perguntas` are questions stamped by
their handlers and not handled yet; the actor takes any of them, because each
handler reads the clock before it sends. Tokens and weights are counted in
the tokens one tick refills. `feito` is a history record. The administrator is
exempt before the register is touched and is left out.

### Video context

`contexto` is the row, `arquivos` the files at the provider, `fila` the serial
media queue, `atendente[a]` a handler with the row it read (`lido`). A file is
named by the order of its upload. A handler charges a question only when the
delivery of its answer returned `Ok`. If it returned an error, WhatsApp may have
the answer, or the journal has its row open and the retry queue sends it later;
if the user gets it, `Perguntar` counts it in `respostas` and as a fault. An
answer that goes out twice is one answer here; how often is the business of
`Entrega`.

### Media retry

`pendente` and `tentativas` are the two maps for the one message, `relogios`
the goroutines asleep in `scheduleStickerMetadataFallback`, `correio` the
answers of the phone, `passagem[p]` a goroutine running `processMessage`.

### Pairing

`cliente` is `b.client`; each whatsmeow client has a device and socket
(`sessao`), a QR channel (`canal`) and perhaps a code a user can confirm
(`codigo`). The phone number is known. `rotina[r]` is a goroutine inside
`pairLocked`, `deleteSessionStore` or the steps around them, `trava` the holder
of `pairingMu`, `vigias` the goroutines of `watchPairing`. A client number is
used again once nothing refers to it any more.

### One chat

`hdl[m]` is the process that handles message `m` of a chat, one SQL statement
per step, with the settings it read (`cfg`), the turns a summary read (`lidos`)
and those it erased and has yet to write back (`deve`). `historico` is the
sequence of turns, `config` the row of settings, `recebidas` the ids already
received, `filas` the late queue and the mailbox of the image queue. AI calls
and sends change no table: they are the choice, in the step after them, between
going on and giving up. A turn is named by speaker and message, a setting by the
message that chose it; `memoria` and `ajustes` are history variables. A restart
(`Derrubar`) ends the processes and does to the settings what
`config_sqlite.criar` does at every start: videos switched off are on again, and
a model on its list is replaced by the default, each in a statement that may
fail without notice. `ajustes.vencidos` are the commands a start came to undo,
whether its statement worked or not. In `ReceptorTelegram` the server keeps
updates until it is asked with an offset beyond them, and the poller asks as
soon as it has handed out a batch. `Recepcao` has the same head of the handler
with times and media files, and stops where `Conversa` goes on.

### What reaches the bridge

`eventos` is what whatsmeow has for the handler, in order. A history packet is
a stretch of `linha`, the chat, and leaves what follows the last answer of
Amélie to a goroutine that waits in `espera` for `historyMu`, whose holder
works through `dono`. `conversoes` are the goroutines converting a sticker,
`vagas` the slots they hold. Queueing a message is one step here, because
`FilaPonte` has its statements. `Figurinhas` holds the pure part: the frames
sampled from an animation, the grid, and the limit on a canvas, which the code
compares with a quotient so that the product cannot overflow.

## 3. What is checked

Passing runs. Every property has a plausible bug of the code under which TLC
finds it violated with the same configuration (`mutants` in `PROJECT.json`;
each mutant is defined beside the definition it changes).

| Run | Question | Bounds | Shows |
|---|---|---|---|
| `entrega` | one reply, handler and queue on the same row | 1 reply by WhatsApp, 2 attempts, 1 failing statement, 1 restart, 1 lost answer, 3 days | `EntregueFoiRecebida`, `DescarteTemCausa`, `TentativasSaoFalhas`, `FalhasLimitadas`, `RecebidasLimitadas`, `FilaEsvazia`, the refinement `CumpreRegistro` |
| `ia_resiliente` | two callers, one breaker | 2 failures open it, 2 attempts, 1 fault (late answer or killed caller) | `AberturaTemCausa`, `SondasEspacadas`, `TodaChamadaTermina`, `Recuperacao` |
| `chegada` | a media message through both programs | 1 message, 2 rows, 2 attempts, 2 handlers, 1 fault | `EntregueFoiAceita`, `SoRepeteSobreposta`, `SoFaltaMidiaRepetida`, `TodaLinhaResolve`, `AceitaProcessada` |
| `anti_spam` | one chat over two days | 2 questions on their way, clock to 6 ticks, day of 4 ticks, daily limit 2, 1 release | `AlertaSilencia`, `TetoDiario` |
| `contexto_video` | one chat, two handlers | 2 videos, quota 2, 1 fault | `ContextoTemArquivo`, `SobraTemCausa`, `RespostasPorVideo`, `ContextoAcaba` |
| `retry_midia` | one message | 3 goroutines, 2 copies, 4 requests, 1 fault | `PerdaTemMotivo`, `PendenteTemRelogio`, `PedidosLimitados`, `FigurinhaResponde` |
| `pareamento` | requests, resets, expiries | 3 goroutines, 4 clients, 2 renewals, 1 request, 1 loss, 1 fault | `RenovacoesLimitadas`, `ClienteUnico`, `ErroDeOrfao`, `VigiaNaoAtropela`, `CodigoMortoResponde` |
| `conversa` | two messages of one chat from Telegram | 6 kinds of message, `.audio`, `.video off` and `.reset` among them, summaries from 2 turns on, 1 fault (statement, also one of the start, restart or killed handler) | `MemoriaFica`, `ResetEsquece`, `UltimoAjusteVence`, `TodaMensagemTratada` |
| `recebimento` | a private chat with animated stickers, next to a group | 2 messages, 1 slot, 1 event waiting, 2 packets, 1 fault; sheets of 16 frames from animations of up to 120, canvases of sides to 110 with a limit of 100 pixels | `FolhasCompletas`, `TelasPeloTamanho`, `TodaRecebidaSegue`, `VagasVoltam`, `SaiDoGrupo` |

Why the bounds are enough: the races are between two processes, and each run
has the two: the handler of a reply and the queue (`entrega`), two handlers
(`contexto_video`, `conversa`), two callers, the goroutine that inserted a
row and the worker that retries it (`chegada`), two recoveries and the live
event (`recebimento`), and three goroutines where a third can undo what two did
(`retry_midia`, `pareamento`). `chegada` has one receiving goroutine, which
takes a message again when the history sync repeats it. Limits of counts are
two, so that below, at and beyond the limit all occur. Time limits are given in
ticks that keep their order. One fault of each kind is enough to separate any
two steps. What is proved (section 5) does not depend on any bound; in
particular the race of two handlers over `last_insert_rowid()`, which takes two
replies, is covered by the proofs of `Entrega` and of the refinement.

Some larger instances were explored once, without a violation, and are too long
to keep as runs: `CumpreRegistro` with two replies; the invariants of `conversa`
with two faults (2.4 million states) and those of `chegada` with two receiving
goroutines and no fault (936,242 states); `UltimoAjusteVence` with the kinds
`.video on`, `.video off`, `.modelo` of a retired model and `.reset`, two
messages and two faults (890,670 states), and with three messages and one fault;
the invariants of `pareamento` with two requests and two losses (14.5 million
states, not exhausted). `TypeOK` is proved where a module has proofs; that of
`Registro` was checked once on the instance of `entrega`, and is in no run
because the other properties already constrain those variables.

The inductive invariants of section 5 were checked with TLC before they were
proved, on the instances of the runs and on larger ones: `Contas` with two
replies (18 million states, not exhausted), `Cota` with three handlers and one
video, that of `VigiaNaoAtropela` with more losses (14 million states, not
exhausted), that of `ReceptorTelegram` with three messages (2.6 million
states), `Conduzida` with two messages, two receiving goroutines and two faults
(16.7 million states, not exhausted), `VagasContadas`, `NadaSome` and
`TomadasGuardadas` on a larger `recebimento` (19 million states, not exhausted),
`EsperaNaCaixa` with two faults (906,368 states), `NadaPulado` and `Amparo` on
the instances of their runs. The check of `ReceptorTelegram` corrected two
properties: with only two messages
`MemoriaFica` and `ResetEsquece` held without two of the exceptions they now
make. A summary written while another one waits for the AI is cleared by it
with all that it stands for; and what a waiting summary has read may itself be a
summary, so a reset does not only have the turns it read come back, but also
those which these turns stand for.

`CHECK_DEADLOCK FALSE` appears where a bounded behaviour really ends: all
replies are closed and the clock is at its bound, all messages handled, nobody
pairs any more.

### Where the code departs from what it says

Three runs state a sentence of the repository and find it violated:

| Run | Sentence | What happens |
|---|---|---|
| `entrega_sessao` | `fila_offline.gleam:50`: failures of the session do not use up attempts | `session_reset` and `pairing_timeout`, codes of the bridge, are not in `codigos_sessao`; three of them discard the reply |
| `chegada_spool` | `main.go:1382`: spool files stay while the queue still tries | the bot's hourly maintenance deletes files of the shared directory after one hour; the message arrives without its media |
| `retry_midia_recusa` | `README.md:31`: an expired sticker is described from its declared data | if the phone refuses the upload, `handleMediaRetry` has already taken the entry the fallback needs, and nobody answers |

A fourth was seen while writing `AntiSpam`: the comment at `anti_spam.gleam:36`
says strike 3 silences for 30 minutes, but running out of tokens after strike 2
makes three strikes with a pause of 30 seconds and no alert (line 351). So
`AlertaSilencia` speaks of alerts and not of strikes.

Other behaviours the models show. Properties name them as the exceptions they
make, and most are denied by no comment:

* Delivery. A handler may write its outcome on the row of another (the id race;
  properties except those rows by `IdAlheio`). The handler's late write puts the
  counter back to 1, so a reply may be tried up to twice the limit.
* Video. An answer about an old video deletes the context of a newer one and
  leaves its file at the provider. An answer whose delivery failed, and which
  the retry queue then delivers, is never charged to the quota.
* Bridge queue. A row that cannot be delivered uses up its 100 attempts long
  before the 24 hours.
* Media retry. The limit of one request holds for media other than stickers
  only up to arrivals and failures (`PedidosLimitados`), because whoever ends a
  passage forgets the attempts of the others; for stickers there is no such
  limit.
* Pairing. A client orphaned by a reset or logout outside the mutex may keep a
  code the user can confirm (`cruzou` in `ClienteUnico`).
* History. `resumir_historico` reads, asks the AI, clears the chat and writes
  the summary: turns and summaries written meanwhile are lost, and a summary in
  flight over a `.reset` brings the erased turns back. A summary need not name a
  medium, and then the bot takes the chat for one without media.
* Settings. A command writes back the whole row it read, so two at once lose
  one of the changes, and the default row that a first message inserts may
  overwrite a command. A command in the late queue may come after, and
  override, a newer one that ran at once. Every start of the bot undoes
  `.video off` in all chats and replaces three Gemini models (`Desfeitos`),
  where `config/providers.yaml:6-7` still offers two of them for `.modelo` and
  `ROADMAP.md:36-37` speaks of only two and says that other choices are kept.
  `UltimoAjusteVence` makes an exception of these. The third UPDATE of the
  start, on rows with a prompt of their own, finds only rows of older versions,
  because no command reaches `AtivarPrompt`.
* Telegram. The batch is confirmed by the next poll, so a crash loses what its
  handlers had not marked. The poller ends for good when a webhook is active,
  and nothing but a restart starts it again.
* History recovery. The comment at `history_recovery.go:84-87` counts on an
  order of packets that goroutines waiting for a mutex do not keep. A message
  is marked as taken before it is processed, so an error loses it until the
  bridge restarts; what a restart interrupts is not recovered; and a message
  left unanswered before a later answer never is.

## 4. Fairness

Liveness is checked under weak fairness of what the two runtimes schedule: each
Erlang process and actor (`fila_offline` ticks for ever, the breaker takes its
mailbox in order), each goroutine that has something to do, sleepers, and the
clock. There is no fairness on faults, on arrivals, on the answers of providers
or on the state of the session: where a property needs one it says so in its
premise (`FilaEsvazia` assumes the session stops flapping, `Recuperacao` that
the provider is well for good and calls keep coming, `ContextoAcaba` that the
chat keeps asking). `Pareamento` uses strong fairness for goroutines because
they take turns at a mutex, and Go's `sync.Mutex` does not starve a waiter; its
watchers stand in one set, so one of them must not be passed over for ever by
others. Its environment is fair only in what whatsmeow guarantees: a QR channel
ends, and a device that was paired connects. `Chegada` has fairness for the
worker and the bot's handlers, none for the goroutines that may die with the
bridge. `ReceptorTelegram` has fairness for the poller, which asks again after
every answer but one, and for each handler, whose calls have time limits; none
for the user, the webhook, the restarts or the late queue's kills.
`Recebimento` has it for the event handler, the recoveries, each conversion and
the attempt to leave (both have a time limit in the code), and for the clock;
`SaiDoGrupo` assumes that the group keeps writing.

## 5. What is proved

TLAPS checks, for every value of the constants that meets the assumptions named
in the modules:

* `Entrega_proofs`: `TypeOK`, and `EntregueFoiRecebida`, `DescarteTemCausa`,
  `TentativasSaoFalhas` from one inductive invariant `IInv`. The properties are
  not inductive: they speak of the table, while the danger lies in what a
  process carries between reading and writing. `IInv` adds that ids are handed
  out once (`DonosCertos`), that what a handler is about to write is what
  happened (`RemetenteSabe`), and the same for the queue and its snapshot
  (`FilaSabe`). The proof goes through one relation `Avanca` - history only
  grows, rows keep owner and date, ids once read stay - that every step
  satisfies, and then looks at the few steps that write. `FalhasLimitadas` and
  `RecebidasLimitadas` rest on accounts (`Contas`): the failures of a reply are
  covered by the counter of its row, by what its handler did before its write
  (after which the write may have put the counter back, so it covers up to
  `tentativas_max`), by the send the queue has not written yet, and by one per
  failed statement or restart; while a snapshot has the row, the counter in the
  snapshot covers them as well. Its deliveries are covered likewise, and by one
  less while the row is open. A send adds to one side what it adds to the other,
  and the queue sends only below the limit. The same module proves
  `CumpreRegistro`, the refinement, and `VereditoFinal`. The initial state maps
  to the initial state of `Registro`; each step is shown to be one of its
  actions or a stutter, action by action, from `IInv` and `Avanca`. What the
  mapping adds to think about is who holds a reply: a step that writes needs its
  process among the holders before, and a step that reads open rows may only
  take replies that are open or whose id a foreign handler has.
* `IaResiliente_proofs`: `TypeOK`, `AberturaTemCausa`, `SondasEspacadas`. The
  last needs, beyond itself, that the breaker's own age bounds the age of the
  last probe (`SondaAntiga`). `EsperaNaCaixa` says that no wake-up is lost: a
  caller that waits has its question in the mailbox. It has to be said of the
  mailbox by position, because questions of calls that gave up stay in it; it is
  inductive because the answer to such a question only reaches a caller that
  asked since, and the actor takes one message at a time.
* `Chegada_proofs`: `TypeOK`, `EntregueFoiAceita`, `SoRepeteSobreposta`,
  `SoFaltaMidiaRepetida`, over all three modules at once. `Ponte` and `Gleam`
  are the types with the facts that rows, goroutines and handlers refer to rows
  that were inserted; `Avanca` collects what no step takes back. On it rest
  three strengthenings: `Provada` (whoever is about to mark a row as delivered
  has had a post of it accepted), `Unica` (for a message whose checks did not
  overlap, one handler has it, and as long as it may still be found new nobody
  has acted on it; ids are forgotten only when the message is too old to be
  taken again, which is where the order of the two constants enters), and
  `MidiaLevada` (a file that is gone was read by a handler, or is old).
  `Conduzida` is the other half of "once": a message Gleam took is in the hands
  of a handler until it is acted on, cut short or too old, where the handler
  that drops its message as already received relies on the one whose mark it
  saw. With `EntregueFoiAceita` it gives `EntregueNaoSePerde`, end to end: a row
  the bridge has marked as delivered belongs to a message of which that is true.
* `AntiSpam_proofs`: `TypeOK`, `AlertaSilencia`, `TetoDiario`. `Castigo` says
  that while the 30 minutes of an alert run the register is in memory and says
  so, `Contagens` that the register counts what was accepted on its day since
  the count last started again.
* `ContextoVideo_proofs`: `TypeOK`, `ContextoTemArquivo`, `SobraTemCausa`. The
  strengthening says that the file the media queue works on is newer than the
  one of the row and than any a handler has read (`Novidade`), and that nobody
  fills the row while the queue replaces it, nor is about to delete the file the
  row names, unless a statement failed (`Substituicao`). `RespostasPorVideo`
  rests on an account (`Cota`): as long as the row of a video is open, the
  answers about it and the questions the row has left come to at most the quota,
  the charges that handlers owe (`Devendo`) and those that faults took
  (`Perdido`), the answers whose delivery failed among them; once the row is
  closed, only the handlers that had read it before may still answer
  (`Respondendo`). Handlers are counted with the theorems on cardinality, so
  their number is assumed to be finite.
* `Ponte_proofs`, for `RetryMidia`: `TypeOK`, `PendenteTemRelogio`,
  `PerdaTemMotivo`, `PedidosLimitados`. For the losses: as long as a message
  that arrived is not in the table and no cause is known, a goroutine works on
  it or its entry is pending (`Guardada`), and who is about to clear that entry
  has a cause (`LimpaComCausa`). For the requests, an account (`Pago`): requests
  made, and those goroutines may still make, are paid for by arrivals and
  failures; it counts sets of goroutines with the theorems on cardinality. For
  `Recebimento`: `TypeOK`; the books of the conversion slots (`VagasContadas`:
  the slots in use are the conversions that run, each counted once); the action
  property `NadaSome` (no step lets go of a message but into the queue, or for
  an error or a restart) and `TomadasGuardadas` (what the recovery marked as
  taken is converted, queued or lost with a cause), which together are what
  `TodaRecebidaSegue` says without the scheduling. `FolhasCompletas` and
  `TelasPeloTamanho` are arithmetic, proved for every number of frames and every
  canvas. The samples are collected by a recursive function, and that it
  collects each index once and in order is an induction, made here with the
  least number for which it would fail (`MenorNatural`); the quotients are
  handled by the inequalities that define them (`Quociente`).
* `Pareamento_proofs`: `TypeOK`, `ClienteUnico`, `RenovacoesLimitadas`,
  `VigiaNaoAtropela`, `ErroDeOrfao`, and the safe part of `CodigoMortoResponde`.
  `Boa` adds to the types that whoever is past the deletion in `pairLocked`
  holds the mutex; `Unico` that until a deletion has crossed a pairing, whoever
  deletes the session holds the mutex or nobody does, and the current client is
  the only one with a session, a code or a goroutine that connects it; `Saldo`
  is an account again: the codes made, with the renewals that watchers and
  goroutines have left, stay within what the calls admit. The action property
  `VigiaNaoAtropela` comes from `Vigilia`: a renewal comes from a QR channel
  that timed out, whose client is idle (`Expirados`), and as long as it has the
  current generation nobody pairs and the current client is that one or another
  idle one (`Geracoes`); what a reset or a logout does to the clients keeps this
  (`Calma`). `ErroDeOrfao` needs besides that only `Trocar` can leave a second
  client alive, and then says so (`Sozinho`); that the renewal which gives up,
  the one step that records an error over a client it did not end, finds it
  without a session is `Vigilia` once more. `MortoAmparado` says that while the
  administrator holds a dead code and no session is up, something is under way
  that will tell more: a goroutine at work that is not a superseded renewal, a
  sleep, or the watcher of the newest code on a channel that can only time out -
  or the failure was one the bridge only logs. It needs that who holds the mutex
  has the newest generation (`Posse`), that a watcher starts on an open channel,
  and that a paired session has none (`Canais`).
* `ReceptorTelegram_proofs`: `TypeOK`, `MemoriaFica`, `ResetEsquece`,
  `UltimoAjusteVence`, over `Conversa` too. The first two need to know what is
  in the history and was not read by a summary that waits (`Janela`) and what a
  summary still carries of what was erased (`Copias`); the lemmas on `Cobertos`
  are the algebra of "word for word or in a summary". The third needs that the
  only handler that holds the settings has the row as it is (`Sozinho`), and
  that a command is marked as received before it is obeyed and so never obeyed
  twice (`UmaVez`), and that a start turns what the settings should have been
  before it into what they should be after it (`Reposto`), for which the
  commands it undoes must be among those obeyed before it (`Obedecidos`).
  `NadaPulado` is about the offset: the server drops only what was handed to a
  handler, and neither the offset nor the place in the batch goes past a message
  that still has to be handed out (`PorEntregar`), which after a restart
  includes those whose handlers died with the application.

The assumptions are on constants only: bounds are numbers, the limits the code
compares are ordered as in the code (`IdadeMaxima <= RetencaoRecebidas`,
`IdadeMidia <= IdadeSpool`), more than one attempt is allowed, and the distinct
values are distinct.

Only model-checked: liveness, and so the fairness of section 4 and ENABLED,
which the prover does not support beyond propositional steps. Every other
property of a passing run is a theorem. What could be proved about the liveness
properties is the part without scheduling, that the work is never left where
nobody will take it up again: `PendenteTemRelogio` for `FigurinhaResponde`,
`EsperaNaCaixa` for `TodaChamadaTermina`, `Conduzida` for `AceitaProcessada`,
`NadaPulado` for `TodaMensagemTratada`, `NadaSome` and `TomadasGuardadas` for
`TodaRecebidaSegue`, `VagasContadas` for `VagasVoltam`, `MortoAmparado` for
`CodigoMortoResponde`. For the other five there is no such part to prove: the
queue takes its snapshot from the table itself (`FilaEsvazia`), the worker
likewise (`TodaLinhaResolve`), and `Recuperacao`, `ContextoAcaba` and
`SaiDoGrupo` wait for time limits that the models carry as ages.

## 6. What is not modelled

`PROJECT.json` lists every component. Left out for good: building requests and
prompts, formatting, logging, the checks of one HTTP request, size and type
limits, external media programs, metrics. Left out because nothing else depends
on it: the cache of AI answers, which may only answer sooner what was answered
before, and the table of groups, which is only written. Abstracted: contents of
messages; chats (one at a time, as they share nothing except the journal and the
breaker); the six session events that only set another error code
(`StreamReplaced`, `ConnectFailure`, `StreamError`, `ClientOutdated`,
`CATRefreshError`, `TemporaryBan`), and those that are only logged; `.cego`,
`.legenda` and the remaining switches of a chat, which save the settings in the
statement `.audio` does and which no start undoes. `Conversa` has more kinds of
message than the instance of its run: links, which go the way of a text in a
chat with media; `.curto` and `.longo`, which differ from `.audio` only in the
field; `.video on`; and `.modelo`, of a model a start replaces or another.
`Pareamento` leaves out the branches without a phone number (`main.go:388-393`
and `1900`, a start without `BotPhone`), and `FilaPonte` that for a payload
which cannot be decoded (`main.go:1569-1573`), as the bridge wrote it itself.
`notifyGleamEvent` posts each pairing event from a goroutine of its own, so
events may overtake each other on their way to the administrator
(`main.go:1942`); `Pareamento` ends where they are posted. The restart of a
single actor by the supervisor is not modelled, the restart of the application
is. `limpar_expirados` of the video context has no caller in the program and is
not an action.

## 7. Plan

Order of work, most important first; steps 1 to 11 are done.

1. Delivery: `Transacoes`, `Canal`, `EntregaAuditada`, `FilaOffline`, `Entrega`,
   with proofs.
2. `Disjuntor`, `IaResiliente`, with proofs.
3. `FilaPonte`, `Recepcao`, `Chegada`.
4. `AntiSpam`; `ContextoVideo` with proofs.
5. `RetryMidia`; `Pareamento`.
6. The abstract journal `Registro`, and the refinement checked and proved.
7. `Conversa` and `ReceptorTelegram`: history, settings, at most once.
8. `Recebimento` and `Figurinhas`: recovery, conversions, groups.
9. Proofs for `Chegada`, `AntiSpam`, `RetryMidia`, `Pareamento`.
10. Proofs of the counting bounds of delivery (`FalhasLimitadas`,
    `RecebidasLimitadas`) and of video (`RespostasPorVideo`), of
    `VigiaNaoAtropela`, and of the safety of `Conversa` and `ReceptorTelegram`.
11. Proofs for `Recebimento` and `Figurinhas`; the safe part of the liveness
    properties of `IaResiliente`, `Chegada`, `Recebimento`, `Pareamento` and
    `ReceptorTelegram`; `ErroDeOrfao`, which was the liveness property "an error
    over a live session goes away" until the invariant showed that there is none
    as long as `b.client` is not replaced alive.
12. An abstract permit that lets calls through and pauses, implemented by
    `IaResiliente`.
13. The cache of AI answers; the order of pairing events; the restart of single
    actors.
