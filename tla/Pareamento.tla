----------------------------- MODULE Pareamento -----------------------------
(***************************************************************************)
(* Pairing codes of the bridge (src/whatsmeow-bridge/pairing.go and the    *)
(* handlers of main.go that reset or lose the session).                    *)
(*                                                                         *)
(* pairLocked runs under pairingMu, but the reset of the session and the   *)
(* LoggedOut event call deleteSessionStore outside it, and all of them     *)
(* replace b.client.  Each goroutine at work is a Rotina; a step ends at a *)
(* call to the network or the database, at the mutex, or at a sleep.       *)
(* The whatsmeow clients, the server and the user who types the code are   *)
(* external: Confirmar, Autenticar, Expirar, Romper, Cair.                 *)
(***************************************************************************)
EXTENDS Naturals, FiniteSets

CONSTANTS
  Rotinas,     \* goroutines that may be in these sections at the same time
  Ninguem,     \* nobody holds pairingMu
  Renovacoes,  \* pairingAutoRenewals
  Clientes,    \* numbers for the clients that somebody still refers to
  MaxPedidos,  \* bound: codes asked for, at the start or by the administrator
  MaxPerdas,   \* bound: resets and LoggedOut events
  MaxFaltas    \* bound: calls that fail, sockets that drop, pairing errors

ASSUME PareamentoAssumption ==
  /\ Ninguem \notin Rotinas /\ IsFiniteSet(Rotinas) /\ Rotinas # {}
  /\ Clientes \subseteq Nat \ {0} /\ 1 \in Clientes
  /\ MaxPedidos > 0 /\ {Renovacoes, MaxPedidos, MaxPerdas, MaxFaltas} \subseteq Nat

VARIABLES
  cliente,      \* b.client
  sessao,       \* each client: its device and its socket
  canal,        \* each client: its QR channel
  codigo,       \* clients whose pairing code the user can still confirm
  trava,        \* who holds pairingMu
  gen,          \* pairingGen; the stop channels of older generations are closed
  rotina,       \* each goroutine: where it stands and why it runs
  vigias,       \* goroutines of watchPairing
  adormecidas,  \* goroutines that sleep after a reset or a LoggedOut event
  erro,         \* lastConnectionError is set
  aviso,        \* the last thing the administrator was told
  pedidos, perdas, faltas,  \* what has been spent of the bounds
  chamadas,     \* calls of requestPairingCode; read by properties only
  orfao,        \* b.client was replaced while alive; read by properties only
  cruzou,       \* a reset or a LoggedOut event overlapped the holder of pairingMu; likewise
  calado        \* a failure only reached the log; read by properties only

vars == <<cliente, sessao, canal, codigo, trava, gen, rotina, vigias,
          adormecidas, erro, aviso, pedidos, perdas, faltas, chamadas, orfao, cruzou, calado>>
clientesV == <<cliente, sessao, canal, codigo, orfao, cruzou, calado>>
limites == <<pedidos, perdas, faltas>>

Motivos == {"inicio", "admin", "perda", "renovar"}

Rotina == [pc : {"livre", "apagar", "trocar", "esperar", "conectar", "parear", "avisar"},
           motivo : Motivos,
           gen : Nat, canal : Clientes \cup {0}, resta : 0..Renovacoes]

Livre == [pc |-> "livre", motivo |-> "admin", gen |-> 0, canal |-> 0, resta |-> 0]

(* A goroutine about to call requestPairingCode. *)
Pedindo(motivo) == [Livre EXCEPT !.pc = "esperar", !.motivo = motivo, !.resta = Renovacoes]

(* Start: a saved session connects; without one, and with BotPhone, a code *)
(* is asked for.                                                           *)
Init ==
  /\ cliente = 1
  /\ canal = [c \in Clientes |-> "nenhum"] /\ codigo = {}
  /\ trava = Ninguem /\ gen = 0 /\ vigias = {} /\ adormecidas = 0
  /\ erro = FALSE /\ aviso = "nada"
  /\ perdas = 0 /\ faltas = 0
  /\ orfao = FALSE /\ cruzou = FALSE /\ calado = FALSE
  /\ \E s \in {"nova", "pareada"}, i \in Rotinas :
       /\ sessao = [c \in Clientes |-> IF c = 1 THEN s ELSE "nova"]
       /\ rotina = [r \in Rotinas |->
                      IF r = i /\ s = "nova" THEN Pedindo("inicio") ELSE Livre]
       /\ pedidos = IF s = "nova" THEN 1 ELSE 0
  /\ chamadas = pedidos

---------------------------------------------------------------------------
Vai(r, pc) == rotina' = [rotina EXCEPT ![r].pc = pc]
Fim(r) == rotina' = [rotina EXCEPT ![r] = Livre]
Falta == faltas < MaxFaltas /\ faltas' = faltas + 1 /\ UNCHANGED <<pedidos, perdas>>
SemFalta == UNCHANGED limites

(* notifyGleamEvent, or the response of a request: the administrator is    *)
(* told.  The five tries of its goroutine are taken as one that succeeds.  *)
Notificar(evento) == aviso' = evento

(* Sections that delete the session outside pairingMu. *)
Apagando == {r \in Rotinas : rotina[r].motivo = "perda" /\ rotina[r].pc \in {"apagar", "trocar"}
                              /\ trava # r}
Cruza(agora) == cruzou' = (cruzou \/ agora)

(* handlePairPhone: refused if the session is connected and logged in. *)
PedirCodigo(r) ==
  /\ rotina[r].pc = "livre" /\ pedidos < MaxPedidos
  /\ sessao[cliente] # "logada"
  /\ pedidos' = pedidos + 1 /\ chamadas' = chamadas + 1
  /\ rotina' = [rotina EXCEPT ![r] = Pedindo("admin")]
  /\ UNCHANGED <<clientesV, trava, gen, vigias, adormecidas, erro, aviso, perdas, faltas>>

(* handleResetSession: disconnects and marks the session as reset; the     *)
(* response tells the administrator.                                       *)
Resetar(r) ==
  /\ rotina[r].pc = "livre" /\ perdas < MaxPerdas
  /\ perdas' = perdas + 1
  /\ sessao' = [sessao EXCEPT ![cliente] = CASE @ = "aberta" -> "nova"
                                             [] @ = "logada" -> "pareada"
                                             [] OTHER -> @]
  /\ codigo' = codigo \ {cliente}
  /\ erro' = TRUE /\ Notificar("queda") /\ Cruza(trava # Ninguem)
  /\ rotina' = [rotina EXCEPT ![r] = [Livre EXCEPT !.pc = "apagar", !.motivo = "perda"]]
  /\ UNCHANGED <<cliente, canal, trava, gen, vigias, adormecidas, pedidos, faltas,
                 chamadas, orfao, calado>>

(* The LoggedOut event, which any client can raise. *)
Deslogar(r, c) ==
  /\ rotina[r].pc = "livre" /\ perdas < MaxPerdas /\ sessao[c] = "logada"
  /\ perdas' = perdas + 1
  /\ sessao' = [sessao EXCEPT ![c] = "nova"]
  /\ erro' = TRUE /\ Cruza(trava # Ninguem)
  /\ rotina' = [rotina EXCEPT ![r] = [Livre EXCEPT !.pc = "apagar", !.motivo = "perda"]]
  /\ UNCHANGED <<cliente, canal, codigo, trava, gen, vigias, adormecidas, aviso,
                 pedidos, faltas, chamadas, orfao, calado>>

(* deleteSessionStore: the current client is disconnected and its device   *)
(* deleted (read once here; nothing waits in between).                     *)
Apagar(r) ==
  /\ rotina[r].pc = "apagar"
  /\ sessao' = [sessao EXCEPT ![cliente] = "nova"]
  /\ codigo' = codigo \ {cliente}
  /\ Vai(r, "trocar")
  /\ UNCHANGED <<cliente, canal, trava, gen, vigias, adormecidas, erro, aviso,
                 limites, chamadas, orfao, cruzou, calado>>

(* A client nobody refers to any more gives its number to a new one. *)
EmUso ==
  {cliente} \cup {c \in Clientes : sessao[c] # "nova" \/ canal[c] = "aberto"}
            \cup {v.canal : v \in vigias} \cup {rotina[r].canal : r \in Rotinas}

(* Its socket is open, opening or to be opened again. *)
Vivo(c) ==
  sessao[c] # "nova" \/ \E r \in Rotinas : rotina[r].pc = "conectar" /\ rotina[r].canal = c

(* deleteSessionStore: the new client.  Under the mutex pairLocked goes on *)
(* with it: GetQRChannel, which cannot fail on a client just made, and the *)
(* call of Connect.  Otherwise a goroutine sleeps and will ask for a code. *)
Trocar(r) ==
  /\ rotina[r].pc = "trocar"
  /\ \E novo \in Clientes \ EmUso :
       /\ \A c \in Clientes \ EmUso : novo <= c
       /\ cliente' = novo /\ canal' = [canal EXCEPT ![novo] = "nenhum"]
       /\ IF trava = r
          THEN /\ rotina' = [rotina EXCEPT ![r].pc = "conectar", ![r].canal = novo]
               /\ UNCHANGED adormecidas
          ELSE Fim(r) /\ adormecidas' = adormecidas + 1
  /\ orfao' = (orfao \/ Vivo(cliente))
  /\ UNCHANGED <<sessao, codigo, trava, gen, vigias, erro, aviso, limites, chamadas,
                 cruzou, calado>>

(* The sleep of 3 s (LoggedOut) or 2 s (reset) is over. *)
Acordar(r) ==
  /\ rotina[r].pc = "livre" /\ adormecidas > 0
  /\ adormecidas' = adormecidas - 1 /\ chamadas' = chamadas + 1
  /\ rotina' = [rotina EXCEPT ![r] = Pedindo("perda")]
  /\ UNCHANGED <<clientesV, trava, gen, vigias, erro, aviso, limites>>

---------------------------------------------------------------------------
(* Under pairingMu.  An error ends pairLocked: a renewal announces it      *)
(* before it releases the mutex, the other callers after.                  *)
Falha(r) ==
  /\ trava' = Ninguem
  /\ IF rotina[r].motivo = "renovar"
     THEN Fim(r) /\ Notificar("queda")
     ELSE Vai(r, "avisar") /\ UNCHANGED aviso

(* The response of the administrator, or whatsapp_down; an error at the    *)
(* start of the bridge only reaches the log.                               *)
Avisar(r) ==
  /\ rotina[r].pc = "avisar"
  /\ IF rotina[r].motivo = "inicio"
     THEN calado' = TRUE /\ UNCHANGED aviso
     ELSE Notificar("queda") /\ UNCHANGED calado
  /\ Fim(r)
  /\ UNCHANGED <<cliente, sessao, canal, codigo, orfao, cruzou, trava, gen, vigias,
                 adormecidas, erro, limites, chamadas>>

(* A slip: renewPairing does not compare the generations. *)
SuperadaNunca(r) == FALSE

(* A newer code has been asked for since the goroutine got its generation. *)
Superada(r) == rotina[r].motivo = "renovar" /\ rotina[r].gen # gen

Esgotada(r) == rotina[r].motivo = "renovar" /\ rotina[r].resta = 0

(* renewPairing: nothing to do, or the renewals are exhausted. *)
DeixarParaLa(r) ==
  /\ rotina[r].pc = "esperar" /\ trava = Ninguem
  /\ Superada(r) /\ Fim(r)
  /\ UNCHANGED <<clientesV, trava, gen, vigias, adormecidas, erro, aviso, limites, chamadas>>

Desistir(r) ==
  /\ rotina[r].pc = "esperar" /\ trava = Ninguem
  /\ ~Superada(r) /\ Esgotada(r)
  /\ erro' = TRUE /\ Notificar("queda") /\ Fim(r)
  /\ UNCHANGED <<clientesV, trava, gen, vigias, adormecidas, limites, chamadas>>

(* A slip: a renewal does not count. *)
RestamSemContar(r) == rotina[r].resta

(* How many renewals pairLocked is given. *)
Restam(r) == IF rotina[r].motivo = "renovar" THEN rotina[r].resta - 1 ELSE Renovacoes

(* A slip: pairing does not take the mutex. *)
LivreParaSempre(r) == TRUE

(* pairingMu can be taken. *)
LivreParaParear(r) == trava = Ninguem

(* requestPairingCode or renewPairing, and pairLocked up to the deletion. *)
Parear(r) ==
  /\ rotina[r].pc = "esperar" /\ LivreParaParear(r)
  /\ ~Superada(r) /\ ~Esgotada(r)
  /\ IF sessao[cliente] = "logada"
     THEN Falha(r) /\ UNCHANGED gen
     ELSE /\ trava' = r /\ gen' = gen + 1 /\ UNCHANGED aviso
          /\ rotina' = [rotina EXCEPT ![r].pc = "apagar", ![r].gen = gen + 1,
                                      ![r].resta = Restam(r)]
  /\ Cruza(Apagando # {})
  /\ UNCHANGED <<cliente, sessao, canal, codigo, orfao, calado, vigias, adormecidas,
                 erro, limites, chamadas>>

(* Connect returns; its client may have been replaced by now. *)
Conectar(r) ==
  /\ rotina[r].pc = "conectar"
  /\ \/ /\ sessao' = [sessao EXCEPT ![rotina[r].canal] = "aberta"]
        /\ canal' = [canal EXCEPT ![rotina[r].canal] = "aberto"]
        /\ Vai(r, "parear") /\ UNCHANGED <<trava, aviso>> /\ SemFalta
     \/ Falha(r) /\ Falta /\ UNCHANGED <<sessao, canal>>
  /\ UNCHANGED <<cliente, codigo, orfao, cruzou, calado, gen, vigias, adormecidas, erro,
                 chamadas>>

(* PairPhone, on whatever b.client is by now; then the code is announced   *)
(* and watched.                                                            *)
PairPhone(r) ==
  /\ rotina[r].pc = "parear"
  /\ \/ /\ sessao[cliente] = "aberta"
        /\ codigo' = codigo \cup {cliente}
        /\ vigias' = vigias \cup {[gen |-> rotina[r].gen, canal |-> rotina[r].canal,
                                   resta |-> rotina[r].resta]}
        /\ Notificar("codigo") /\ trava' = Ninguem /\ Fim(r) /\ SemFalta
     \/ /\ sessao[cliente] = "aberta" => faltas < MaxFaltas
        /\ IF sessao[cliente] = "aberta" THEN Falta ELSE SemFalta
        /\ Falha(r) /\ UNCHANGED <<codigo, vigias>>
  /\ UNCHANGED <<cliente, sessao, canal, orfao, cruzou, calado, gen, adormecidas, erro,
                 chamadas>>

---------------------------------------------------------------------------
(* watchPairing ends: the stop channel was closed, or the channel brought  *)
(* success or an error.                                                    *)
PararVigia(v) ==
  /\ v \in vigias
  /\ v.gen < gen \/ canal[v.canal] \in {"sucesso", "erro"}
  /\ vigias' = vigias \ {v}
  /\ UNCHANGED <<clientesV, trava, gen, rotina, adormecidas, erro, aviso, limites, chamadas>>

(* A slip: watchPairing takes a timeout as an end like the others. *)
RenovarNunca(r, v) ==
  /\ v \in vigias /\ rotina[r].pc = "livre" /\ canal[v.canal] = "expirou"
  /\ vigias' = vigias \ {v}
  /\ UNCHANGED <<clientesV, trava, gen, rotina, adormecidas, erro, aviso, limites, chamadas>>

(* watchPairing sees the timeout and calls renewPairing; with the stop     *)
(* channel closed as well, select may take either.                         *)
Renovar(r, v) ==
  /\ v \in vigias /\ rotina[r].pc = "livre" /\ canal[v.canal] = "expirou"
  /\ vigias' = vigias \ {v}
  /\ rotina' = [rotina EXCEPT ![r] = [pc |-> "esperar", motivo |-> "renovar", gen |-> v.gen,
                                      canal |-> v.canal, resta |-> v.resta]]
  /\ UNCHANGED <<clientesV, trava, gen, adormecidas, erro, aviso, limites, chamadas>>

---------------------------------------------------------------------------
(* The user types the code: PairSuccess. *)
Confirmar(c) ==
  /\ c \in codigo
  /\ codigo' = codigo \ {c}
  /\ sessao' = [sessao EXCEPT ![c] = "pareada"]
  /\ canal' = [canal EXCEPT ![c] = IF @ = "aberto" THEN "sucesso" ELSE @]
  /\ UNCHANGED <<cliente, orfao, cruzou, calado, trava, gen, rotina, vigias, adormecidas,
                 erro, aviso, limites, chamadas>>

(* Connected: clearConnectionError. *)
Autenticar(c) ==
  /\ sessao[c] = "pareada"
  /\ sessao' = [sessao EXCEPT ![c] = "logada"]
  /\ erro' = FALSE
  /\ UNCHANGED <<cliente, canal, codigo, orfao, cruzou, calado, trava, gen, rotina, vigias,
                 adormecidas, aviso, limites, chamadas>>

(* The refs of the QR channel run out, and whatsmeow drops the socket; the *)
(* timers run even if the client has been disconnected before.             *)
Expirar(c) ==
  /\ canal[c] = "aberto"
  /\ canal' = [canal EXCEPT ![c] = "expirou"]
  /\ sessao' = [sessao EXCEPT ![c] = "nova"]
  /\ codigo' = codigo \ {c}
  /\ UNCHANGED <<cliente, orfao, cruzou, calado, trava, gen, rotina, vigias, adormecidas,
                 erro, aviso, limites, chamadas>>

(* PairError and the like: the channel ends with an error. *)
Romper(c) ==
  /\ canal[c] = "aberto" /\ sessao[c] = "aberta" /\ Falta
  /\ canal' = [canal EXCEPT ![c] = "erro"]
  /\ sessao' = [sessao EXCEPT ![c] = "nova"]
  /\ codigo' = codigo \ {c}
  /\ erro' = TRUE /\ calado' = TRUE
  /\ UNCHANGED <<cliente, orfao, cruzou, trava, gen, rotina, vigias, adormecidas, aviso,
                 chamadas>>

(* The server drops the socket of a session: Disconnected. *)
Cair(c) ==
  /\ sessao[c] = "logada" /\ Falta
  /\ sessao' = [sessao EXCEPT ![c] = "pareada"]
  /\ erro' = TRUE
  /\ UNCHANGED <<cliente, canal, codigo, orfao, cruzou, calado, trava, gen, rotina, vigias,
                 adormecidas, aviso, chamadas>>

---------------------------------------------------------------------------
Passo(r) ==
  \/ Apagar(r) \/ Trocar(r) \/ Avisar(r) \/ DeixarParaLa(r) \/ Desistir(r) \/ Parear(r)
  \/ Conectar(r) \/ PairPhone(r)

Vigiar == \E v \in vigias : PararVigia(v) \/ \E r \in Rotinas : Renovar(r, v)

Mundo(c) == Autenticar(c) \/ Expirar(c)

Next ==
  \/ \E r \in Rotinas :
       PedirCodigo(r) \/ Resetar(r) \/ (\E c \in Clientes : Deslogar(r, c))
       \/ Acordar(r) \/ Passo(r)
  \/ Vigiar
  \/ \E c \in Clientes : Confirmar(c) \/ Romper(c) \/ Cair(c) \/ Mundo(c)

Spec == Init /\ [][Next]_vars

(* Goroutines run, and get the mutex and a turn in the end; sleeps and     *)
(* codes run out; a paired device connects.  Nobody must type a code.      *)
Fairness ==
  /\ \A r \in Rotinas : SF_vars(Passo(r))
  /\ SF_vars(\E r \in Rotinas : Acordar(r))
  /\ SF_vars(Vigiar)
  /\ \A c \in Clientes : WF_vars(Mundo(c))

FairSpec == Spec /\ Fairness

---------------------------------------------------------------------------
(* The type of every variable; the renewals left stay within Renovacoes. *)
TypeOK ==
  /\ cliente \in Clientes
  /\ sessao \in [Clientes -> {"nova", "aberta", "pareada", "logada"}]
  /\ canal \in [Clientes -> {"nenhum", "aberto", "sucesso", "erro", "expirou"}]
  /\ codigo \subseteq Clientes
  /\ trava \in Rotinas \cup {Ninguem} /\ gen \in Nat
  /\ rotina \in [Rotinas -> Rotina]
  /\ vigias \subseteq [gen : 1..gen, canal : Clientes, resta : 0..Renovacoes]
  /\ adormecidas \in Nat /\ erro \in BOOLEAN /\ aviso \in {"nada", "codigo", "queda"}
  /\ pedidos \in 0..MaxPedidos /\ perdas \in 0..MaxPerdas /\ faltas \in 0..MaxFaltas
  /\ chamadas \in Nat /\ orfao \in BOOLEAN /\ cruzou \in BOOLEAN /\ calado \in BOOLEAN

(* However requests, resets, expiries and renewals interleave, each call   *)
(* of requestPairingCode makes one code and at most Renovacoes renewals.   *)
RenovacoesLimitadas == gen <= chamadas * (Renovacoes + 1)

Renova(r) == rotina[r].motivo = "renovar" /\ rotina[r].pc = "esperar"

(* Only a reset or a LoggedOut event that deletes the session while some   *)
(* pairing holds the mutex can leave a client behind that still lives or   *)
(* whose code the user can still confirm: the mutex keeps the codes asked  *)
(* for, the renewals and the new codes after a reset apart.                *)
ClienteUnico ==
  ~cruzou => /\ codigo \subseteq {cliente}
             /\ \A c \in Clientes : Vivo(c) => c = cliente

(* The expiry of a code never disturbs a newer one: when a renewal starts  *)
(* over, gives up or announces that it failed, the current client has no   *)
(* code in the hands of the user, and is not logged in if it gives up.     *)
VigiaNaoAtropela ==
  [][ \A r \in Rotinas : Renova(r) /\ (gen' # gen \/ aviso' # aviso) /\ ~Renova(r)' =>
        cliente \notin codigo /\ (erro' # erro => sessao[cliente] # "logada") ]_vars

(* The administrator was given a code that can no longer be confirmed, and *)
(* no session is up.                                                       *)
CodigoMorto ==
  /\ aviso = "codigo" /\ codigo = {}
  /\ \A c \in Clientes : sessao[c] \notin {"pareada", "logada"}

(* The administrator is not left with a dead code for ever: another code,  *)
(* or a failure, is announced - unless pairing failed where the bridge     *)
(* only logs it: at its start, or by an error on the QR channel.           *)
CodigoMortoResponde == CodigoMorto ~> ~CodigoMorto \/ calado

(* Health says unavailable over a session that is up only after b.client   *)
(* was replaced while alive: a reset or a LoggedOut event ends the session *)
(* it records an error over, and a renewal that gives up, or a failed      *)
(* pairing, that lost a race records none over the session that won.       *)
ErroDeOrfao == erro /\ sessao[cliente] = "logada" => orfao

============================================================================
