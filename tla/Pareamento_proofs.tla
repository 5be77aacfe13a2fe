------------------------- MODULE Pareamento_proofs --------------------------
(***************************************************************************)
(* Pairing for any number of goroutines, clients, requests and faults:     *)
(* renewals are limited, the mutex leaves one client that matters, the     *)
(* expiry of a code does not disturb a newer one, a dead code is looked    *)
(* after, and no error stands over a session that is up.                   *)
(***************************************************************************)
EXTENDS Pareamento, FiniteSetTheorems, TLAPS

(* The variables that are not flags are well typed. *)
TypeOKResto ==
  /\ cliente \in Clientes
  /\ sessao \in [Clientes -> {"nova", "aberta", "pareada", "logada"}]
  /\ canal \in [Clientes -> {"nenhum", "aberto", "sucesso", "erro", "expirou"}]
  /\ codigo \subseteq Clientes
  /\ trava \in Rotinas \cup {Ninguem} /\ gen \in Nat
  /\ rotina \in [Rotinas -> Rotina]
  /\ vigias \subseteq [gen : 1..gen, canal : Clientes, resta : 0..Renovacoes]
  /\ adormecidas \in Nat /\ aviso \in {"nada", "codigo", "queda"}
  /\ pedidos \in 0..MaxPedidos /\ perdas \in 0..MaxPerdas /\ faltas \in 0..MaxFaltas
  /\ chamadas \in Nat

(* What holds of the goroutines as they stand: who is past the deletion in *)
(* pairLocked holds the mutex, and generations are those handed out.       *)
Trancadas ==
  \A r \in Rotinas :
    /\ rotina[r].gen <= gen
    /\ trava = r => rotina[r].pc \in {"apagar", "trocar", "conectar", "parear"}
                     /\ rotina[r].gen > 0
    /\ rotina[r].pc \in {"conectar", "parear"} => trava = r /\ rotina[r].canal \in Clientes

Boa == TypeOKResto /\ Trancadas

(* Constants. *)
LEMMA Limites ==
  /\ Ninguem \notin Rotinas /\ IsFiniteSet(Rotinas)
  /\ Clientes \subseteq Nat \ {0} /\ 1 \in Clientes /\ 0 \notin Clientes
  /\ MaxPedidos > 0
  /\ Renovacoes \in Nat /\ MaxPedidos \in Nat /\ MaxPerdas \in Nat /\ MaxFaltas \in Nat
  BY PareamentoAssumption

(* The records a goroutine is given. *)
LEMMA Rotulos ==
  /\ Livre \in Rotina /\ Livre.pc = "livre" /\ Livre.gen = 0 /\ Livre.motivo = "admin"
  /\ \A m \in Motivos :
       /\ Pedindo(m) \in Rotina /\ Pedindo(m).pc = "esperar" /\ Pedindo(m).motivo = m
       /\ Pedindo(m).gen = 0 /\ Pedindo(m).resta = Renovacoes
  /\ LET perdendo == [Livre EXCEPT !.pc = "apagar", !.motivo = "perda"] IN
     perdendo \in Rotina /\ perdendo.pc = "apagar" /\ perdendo.motivo = "perda"
       /\ perdendo.gen = 0
<1>1. Livre \in Rotina /\ Livre.pc = "livre" /\ Livre.gen = 0 /\ Livre.motivo = "admin"
  BY Limites DEF Livre, Rotina, Motivos
<1>2. ASSUME NEW m \in Motivos
      PROVE  /\ Pedindo(m) \in Rotina /\ Pedindo(m).pc = "esperar" /\ Pedindo(m).motivo = m
             /\ Pedindo(m).gen = 0 /\ Pedindo(m).resta = Renovacoes
  <2> DEFINE Com(x, pc, n, resta) == [x EXCEPT !.pc = pc, !.motivo = n, !.resta = resta]
  <2>1. \A x \in Rotina, resta \in 0..Renovacoes :
          /\ Com(x, "esperar", m, resta) \in Rotina
          /\ Com(x, "esperar", m, resta).pc = "esperar"
          /\ Com(x, "esperar", m, resta).motivo = m
          /\ Com(x, "esperar", m, resta).gen = x.gen
          /\ Com(x, "esperar", m, resta).resta = resta
    BY DEF Rotina
  <2>2. Renovacoes \in 0..Renovacoes
    BY Limites
  <2>3. Pedindo(m) = Com(Livre, "esperar", m, Renovacoes)
    BY DEF Pedindo
  <2> HIDE DEF Com
  <2> QED
    BY <1>1, <2>1, <2>2, <2>3
<1> DEFINE Perde(x) == [x EXCEPT !.pc = "apagar", !.motivo = "perda"]
<1>3. \A x \in Rotina : /\ Perde(x) \in Rotina /\ Perde(x).pc = "apagar"
                         /\ Perde(x).motivo = "perda" /\ Perde(x).gen = x.gen
  BY DEF Rotina, Motivos
<1> QED
  BY <1>1, <1>2, <1>3

Pcs == {"livre", "apagar", "trocar", "esperar", "conectar", "parear", "avisar"}

(* Goroutine r becomes x, the others stay. *)
Fica(r, x) ==
  /\ rotina' \in [Rotinas -> Rotina]
  /\ rotina'[r] = x
  /\ \A s \in Rotinas \ {r} : rotina'[s] = rotina[s]

Andou(x, y, pc) ==
  y.pc = pc /\ y.motivo = x.motivo /\ y.gen = x.gen /\ y.canal = x.canal /\ y.resta = x.resta

(* The forms in which actions move a goroutine, by their effect. *)
LEMMA Efeito ==
  ASSUME rotina \in [Rotinas -> Rotina], NEW r \in Rotinas
  PROVE  /\ Fim(r) => Fica(r, Livre)
         /\ \A x \in Rotina : rotina' = [rotina EXCEPT ![r] = x] => Fica(r, x)
         /\ \A pc \in Pcs : Vai(r, pc) => Fica(r, rotina'[r]) /\ Andou(rotina[r], rotina'[r], pc)
<1>1. \A x \in Rotina : rotina' = [rotina EXCEPT ![r] = x] => Fica(r, x)
  BY DEF Fica
<1>2. Fim(r) => Fica(r, Livre)
  BY <1>1, Rotulos DEF Fim
<1>3. ASSUME NEW pc \in Pcs, Vai(r, pc)
      PROVE  Fica(r, rotina'[r]) /\ Andou(rotina[r], rotina'[r], pc)
  <2>1. rotina' = [rotina EXCEPT ![r] = [rotina[r] EXCEPT !.pc = pc]]
    BY <1>3 DEF Vai
  <2>2. [rotina[r] EXCEPT !.pc = pc] \in Rotina
        /\ Andou(rotina[r], [rotina[r] EXCEPT !.pc = pc], pc)
    BY DEF Rotina, Pcs, Andou
  <2> HIDE DEF Rotina
  <2> QED
    BY <1>1, <2>1, <2>2 DEF Fica
<1> QED
  BY <1>1, <1>2, <1>3

(* An error inside pairLocked. *)
LEMMA EfeitoFalha ==
  ASSUME rotina \in [Rotinas -> Rotina], NEW r \in Rotinas, Falha(r)
  PROVE  /\ Fica(r, rotina'[r]) /\ rotina'[r].pc \in {"livre", "avisar"}
         /\ rotina'[r].gen \in {0, rotina[r].gen}
         /\ trava' = Ninguem /\ aviso' \in {aviso, "queda"}
<1>1. CASE rotina[r].motivo = "renovar"
  BY <1>1, Efeito, Rotulos DEF Falha, Notificar, Fica
<1>2. CASE rotina[r].motivo # "renovar"
  BY <1>2, Efeito DEF Falha, Pcs, Andou
<1> QED
  BY <1>1, <1>2

(* Goroutines that start keep the types. *)
LEMMA BoaComeco ==
  ASSUME Boa, NEW r \in Rotinas,
         PedirCodigo(r) \/ Resetar(r) \/ (\E c \in Clientes : Deslogar(r, c)) \/ Acordar(r)
  PROVE  Boa'
<1> USE Limites DEF Boa, TypeOKResto, Trancadas, clientesV, Motivos
<1>0. {"admin", "perda"} \subseteq Motivos
  OBVIOUS
<1>1. CASE PedirCodigo(r)
  <2>1. Fica(r, Pedindo("admin"))
    BY <1>0, <1>1, Efeito, Rotulos DEF PedirCodigo
  <2> QED
    BY <1>1, <2>1, Rotulos DEF PedirCodigo, Fica
<1>2. CASE Acordar(r)
  <2>1. Fica(r, Pedindo("perda"))
    BY <1>0, <1>2, Efeito, Rotulos DEF Acordar
  <2> QED
    BY <1>2, <2>1, Rotulos DEF Acordar, Fica, limites
<1> DEFINE perdendo == [Livre EXCEPT !.pc = "apagar", !.motivo = "perda"]
<1>3. CASE Resetar(r)
  <2>1. Fica(r, perdendo)
    BY <1>3, Efeito, Rotulos DEF Resetar
  <2>2. perdendo.pc = "apagar" /\ perdendo.gen = 0
    BY Rotulos
  <2> HIDE DEF perdendo
  <2>3. sessao' \in [Clientes -> {"nova", "aberta", "pareada", "logada"}]
    BY <1>3 DEF Resetar
  <2>0. rotina[r].pc = "livre" /\ UNCHANGED <<trava, gen>>
    BY <1>3 DEF Resetar
  <2>4. Trancadas'
    BY <2>0, <2>1, <2>2 DEF Fica
  <2>5. TypeOKResto'
    BY <1>3, <2>1, <2>3 DEF Resetar, Fica, Notificar
  <2> QED
    BY <2>4, <2>5
<1>4. ASSUME NEW c \in Clientes, Deslogar(r, c) PROVE Boa'
  <2>1. Fica(r, perdendo)
    BY <1>4, Efeito, Rotulos DEF Deslogar
  <2>2. perdendo.pc = "apagar" /\ perdendo.gen = 0
    BY Rotulos
  <2> HIDE DEF perdendo
  <2>0. rotina[r].pc = "livre" /\ UNCHANGED <<trava, gen>>
    BY <1>4 DEF Deslogar
  <2>3. Trancadas'
    BY <2>0, <2>1, <2>2 DEF Fica
  <2>4. TypeOKResto'
    BY <1>4, <2>1 DEF Deslogar, Fica
  <2> QED
    BY <2>3, <2>4
<1> QED
  BY <1>1, <1>2, <1>3, <1>4

(* The steps of pairing and of the deletion keep the types. *)
LEMMA BoaPasso ==
  ASSUME Boa, NEW r \in Rotinas, Passo(r)
  PROVE  Boa'
<1> USE Limites DEF Boa, TypeOKResto, clientesV, limites
<1>1. CASE Apagar(r)
  <2>1. Fica(r, rotina'[r]) /\ Andou(rotina[r], rotina'[r], "trocar")
    BY <1>1, Efeito DEF Apagar, Pcs
  <2>2. rotina[r].pc = "apagar" /\ UNCHANGED <<trava, gen>>
    BY <1>1 DEF Apagar
  <2>3. Trancadas'
    BY <2>1, <2>2 DEF Fica, Andou, Trancadas
  <2> QED
    BY <1>1, <2>1, <2>3 DEF Apagar, Fica
<1>2. CASE Trocar(r)
  <2>1. PICK novo \in Clientes \ EmUso :
          /\ cliente' = novo /\ canal' = [canal EXCEPT ![novo] = "nenhum"]
          /\ IF trava = r
             THEN /\ rotina' = [rotina EXCEPT ![r].pc = "conectar", ![r].canal = novo]
                  /\ UNCHANGED adormecidas
             ELSE Fim(r) /\ adormecidas' = adormecidas + 1
    BY <1>2 DEF Trocar
  <2>2. rotina[r].pc = "trocar" /\ UNCHANGED <<trava, gen>>
    BY <1>2 DEF Trocar
  <2>3. CASE trava = r
    <3> DEFINE x == [rotina[r] EXCEPT !.pc = "conectar", !.canal = novo]
    <3>1. x \in Rotina /\ x.pc = "conectar" /\ x.canal = novo /\ x.gen = rotina[r].gen
      BY DEF Rotina
    <3>2. rotina' = [rotina EXCEPT ![r] = x]
      BY <2>1, <2>3
    <3> HIDE DEF x
    <3>3. Fica(r, x)
      BY <3>1, <3>2, Efeito
    <3>4. Trancadas'
      BY <2>2, <2>3, <3>1, <3>3 DEF Fica, Trancadas
    <3>5. adormecidas' \in Nat
      BY <2>1, <2>3
    <3> QED
      BY <1>2, <2>1, <3>3, <3>4, <3>5 DEF Trocar, Fica
  <2>4. CASE trava # r
    <3>1. Fica(r, Livre)
      BY <2>1, <2>4, Efeito
    <3>2. Trancadas'
      BY <2>2, <2>4, <3>1, Rotulos DEF Fica, Trancadas
    <3>3. adormecidas' \in Nat
      BY <2>1, <2>4
    <3> QED
      BY <1>2, <2>1, <3>1, <3>2, <3>3 DEF Trocar, Fica
  <2> QED
    BY <2>3, <2>4
<1>3. CASE Avisar(r) \/ DeixarParaLa(r) \/ Desistir(r)
  <2>1. Fica(r, Livre) /\ UNCHANGED <<trava, gen>> /\ rotina[r].pc \in {"avisar", "esperar"}
    BY <1>3, Efeito DEF Avisar, DeixarParaLa, Desistir
  <2>2. Trancadas'
    BY <2>1, Rotulos DEF Fica, Trancadas
  <2>3. aviso' \in {"nada", "codigo", "queda"}
    BY <1>3 DEF Avisar, DeixarParaLa, Desistir, Notificar
  <2> QED
    BY <1>3, <2>1, <2>2, <2>3 DEF Avisar, DeixarParaLa, Desistir, Fica
<1>4. CASE Parear(r)
  <2>1. rotina[r].pc = "esperar" /\ trava = Ninguem
    BY <1>4 DEF Parear, LivreParaParear
  <2>2. CASE sessao[cliente] = "logada"
    <3>1. Falha(r) /\ UNCHANGED gen
      BY <1>4, <2>2 DEF Parear
    <3>2. /\ Fica(r, rotina'[r]) /\ rotina'[r].pc \in {"livre", "avisar"}
          /\ rotina'[r].gen \in {0, rotina[r].gen}
          /\ trava' = Ninguem /\ aviso' \in {aviso, "queda"}
      BY <3>1, EfeitoFalha
    <3>3. Trancadas'
      BY <2>1, <3>1, <3>2 DEF Fica, Trancadas
    <3> QED
      BY <1>4, <3>1, <3>2, <3>3 DEF Parear, Fica
  <2>3. CASE sessao[cliente] # "logada"
    <3> DEFINE x == [rotina[r] EXCEPT !.pc = "apagar", !.gen = gen + 1, !.resta = Restam(r)]
    <3>0. Restam(r) \in 0..Renovacoes
      <4>1. rotina[r].resta \in 0..Renovacoes
        BY DEF Rotina
      <4>2. rotina[r].motivo # "renovar" \/ rotina[r].resta # 0
        BY <1>4, Zenon DEF Parear, Esgotada
      <4> QED
        BY <4>1, <4>2 DEF Restam
    <3>1. x \in Rotina /\ x.pc = "apagar" /\ x.gen = gen + 1
      <4> DEFINE Com(g, s) == [rotina[r] EXCEPT !.pc = "apagar", !.gen = g, !.resta = s]
      <4>1. \A g \in Nat, s \in 0..Renovacoes :
              Com(g, s) \in Rotina /\ Com(g, s).pc = "apagar" /\ Com(g, s).gen = g
        BY DEF Rotina
      <4>2. x = Com(gen + 1, Restam(r)) /\ gen + 1 \in Nat
        OBVIOUS
      <4> HIDE DEF Com, x
      <4> QED
        BY <3>0, <4>1, <4>2
    <3>2. /\ rotina' = [rotina EXCEPT ![r] = x]
          /\ trava' = r /\ gen' = gen + 1 /\ UNCHANGED aviso
      BY <1>4, <2>3 DEF Parear
    <3> HIDE DEF x
    <3>3. Fica(r, x)
      BY <3>1, <3>2, Efeito
    <3>4. Trancadas'
      <4>1. \A s \in Rotinas : rotina[s].gen \in Nat /\ rotina[s].gen <= gen /\ trava # s
        BY <2>1 DEF Rotina, Trancadas
      <4> QED
        BY <2>1, <3>1, <3>2, <3>3, <4>1 DEF Fica, Trancadas
    <3>5. vigias \subseteq [gen : 1..(gen + 1), canal : Clientes, resta : 0..Renovacoes]
      OBVIOUS
    <3> QED
      BY <1>4, <3>2, <3>3, <3>4, <3>5 DEF Parear, Fica
  <2> QED
    BY <2>2, <2>3
<1>5. CASE Conectar(r)
  <2>1. rotina[r].pc = "conectar" /\ trava = r /\ UNCHANGED gen
    BY <1>5 DEF Conectar, Trancadas
  <2>2. CASE /\ sessao' = [sessao EXCEPT ![rotina[r].canal] = "aberta"]
             /\ canal' = [canal EXCEPT ![rotina[r].canal] = "aberto"]
             /\ Vai(r, "parear") /\ UNCHANGED <<trava, aviso>> /\ SemFalta
    <3>1. Fica(r, rotina'[r]) /\ Andou(rotina[r], rotina'[r], "parear")
      BY <2>2, Efeito DEF Pcs
    <3>2. Trancadas'
      BY <2>1, <2>2, <3>1 DEF Fica, Andou, Trancadas
    <3> QED
      BY <1>5, <2>2, <3>1, <3>2 DEF Conectar, Fica, SemFalta
  <2>3. CASE Falha(r) /\ Falta /\ UNCHANGED <<sessao, canal>>
    <3>1. /\ Fica(r, rotina'[r]) /\ rotina'[r].pc \in {"livre", "avisar"}
          /\ rotina'[r].gen \in {0, rotina[r].gen}
          /\ trava' = Ninguem /\ aviso' \in {aviso, "queda"}
      BY <2>3, EfeitoFalha
    <3>2. Trancadas'
      BY <2>1, <3>1 DEF Fica, Trancadas
    <3> QED
      BY <1>5, <2>3, <3>1, <3>2 DEF Conectar, Fica, Falta
  <2> QED
    BY <1>5, <2>2, <2>3 DEF Conectar
<1>6. CASE PairPhone(r)
  <2>1. rotina[r].pc = "parear" /\ trava = r /\ UNCHANGED gen
    BY <1>6 DEF PairPhone, Trancadas
  <2> DEFINE vigia == [gen |-> rotina[r].gen, canal |-> rotina[r].canal, resta |-> rotina[r].resta]
  <2>2. CASE /\ codigo' = codigo \cup {cliente} /\ vigias' = vigias \cup {vigia}
             /\ Notificar("codigo") /\ trava' = Ninguem /\ Fim(r) /\ SemFalta
    <3>1. Fica(r, Livre)
      BY <2>2, Efeito
    <3>2. Trancadas'
      BY <2>1, <2>2, <3>1, Rotulos DEF Fica, Trancadas
    <3>3. vigia \in [gen : 1..gen, canal : Clientes, resta : 0..Renovacoes]
      <4>1. /\ rotina[r].gen \in Nat /\ rotina[r].gen <= gen /\ rotina[r].gen > 0
            /\ rotina[r].canal \in Clientes /\ rotina[r].resta \in 0..Renovacoes
        BY <2>1 DEF Trancadas, Rotina
      <4> QED
        BY <4>1
    <3> HIDE DEF vigia
    <3> QED
      BY <1>6, <2>2, <3>1, <3>2, <3>3 DEF PairPhone, Fica, SemFalta, Notificar
  <2>3. CASE /\ Falta \/ SemFalta
             /\ Falha(r) /\ UNCHANGED <<codigo, vigias>>
    <3>1. /\ Fica(r, rotina'[r]) /\ rotina'[r].pc \in {"livre", "avisar"}
          /\ rotina'[r].gen \in {0, rotina[r].gen}
          /\ trava' = Ninguem /\ aviso' \in {aviso, "queda"}
      BY <2>3, EfeitoFalha
    <3>2. Trancadas'
      BY <2>1, <3>1 DEF Fica, Trancadas
    <3>3. pedidos' \in 0..MaxPedidos /\ perdas' \in 0..MaxPerdas /\ faltas' \in 0..MaxFaltas
      BY <2>3 DEF Falta, SemFalta
    <3> QED
      BY <1>6, <2>3, <3>1, <3>2, <3>3 DEF PairPhone, Fica
  <2> QED
    BY <1>6, <2>2, <2>3 DEF PairPhone
<1> QED
  BY <1>1, <1>2, <1>3, <1>4, <1>5, <1>6 DEF Passo

(* watchPairing and what whatsmeow, the server and the user do. *)
LEMMA BoaMundo ==
  ASSUME Boa, Vigiar \/ \E c \in Clientes : Confirmar(c) \/ Romper(c) \/ Cair(c) \/ Mundo(c)
  PROVE  Boa'
<1> USE Limites DEF Boa, TypeOKResto, limites
<1>1. ASSUME NEW v \in vigias, PararVigia(v) PROVE Boa'
  BY <1>1 DEF PararVigia, clientesV, Trancadas
<1>2. ASSUME NEW v \in vigias, NEW r \in Rotinas, Renovar(r, v) PROVE Boa'
  <2> DEFINE x == [pc |-> "esperar", motivo |-> "renovar", gen |-> v.gen,
                   canal |-> v.canal, resta |-> v.resta]
  <2>1. v.gen \in 1..gen /\ v.canal \in Clientes /\ v.resta \in 0..Renovacoes
    OBVIOUS
  <2>2. x \in Rotina /\ x.pc = "esperar" /\ x.gen <= gen
    BY <2>1 DEF Rotina, Motivos
  <2>3. rotina' = [rotina EXCEPT ![r] = x] /\ rotina[r].pc = "livre" /\ UNCHANGED <<trava, gen>>
    BY <1>2 DEF Renovar
  <2> HIDE DEF x
  <2>4. Fica(r, x)
    BY <2>2, <2>3, Efeito
  <2>5. Trancadas'
    BY <2>2, <2>3, <2>4 DEF Fica, Trancadas
  <2> QED
    BY <1>2, <2>4, <2>5 DEF Renovar, clientesV, Fica
<1>3. ASSUME NEW c \in Clientes, Confirmar(c) PROVE Boa'
  BY <1>3 DEF Confirmar, Trancadas
<1>4. ASSUME NEW c \in Clientes, Romper(c) PROVE Boa'
  BY <1>4 DEF Romper, Falta, Trancadas
<1>5. ASSUME NEW c \in Clientes, Cair(c) PROVE Boa'
  BY <1>5 DEF Cair, Falta, Trancadas
<1>6. ASSUME NEW c \in Clientes, Mundo(c) PROVE Boa'
  <2>1. CASE Autenticar(c)
    BY <2>1 DEF Autenticar, Trancadas
  <2>2. CASE Expirar(c)
    BY <2>2 DEF Expirar, Trancadas
  <2> QED
    BY <1>6, <2>1, <2>2, Zenon DEF Mundo
<1> QED
  BY <1>1, <1>2, <1>3, <1>4, <1>5, <1>6 DEF Vigiar, PararVigia

(* Every step keeps the types of what is not a flag. *)
LEMMA BoaSempre == Boa /\ [Next]_vars => Boa'
<1> SUFFICES ASSUME Boa, [Next]_vars PROVE Boa'
  OBVIOUS
<1>1. CASE UNCHANGED vars
  BY <1>1 DEF vars, limites, Boa, TypeOKResto, Trancadas
<1> QED
  BY <1>1, BoaComeco, BoaPasso, BoaMundo DEF Next

Marcas == erro \in BOOLEAN /\ orfao \in BOOLEAN /\ cruzou \in BOOLEAN /\ calado \in BOOLEAN

(* Flags stay flags. *)
LEMMA MarcasPasso == Marcas /\ [Next]_vars => Marcas'
<1> SUFFICES ASSUME Marcas, [Next]_vars PROVE Marcas'
  OBVIOUS
<1> USE DEF Marcas, clientesV
<1>1. ASSUME NEW r \in Rotinas,
             PedirCodigo(r) \/ Resetar(r) \/ (\E c \in Clientes : Deslogar(r, c)) \/ Acordar(r)
      PROVE  Marcas'
  BY <1>1, Zenon DEF PedirCodigo, Resetar, Deslogar, Acordar, Cruza
<1>2. ASSUME NEW r \in Rotinas, Apagar(r) \/ Trocar(r) \/ Avisar(r) \/ DeixarParaLa(r)
      PROVE  Marcas'
  BY <1>2, Zenon DEF Apagar, Trocar, Avisar, DeixarParaLa
<1>3. ASSUME NEW r \in Rotinas, Desistir(r) \/ Parear(r) \/ Conectar(r) \/ PairPhone(r)
      PROVE  Marcas'
  <2>1. CASE Desistir(r)
    BY <2>1, Zenon DEF Desistir
  <2>2. CASE Parear(r)
    BY <2>2, Zenon DEF Parear, Cruza
  <2>3. CASE Conectar(r) \/ PairPhone(r)
    BY <2>3, Zenon DEF Conectar, PairPhone
  <2> QED
    BY <1>3, <2>1, <2>2, <2>3
<1>4. ASSUME Vigiar PROVE Marcas'
  BY <1>4, Zenon DEF Vigiar, PararVigia, Renovar
<1>5. ASSUME NEW c \in Clientes, Confirmar(c) \/ Romper(c) \/ Cair(c) \/ Mundo(c)
      PROVE  Marcas'
  BY <1>5, Zenon DEF Confirmar, Romper, Cair, Mundo, Autenticar, Expirar
<1>6. CASE UNCHANGED vars
  BY <1>6, Zenon DEF vars
<1> QED
  BY <1>1, <1>2, <1>3, <1>4, <1>5, <1>6, Zenon DEF Next, Passo

(* A bridge that starts is well typed. *)
LEMMA BoaInicial == Init => Boa /\ Marcas
<1> SUFFICES ASSUME Init PROVE Boa /\ Marcas
  OBVIOUS
<1>1. PICK s \in {"nova", "pareada"}, i \in Rotinas :
        /\ sessao = [c \in Clientes |-> IF c = 1 THEN s ELSE "nova"]
        /\ rotina = [r \in Rotinas |-> IF r = i /\ s = "nova" THEN Pedindo("inicio") ELSE Livre]
        /\ pedidos = IF s = "nova" THEN 1 ELSE 0
  BY DEF Init
<1>2. "inicio" \in Motivos
  BY DEF Motivos
<1>3. /\ rotina \in [Rotinas -> Rotina]
      /\ \A r \in Rotinas : rotina[r].gen = 0 /\ rotina[r].pc \in {"livre", "esperar"}
  BY <1>1, <1>2, Rotulos
<1>4. pedidos \in 0..MaxPedidos /\ pedidos \in Nat
  BY <1>1, Limites
<1>5. trava = Ninguem /\ gen = 0
  BY DEF Init
<1>6. Trancadas
  BY <1>3, <1>5, Limites DEF Trancadas
<1>7. sessao \in [Clientes -> {"nova", "aberta", "pareada", "logada"}]
  BY <1>1
<1>8. TypeOKResto
  BY <1>3, <1>4, <1>7, Limites DEF Init, TypeOKResto
<1>9. Marcas
  BY Zenon DEF Init, Marcas
<1> QED
  BY <1>6, <1>8, <1>9 DEF Boa

(* Every reachable state is well typed: in particular a watcher keeps a    *)
(* generation that was handed out, and never more renewals than allowed.   *)
THEOREM TypeCorrect == Spec => []TypeOK
<1>1. Boa /\ Marcas => TypeOK
  BY Zenon DEF Boa, Marcas, TypeOKResto, TypeOK
<1> QED
  BY <1>1, BoaInicial, BoaSempre, MarcasPasso, PTL DEF Spec

---------------------------------------------------------------------------
(* The mutex keeps the clients apart.                                      *)

(* Unless a deletion outside pairingMu overlapped a pairing: whoever       *)
(* deletes the session holds the mutex, or nobody holds it.                *)
Separadas ==
  \A r \in Rotinas :
    rotina[r].pc \in {"apagar", "trocar"} =>
      trava = r \/ (rotina[r].motivo = "perda" /\ trava = Ninguem)

(* The current client is the only one with a session, a code or a          *)
(* goroutine that connects it, and has neither when it is replaced.        *)
UmCliente ==
  /\ codigo \subseteq {cliente}
  /\ \A c \in Clientes : sessao[c] # "nova" => c = cliente
  /\ \A r \in Rotinas :
       /\ rotina[r].pc = "conectar" => rotina[r].canal = cliente
       /\ rotina[r].pc = "trocar" => sessao[cliente] = "nova" /\ cliente \notin codigo

Unico == ~cruzou => Separadas /\ UmCliente

(* cruzou tells every overlap. *)
LEMMA CruzaSempre ==
  ASSUME [Next]_vars, ~cruzou'
  PROVE  /\ ~cruzou
         /\ \A r \in Rotinas :
              /\ Resetar(r) \/ (\E c \in Clientes : Deslogar(r, c)) => trava = Ninguem
              /\ Parear(r) => Apagando = {}
<1> USE DEF clientesV
<1>1. ASSUME NEW r \in Rotinas,
             PedirCodigo(r) \/ Resetar(r) \/ (\E c \in Clientes : Deslogar(r, c)) \/ Acordar(r)
      PROVE  ~cruzou
  BY <1>1, Zenon DEF PedirCodigo, Resetar, Deslogar, Acordar, Cruza
<1>2. ASSUME NEW r \in Rotinas, Passo(r) PROVE ~cruzou
  <2>1. CASE Apagar(r) \/ Trocar(r) \/ Avisar(r) \/ DeixarParaLa(r)
    BY <2>1, Zenon DEF Apagar, Trocar, Avisar, DeixarParaLa
  <2>2. CASE Desistir(r) \/ Conectar(r) \/ PairPhone(r)
    BY <2>2, Zenon DEF Desistir, Conectar, PairPhone
  <2>3. CASE Parear(r)
    BY <2>3, Zenon DEF Parear, Cruza
  <2> QED
    BY <1>2, <2>1, <2>2, <2>3, Zenon DEF Passo
<1>3. ASSUME Vigiar PROVE ~cruzou
  BY <1>3, Zenon DEF Vigiar, PararVigia, Renovar
<1>4. ASSUME NEW c \in Clientes, Confirmar(c) \/ Romper(c) \/ Cair(c) \/ Mundo(c)
      PROVE  ~cruzou
  BY <1>4, Zenon DEF Confirmar, Romper, Cair, Mundo, Autenticar, Expirar
<1>5. ASSUME UNCHANGED vars PROVE ~cruzou
  BY <1>5, Zenon DEF vars
<1>6. ASSUME NEW r \in Rotinas, Parear(r) PROVE Apagando = {}
  <2>1. Cruza(Apagando # {})
    BY <1>6, Zenon DEF Parear
  <2>2. cruzou' = (cruzou \/ Apagando # {})
    BY <2>1, Zenon DEF Cruza
  <2> QED
    BY <2>2, Zenon
<1>7. ASSUME NEW r \in Rotinas, Resetar(r) \/ \E c \in Clientes : Deslogar(r, c)
      PROVE  trava = Ninguem
  <2>1. CASE Resetar(r)
    BY <2>1, Zenon DEF Resetar, Cruza
  <2>2. ASSUME NEW c \in Clientes, Deslogar(r, c) PROVE trava = Ninguem
    BY <2>2, Zenon DEF Deslogar, Cruza
  <2> QED
    BY <1>7, <2>1, <2>2
<1>8. ~cruzou
  BY <1>1, <1>2, <1>3, <1>4, <1>5, Zenon DEF Next
<1> QED
  BY <1>6, <1>7, <1>8

(* Goroutines that start leave the client alone. *)
LEMMA UnicoComeco ==
  ASSUME Boa, Separadas, UmCliente, NEW r \in Rotinas, rotina[r].pc = "livre",
         PedirCodigo(r) \/ Acordar(r)
           \/ (trava = Ninguem /\ (Resetar(r) \/ \E c \in Clientes : Deslogar(r, c)))
  PROVE  Separadas' /\ UmCliente'
<1> USE DEF Boa, TypeOKResto, clientesV
<1> DEFINE perdendo == [Livre EXCEPT !.pc = "apagar", !.motivo = "perda"]
<1>1. CASE PedirCodigo(r) \/ Acordar(r)
  <2>1. PICK x \in Rotina : Fica(r, x) /\ x.pc = "esperar"
    <3>1. {"admin", "perda"} \subseteq Motivos
      BY DEF Motivos
    <3> QED
      BY <1>1, <3>1, Efeito, Rotulos DEF PedirCodigo, Acordar
  <2>2. UNCHANGED <<cliente, sessao, codigo, trava>>
    BY <1>1 DEF PedirCodigo, Acordar
  <2> QED
    BY <2>1, <2>2 DEF Fica, Separadas, UmCliente
<1>2. ASSUME trava = Ninguem, Resetar(r) \/ \E c \in Clientes : Deslogar(r, c)
      PROVE  Separadas' /\ UmCliente'
  <2>1. Fica(r, perdendo)
    BY <1>2, Efeito, Rotulos DEF Resetar, Deslogar
  <2>2. perdendo.pc = "apagar" /\ perdendo.motivo = "perda"
    BY Rotulos
  <2> HIDE DEF perdendo
  <2>3. UNCHANGED <<cliente, trava>> /\ codigo' \subseteq codigo
        /\ \A c \in Clientes : sessao'[c] # "nova" => sessao[c] # "nova"
    BY <1>2 DEF Resetar, Deslogar
  <2> QED
    BY <1>2, <2>1, <2>2, <2>3 DEF Fica, Separadas, UmCliente
<1> QED
  BY <1>1, <1>2

(* Pairing and the deletion keep one client. *)
LEMMA UnicoPasso ==
  ASSUME Boa, Separadas, UmCliente, NEW r \in Rotinas, Passo(r),
         Parear(r) => Apagando = {}
  PROVE  Separadas' /\ UmCliente'
<1> USE Limites DEF Boa, TypeOKResto, clientesV
<1>1. CASE Apagar(r)
  <2>1. Fica(r, rotina'[r]) /\ Andou(rotina[r], rotina'[r], "trocar")
    BY <1>1, Efeito DEF Apagar, Pcs
  <2>2. /\ rotina[r].pc = "apagar" /\ UNCHANGED <<trava, cliente>>
        /\ sessao' = [sessao EXCEPT ![cliente] = "nova"] /\ codigo' = codigo \ {cliente}
    BY <1>1 DEF Apagar
  <2> QED
    BY <2>1, <2>2 DEF Fica, Andou, Separadas, UmCliente
<1>2. CASE Trocar(r)
  <2>1. PICK novo \in Clientes \ EmUso :
          /\ cliente' = novo
          /\ IF trava = r
             THEN rotina' = [rotina EXCEPT ![r].pc = "conectar", ![r].canal = novo]
             ELSE Fim(r)
    BY <1>2 DEF Trocar
  <2>2. sessao[novo] = "nova" /\ novo # cliente
    BY DEF EmUso
  <2>3. rotina[r].pc = "trocar" /\ UNCHANGED <<trava, sessao, codigo>>
    BY <1>2 DEF Trocar
  <2>4. codigo = {} /\ \A c \in Clientes : sessao[c] = "nova"
    BY <2>3 DEF UmCliente
  <2>5. \A s \in Rotinas : rotina[s].pc = "conectar" => FALSE
    BY <2>3 DEF Separadas, Trancadas
  <2>6. CASE trava = r
    <3> DEFINE x == [rotina[r] EXCEPT !.pc = "conectar", !.canal = novo]
    <3>1. x \in Rotina /\ x.pc = "conectar" /\ x.canal = novo
      BY DEF Rotina
    <3>2. rotina' = [rotina EXCEPT ![r] = x]
      BY <2>1, <2>6
    <3> HIDE DEF x
    <3>3. Fica(r, x)
      BY <3>1, <3>2, Efeito
    <3> QED
      BY <2>1, <2>3, <2>4, <2>5, <3>1, <3>3 DEF Fica, Separadas, UmCliente
  <2>7. CASE trava # r
    <3>1. Fica(r, Livre)
      BY <2>1, <2>7, Efeito
    <3> QED
      BY <2>1, <2>3, <2>4, <2>5, <3>1, Rotulos DEF Fica, Separadas, UmCliente
  <2> QED
    BY <2>6, <2>7
<1>3. CASE Avisar(r) \/ DeixarParaLa(r) \/ Desistir(r)
  <2>1. Fica(r, Livre) /\ UNCHANGED <<trava, cliente, sessao, codigo>>
    BY <1>3, Efeito DEF Avisar, DeixarParaLa, Desistir
  <2> QED
    BY <2>1, Rotulos DEF Fica, Separadas, UmCliente
<1>4. CASE Parear(r)
  <2>1. /\ rotina[r].pc = "esperar" /\ trava = Ninguem /\ Apagando = {}
        /\ UNCHANGED <<cliente, sessao, codigo>>
    BY <1>4 DEF Parear, LivreParaParear
  <2>2. \A s \in Rotinas : rotina[s].pc \notin {"apagar", "trocar"}
    BY <2>1 DEF Separadas, Apagando
  <2>3. /\ Fica(r, rotina'[r])
        /\ \/ rotina'[r].pc \in {"livre", "avisar"}
           \/ rotina'[r].pc = "apagar" /\ trava' = r
    <3>1. CASE sessao[cliente] = "logada"
      BY <1>4, <3>1, EfeitoFalha DEF Parear
    <3>2. CASE sessao[cliente] # "logada"
      <4> DEFINE x == [rotina[r] EXCEPT !.pc = "apagar", !.gen = gen + 1, !.resta = Restam(r)]
      <4>1. x.pc = "apagar"
        BY DEF Rotina
      <4>2. rotina' = [rotina EXCEPT ![r] = x] /\ trava' = r
        BY <1>4, <3>2 DEF Parear
      <4>3. rotina' \in [Rotinas -> Rotina]
        BY <1>4, BoaPasso DEF Passo
      <4> HIDE DEF x
      <4> QED
        BY <4>1, <4>2, <4>3 DEF Fica
    <3> QED
      BY <3>1, <3>2
  <2> QED
    BY <2>1, <2>2, <2>3 DEF Fica, Separadas, UmCliente
<1>5. CASE Conectar(r)
  <2>1. /\ rotina[r].pc = "conectar" /\ trava = r /\ rotina[r].canal = cliente
        /\ UNCHANGED <<cliente, codigo>>
    BY <1>5 DEF Conectar, Trancadas, UmCliente
  <2>2. \A s \in Rotinas : rotina[s].pc \notin {"apagar", "trocar"}
    BY <2>1 DEF Separadas
  <2>3. \A c \in Clientes : sessao'[c] # "nova" => c = cliente
    BY <1>5, <2>1 DEF Conectar, UmCliente
  <2>4. Fica(r, rotina'[r]) /\ rotina'[r].pc \in {"livre", "avisar", "parear"}
    BY <1>5, Efeito, EfeitoFalha DEF Conectar, Pcs, Andou
  <2> QED
    BY <2>1, <2>2, <2>3, <2>4 DEF Fica, Separadas, UmCliente
<1>6. CASE PairPhone(r)
  <2>1. /\ rotina[r].pc = "parear" /\ trava = r
        /\ UNCHANGED <<cliente, sessao>> /\ codigo' \subseteq codigo \cup {cliente}
    BY <1>6 DEF PairPhone, Trancadas
  <2>2. \A s \in Rotinas : rotina[s].pc \notin {"apagar", "trocar"}
    BY <2>1 DEF Separadas
  <2>3. Fica(r, rotina'[r]) /\ rotina'[r].pc \in {"livre", "avisar"}
    BY <1>6, Efeito, EfeitoFalha, Rotulos DEF PairPhone, Fica
  <2> QED
    BY <2>1, <2>2, <2>3 DEF Fica, Separadas, UmCliente
<1> QED
  BY <1>1, <1>2, <1>3, <1>4, <1>5, <1>6 DEF Passo

(* Watchers, the server and the user keep one client. *)
LEMMA UnicoMundo ==
  ASSUME Boa, Separadas, UmCliente,
         Vigiar \/ \E c \in Clientes : Confirmar(c) \/ Romper(c) \/ Cair(c) \/ Mundo(c)
  PROVE  Separadas' /\ UmCliente'
<1> USE DEF Boa, TypeOKResto, clientesV
<1>1. ASSUME NEW v \in vigias, PararVigia(v) PROVE Separadas' /\ UmCliente'
  BY <1>1 DEF PararVigia, Separadas, UmCliente
<1>2. ASSUME NEW v \in vigias, NEW r \in Rotinas, Renovar(r, v) PROVE Separadas' /\ UmCliente'
  <2>1. rotina' \in [Rotinas -> Rotina]
    BY <1>2, BoaMundo DEF Vigiar
  <2>2. Fica(r, rotina'[r]) /\ rotina'[r].pc = "esperar"
        /\ UNCHANGED <<cliente, sessao, codigo, trava>>
    BY <1>2, <2>1 DEF Renovar, Fica
  <2> QED
    BY <2>2 DEF Fica, Separadas, UmCliente
<1>3. ASSUME NEW c \in Clientes, Confirmar(c) \/ Romper(c) \/ Cair(c) \/ Autenticar(c) \/ Expirar(c)
      PROVE  Separadas' /\ UmCliente'
  <2>1. UNCHANGED <<cliente, rotina, trava>> /\ codigo' \subseteq codigo
    BY <1>3 DEF Confirmar, Romper, Cair, Autenticar, Expirar
  <2>2. \A d \in Clientes : sessao'[d] # "nova" => sessao[d] # "nova" \/ d \in codigo
    BY <1>3 DEF Confirmar, Romper, Cair, Autenticar, Expirar
  <2> QED
    BY <2>1, <2>2 DEF Separadas, UmCliente
<1> QED
  BY <1>1, <1>2, <1>3 DEF Vigiar, PararVigia, Mundo

(* Every step keeps the clients apart, until an overlap. *)
LEMMA UnicoSempre == Boa /\ Unico /\ [Next]_vars => Unico'
<1> SUFFICES ASSUME Boa, Unico, [Next]_vars, ~cruzou' PROVE Separadas' /\ UmCliente'
  BY Zenon DEF Unico
<1>1. Separadas /\ UmCliente
  BY CruzaSempre, Zenon DEF Unico
<1>2. ASSUME NEW r \in Rotinas,
             PedirCodigo(r) \/ Acordar(r) \/ Resetar(r) \/ \E c \in Clientes : Deslogar(r, c)
      PROVE  Separadas' /\ UmCliente'
  <2>1. rotina[r].pc = "livre"
    BY <1>2, Zenon DEF PedirCodigo, Acordar, Resetar, Deslogar
  <2>2. Resetar(r) \/ (\E c \in Clientes : Deslogar(r, c)) => trava = Ninguem
    BY CruzaSempre, Zenon
  <2> QED
    BY <1>1, <1>2, <2>1, <2>2, UnicoComeco, Zenon
<1>3. ASSUME NEW r \in Rotinas, Passo(r) PROVE Separadas' /\ UmCliente'
  BY <1>1, <1>3, CruzaSempre, UnicoPasso, Zenon
<1>4. ASSUME Vigiar \/ \E c \in Clientes : Confirmar(c) \/ Romper(c) \/ Cair(c) \/ Mundo(c)
      PROVE  Separadas' /\ UmCliente'
  BY <1>1, <1>4, UnicoMundo, Zenon
<1>5. CASE UNCHANGED vars
  BY <1>1, <1>5 DEF vars, Separadas, UmCliente
<1> QED
  BY <1>2, <1>3, <1>4, <1>5, Zenon DEF Next

(* However many goroutines pair, reset and renew, and whatever the server  *)
(* does: only a deletion that overlaps the holder of pairingMu can leave a *)
(* second client with a socket, or a code for a client nobody uses.        *)
THEOREM ClienteCorrect == Spec => []ClienteUnico
<1>1. Init => Unico
  <2> SUFFICES ASSUME Init PROVE Separadas /\ UmCliente
    BY DEF Unico
  <2>1. PICK s \in {"nova", "pareada"}, i \in Rotinas :
          /\ sessao = [c \in Clientes |-> IF c = 1 THEN s ELSE "nova"]
          /\ rotina = [r \in Rotinas |-> IF r = i /\ s = "nova" THEN Pedindo("inicio") ELSE Livre]
    BY DEF Init
  <2>2. "inicio" \in Motivos
    BY DEF Motivos
  <2>3. \A r \in Rotinas : rotina[r].pc \in {"livre", "esperar"}
    BY <2>1, <2>2, Rotulos
  <2>4. cliente = 1 /\ codigo = {}
    BY DEF Init
  <2> QED
    BY <2>1, <2>3, <2>4 DEF Separadas, UmCliente
<1>2. Unico => ClienteUnico
  <2> SUFFICES ASSUME Separadas, UmCliente
               PROVE  /\ codigo \subseteq {cliente}
                      /\ \A c \in Clientes : Vivo(c) => c = cliente
    BY Zenon DEF Unico, ClienteUnico
  <2> QED
    BY DEF UmCliente, Vivo
<1> QED
  BY <1>1, <1>2, BoaInicial, BoaSempre, UnicoSempre, PTL DEF Spec

---------------------------------------------------------------------------
(* The renewals a code still has are paid by the call that asked for it.   *)

(* Goroutines whose call of requestPairingCode has not made a code yet. *)
Pagas == {r \in Rotinas : rotina[r].pc = "esperar" /\ rotina[r].motivo # "renovar"}

Atendidas == chamadas - Cardinality(Pagas)

Teto == Atendidas * (Renovacoes + 1)

(* Goroutines that may still use their renewals. *)
Segura(r) == Renova(r) \/ trava = r

(* The codes made and the renewals left, of whoever has the last           *)
(* generation, fit in what the calls attended to allow.                    *)
Saldo ==
  /\ Cardinality(Pagas) <= chamadas /\ gen <= Teto
  /\ \A v \in vigias : v.gen = gen => gen + v.resta <= Teto
  /\ \A r \in Rotinas : Segura(r) /\ rotina[r].gen = gen => gen + rotina[r].resta <= Teto

(* One more call attended to allows one code and its renewals. *)
LEMMA TetoCresce ==
  \A n, k \in Nat : n * (k + 1) \in Nat /\ (n + 1) * (k + 1) = n * (k + 1) + k + 1
  BY Z3

(* A call that was not attended to adds nothing. *)
LEMMA TetoMenor == \A n, p, k \in Nat : n * (k + 1) <= (n + p) * (k + 1)
<1> SUFFICES ASSUME NEW n \in Nat, NEW p \in Nat, NEW k \in Nat
             PROVE  n * (k + 1) <= (n + p) * (k + 1)
  OBVIOUS
<1>1. (n + p) * (k + 1) = n * (k + 1) + p * (k + 1)
  BY Z3
<1>2. n * (k + 1) \in Nat /\ p * (k + 1) \in Nat
  BY TetoCresce
<1> QED
  BY <1>1, <1>2

(* How many goroutines ask is a number, and moves with them. *)
LEMMA Contas ==
  ASSUME Boa
  PROVE  /\ Cardinality(Pagas) \in Nat
         /\ \A r \in Rotinas : Fica(r, rotina'[r]) =>
              /\ (r \in Pagas <=> r \in Pagas') => Cardinality(Pagas)' = Cardinality(Pagas)
              /\ r \notin Pagas /\ r \in Pagas' => Cardinality(Pagas)' = Cardinality(Pagas) + 1
              /\ r \in Pagas /\ r \notin Pagas' =>
                   Cardinality(Pagas)' = Cardinality(Pagas) - 1 /\ Cardinality(Pagas) > 0
<1>1. IsFiniteSet(Pagas)
  BY Limites, FS_Subset DEF Pagas
<1>2. Cardinality(Pagas) \in Nat
  BY <1>1, FS_CardinalityType
<1>3. ASSUME NEW r \in Rotinas, Fica(r, rotina'[r])
      PROVE  /\ (r \in Pagas <=> r \in Pagas') => Cardinality(Pagas)' = Cardinality(Pagas)
             /\ r \notin Pagas /\ r \in Pagas' => Cardinality(Pagas)' = Cardinality(Pagas) + 1
             /\ r \in Pagas /\ r \notin Pagas' =>
                  Cardinality(Pagas)' = Cardinality(Pagas) - 1 /\ Cardinality(Pagas) > 0
  <2>1. \A s \in Rotinas : s # r => (s \in Pagas <=> s \in Pagas')
    BY <1>3 DEF Fica, Pagas
  <2>2. Pagas \subseteq Rotinas /\ Pagas' \subseteq Rotinas
    BY DEF Pagas
  <2>3. CASE r \in Pagas <=> r \in Pagas'
    <3>1. Pagas' = Pagas
      BY <2>1, <2>2, <2>3
    <3> QED
      BY <2>3, <3>1
  <2>4. CASE r \notin Pagas /\ r \in Pagas'
    <3>1. Pagas' = Pagas \cup {r}
      BY <2>1, <2>2, <2>4
    <3>2. Cardinality(Pagas \cup {r}) = Cardinality(Pagas) + 1
      BY <1>1, <2>4, FS_AddElement
    <3> QED
      BY <2>4, <3>1, <3>2
  <2>5. CASE r \in Pagas /\ r \notin Pagas'
    <3>1. Pagas' = Pagas \ {r}
      BY <2>1, <2>2, <2>5
    <3>2. Cardinality(Pagas \ {r}) = Cardinality(Pagas) - 1
      BY <1>1, <2>5, FS_RemoveElement
    <3>3. Cardinality(Pagas) # 0
      BY <1>1, <2>5, FS_EmptySet
    <3> QED
      BY <1>2, <2>5, <3>1, <3>2, <3>3
  <2> QED
    BY <2>3, <2>4, <2>5
<1> QED
  BY <1>2, <1>3

(* A step that makes no code, and in which renewals only change hands. *)
Herda ==
  /\ gen' = gen
  /\ \A v \in vigias' :
       \/ v \in vigias
       \/ \E r \in Rotinas : /\ Segura(r)
                             /\ v.gen = rotina[r].gen /\ v.resta = rotina[r].resta
  /\ \A r \in Rotinas : Segura(r)' =>
       \/ /\ Segura(r)
          /\ rotina'[r].gen = rotina[r].gen /\ rotina'[r].resta = rotina[r].resta
       \/ \E v \in vigias : rotina'[r].gen = v.gen /\ rotina'[r].resta = v.resta
  /\ Cardinality(Pagas') <= chamadas'
  /\ Atendidas' \in {Atendidas, Atendidas + 1}

(* Such a step keeps the balance. *)
LEMMA HerdaSaldo ==
  ASSUME Boa, Boa', Saldo, Herda
  PROVE  Saldo'
<1>1. Atendidas \in Nat /\ Renovacoes \in Nat
  BY Contas, Limites DEF Atendidas, Saldo, Boa, TypeOKResto
<1>2. Teto' \in Nat /\ Teto \in Nat /\ Teto <= Teto'
  <2>1. CASE Atendidas' = Atendidas
    BY <1>1, <2>1, TetoCresce DEF Teto
  <2>2. CASE Atendidas' = Atendidas + 1
    <3>1. Teto' = Teto + Renovacoes + 1
      BY <1>1, <2>2, TetoCresce DEF Teto
    <3>2. Teto \in Nat
      BY <1>1, TetoCresce DEF Teto
    <3> QED
      BY <1>1, <3>1, <3>2
  <2> QED
    BY <2>1, <2>2 DEF Herda
<1>3. gen \in Nat /\ gen' = gen
  BY DEF Boa, TypeOKResto, Herda
<1>4. \A v \in vigias : v.resta \in Nat
  BY <1>1 DEF Boa, TypeOKResto
<1>5. \A r \in Rotinas : rotina[r].resta \in Nat
  BY <1>1 DEF Boa, TypeOKResto, Rotina
<1>6. ASSUME NEW v \in vigias', v.gen = gen' PROVE gen' + v.resta <= Teto'
  BY <1>2, <1>3, <1>4, <1>5, <1>6 DEF Saldo, Herda
<1>7. ASSUME NEW r \in Rotinas, Segura(r)', rotina'[r].gen = gen'
      PROVE  gen' + rotina'[r].resta <= Teto'
  BY <1>2, <1>3, <1>4, <1>5, <1>7 DEF Saldo, Herda
<1>8. gen' <= Teto' /\ Cardinality(Pagas') <= chamadas'
  BY <1>2, <1>3 DEF Saldo, Herda
<1> QED
  BY <1>6, <1>7, <1>8 DEF Saldo

(* Calls of requestPairingCode count when they are made; resets do not ask. *)
LEMMA HerdaComeco ==
  ASSUME Boa, Saldo, NEW r \in Rotinas,
         PedirCodigo(r) \/ Resetar(r) \/ (\E c \in Clientes : Deslogar(r, c)) \/ Acordar(r)
  PROVE  Herda
<1> USE DEF Boa, TypeOKResto
<1>0. /\ rotina[r].pc = "livre" /\ gen' = gen /\ vigias' = vigias /\ trava' = trava
      /\ trava # r /\ r \notin Pagas
  BY DEF PedirCodigo, Resetar, Deslogar, Acordar, Trancadas, Pagas
<1>1. CASE PedirCodigo(r) \/ Acordar(r)
  <2>1. {"admin", "perda"} \subseteq Motivos
    BY DEF Motivos
  <2>2. PICK x \in Rotina : Fica(r, x) /\ x.pc = "esperar" /\ x.motivo \in {"admin", "perda"}
    BY <1>1, <2>1, Efeito, Rotulos DEF PedirCodigo, Acordar
  <2>3. chamadas' = chamadas + 1
    BY <1>1 DEF PedirCodigo, Acordar
  <2>4. Cardinality(Pagas)' = Cardinality(Pagas) + 1
    BY <1>0, <2>2, Contas DEF Pagas, Fica
  <2>5. Atendidas' = Atendidas /\ Cardinality(Pagas') <= chamadas'
    BY <2>3, <2>4, Contas DEF Atendidas, Saldo
  <2> QED
    BY <1>0, <2>2, <2>5 DEF Herda, Segura, Renova, Fica
<1> DEFINE perdendo == [Livre EXCEPT !.pc = "apagar", !.motivo = "perda"]
<1>2. CASE Resetar(r) \/ \E c \in Clientes : Deslogar(r, c)
  <2>1. Fica(r, perdendo)
    BY <1>2, Efeito, Rotulos DEF Resetar, Deslogar
  <2>2. perdendo.pc = "apagar"
    BY Rotulos
  <2>3. chamadas' = chamadas
    BY <1>2 DEF Resetar, Deslogar
  <2> HIDE DEF perdendo
  <2>4. Cardinality(Pagas)' = Cardinality(Pagas)
    BY <1>0, <2>1, <2>2, Contas DEF Pagas, Fica
  <2>5. Atendidas' = Atendidas /\ Cardinality(Pagas') <= chamadas'
    BY <2>3, <2>4, Contas DEF Atendidas, Saldo
  <2> QED
    BY <1>0, <2>1, <2>2, <2>5 DEF Herda, Segura, Renova, Fica
<1> QED
  BY <1>1, <1>2

(* A goroutine that ends without a code gives its renewals up. *)
LEMMA HerdaFim ==
  ASSUME Boa, Saldo, NEW r \in Rotinas, Fica(r, rotina'[r]),
         rotina'[r].pc \in {"livre", "avisar"}, trava' \in {trava, Ninguem}, trava' # r,
         gen' = gen, vigias' = vigias, chamadas' = chamadas
  PROVE  Herda
<1>1. r \notin Pagas'
  BY DEF Pagas
<1>2. Cardinality(Pagas)' = Cardinality(Pagas)
      \/ (Cardinality(Pagas)' = Cardinality(Pagas) - 1 /\ Cardinality(Pagas) > 0)
  BY <1>1, Contas
<1>3. Atendidas' \in {Atendidas, Atendidas + 1} /\ Cardinality(Pagas') <= chamadas'
  BY <1>2, Contas DEF Atendidas, Saldo, Boa, TypeOKResto
<1>4. \A s \in Rotinas : Segura(s)' => Segura(s) /\ rotina'[s] = rotina[s]
  BY Limites DEF Segura, Renova, Fica
<1> QED
  BY <1>3, <1>4 DEF Herda

(* The steps of a goroutine, but for the one that makes a code. *)
LEMMA HerdaPasso ==
  ASSUME Boa, Saldo, NEW r \in Rotinas, Passo(r), gen' = gen
  PROVE  Herda
<1> USE Limites DEF Boa, TypeOKResto, clientesV, limites
<1>1. ASSUME Fica(r, rotina'[r]), rotina'[r].pc \in {"trocar", "conectar", "parear"},
             rotina[r].pc \in {"apagar", "trocar", "conectar"},
             rotina'[r].gen = rotina[r].gen, rotina'[r].resta = rotina[r].resta,
             trava' = trava, vigias' = vigias, chamadas' = chamadas
      PROVE  Herda
  <2>1. Cardinality(Pagas)' = Cardinality(Pagas)
    BY <1>1, Contas DEF Pagas
  <2>2. Atendidas' = Atendidas /\ Cardinality(Pagas') <= chamadas'
    BY <1>1, <2>1 DEF Atendidas, Saldo
  <2>3. \A s \in Rotinas : Segura(s)' =>
          Segura(s) /\ rotina'[s].gen = rotina[s].gen /\ rotina'[s].resta = rotina[s].resta
    BY <1>1 DEF Segura, Renova, Fica
  <2> QED
    BY <1>1, <2>2, <2>3 DEF Herda
<1>2. CASE Apagar(r)
  <2>1. Fica(r, rotina'[r]) /\ Andou(rotina[r], rotina'[r], "trocar")
    BY <1>2, Efeito DEF Apagar, Pcs
  <2> QED
    BY <1>1, <1>2, <2>1 DEF Apagar, Andou
<1>3. CASE Trocar(r)
  <2>1. CASE trava = r
    <3>1. PICK novo \in Clientes :
            rotina' = [rotina EXCEPT ![r].pc = "conectar", ![r].canal = novo]
      BY <1>3, <2>1 DEF Trocar
    <3> DEFINE x == [rotina[r] EXCEPT !.pc = "conectar", !.canal = novo]
    <3>2. x \in Rotina /\ x.pc = "conectar" /\ x.gen = rotina[r].gen /\ x.resta = rotina[r].resta
      BY DEF Rotina
    <3>3. rotina' = [rotina EXCEPT ![r] = x]
      BY <3>1
    <3> HIDE DEF x
    <3>4. Fica(r, x)
      BY <3>2, <3>3, Efeito
    <3>5. rotina'[r] = x
      BY <3>4 DEF Fica
    <3> QED
      BY <1>1, <1>3, <3>2, <3>4, <3>5 DEF Trocar
  <2>2. CASE trava # r
    <3>1. Fica(r, Livre)
      BY <1>3, <2>2, Efeito DEF Trocar
    <3> QED
      BY <1>3, <2>2, <3>1, HerdaFim, Rotulos DEF Trocar, Fica
  <2> QED
    BY <2>1, <2>2
<1>4. CASE Avisar(r) \/ DeixarParaLa(r) \/ Desistir(r)
  <2>1. Fica(r, Livre) /\ rotina[r].pc \in {"avisar", "esperar"}
        /\ trava' = trava /\ vigias' = vigias /\ chamadas' = chamadas
    BY <1>4, Efeito DEF Avisar, DeixarParaLa, Desistir
  <2>2. trava # r
    BY <2>1 DEF Trancadas
  <2> QED
    BY <2>1, <2>2, HerdaFim, Rotulos DEF Fica
<1>5. ASSUME Falha(r), vigias' = vigias, chamadas' = chamadas PROVE Herda
  BY <1>5, EfeitoFalha, HerdaFim
<1>6. CASE Parear(r)
  <2>1. sessao[cliente] = "logada"
    BY <1>6 DEF Parear
  <2> QED
    BY <1>5, <1>6, <2>1 DEF Parear
<1>7. CASE Conectar(r)
  <2>1. CASE Vai(r, "parear") /\ UNCHANGED <<trava, aviso>>
    <3>1. Fica(r, rotina'[r]) /\ Andou(rotina[r], rotina'[r], "parear")
      BY <2>1, Efeito DEF Pcs
    <3> QED
      BY <1>1, <1>7, <2>1, <3>1 DEF Conectar, Andou
  <2> QED
    BY <1>5, <1>7, <2>1 DEF Conectar
<1>8. CASE PairPhone(r)
  <2> DEFINE vigia == [gen |-> rotina[r].gen, canal |-> rotina[r].canal, resta |-> rotina[r].resta]
  <2>1. CASE vigias' = vigias \cup {vigia} /\ trava' = Ninguem /\ Fim(r)
    <3>1. Fica(r, Livre) /\ chamadas' = chamadas /\ trava = r /\ rotina[r].pc = "parear"
      BY <1>8, <2>1, Efeito DEF PairPhone, Trancadas
    <3>2. Cardinality(Pagas)' = Cardinality(Pagas)
      BY <3>1, Contas, Rotulos DEF Pagas, Fica
    <3>3. Atendidas' = Atendidas /\ Cardinality(Pagas') <= chamadas'
      BY <3>1, <3>2 DEF Atendidas, Saldo
    <3>4. \A s \in Rotinas : Segura(s)' => Segura(s) /\ rotina'[s] = rotina[s]
      BY <2>1, <3>1, Rotulos DEF Segura, Renova, Fica
    <3>5. Segura(r) /\ vigia.gen = rotina[r].gen /\ vigia.resta = rotina[r].resta
      BY <3>1 DEF Segura
    <3> HIDE DEF vigia
    <3>6. \A v \in vigias' : v \in vigias \/ v = vigia
      BY <2>1
    <3> QED
      BY <3>3, <3>4, <3>5, <3>6 DEF Herda
  <2> QED
    BY <1>5, <1>8, <2>1 DEF PairPhone
<1> QED
  BY <1>2, <1>3, <1>4, <1>6, <1>7, <1>8 DEF Passo

(* A code made: a renewal is spent, or a call is attended to. *)
LEMMA SaldoParear ==
  ASSUME Boa, Boa', Saldo, NEW r \in Rotinas, Parear(r), sessao[cliente] # "logada"
  PROVE  Saldo'
<1> USE Limites DEF Boa, TypeOKResto
<1> DEFINE x == [rotina[r] EXCEPT !.pc = "apagar", !.gen = gen + 1, !.resta = Restam(r)]
<1>1. /\ rotina' = [rotina EXCEPT ![r] = x] /\ rotina[r].pc = "esperar" /\ trava = Ninguem
      /\ trava' = r /\ gen' = gen + 1 /\ vigias' = vigias /\ chamadas' = chamadas
  BY DEF Parear, LivreParaParear
<1>2. x.pc = "apagar" /\ x.resta = Restam(r)
  BY DEF Rotina
<1> HIDE DEF x
<1>3. Fica(r, x)
  BY <1>1 DEF Fica
<1>4. rotina'[r].pc = "apagar" /\ rotina'[r].resta = Restam(r) /\ Fica(r, rotina'[r])
  BY <1>2, <1>3 DEF Fica
<1>5. r \notin Pagas'
  BY <1>4 DEF Pagas
<1>6. Cardinality(Pagas') <= chamadas' /\ gen + 1 + Restam(r) <= Teto'
  <2>1. Atendidas \in Nat
    BY Contas DEF Atendidas, Saldo
  <2>2. CASE rotina[r].motivo = "renovar"
    <3>1. Cardinality(Pagas)' = Cardinality(Pagas)
      BY <1>4, <1>5, <2>2, Contas DEF Pagas
    <3>2. Atendidas' = Atendidas /\ Teto' = Teto
      BY <1>1, <3>1 DEF Atendidas, Teto
    <3>3. rotina[r].gen = gen
      BY <2>2, Zenon DEF Parear, Superada
    <3>4. gen + rotina[r].resta <= Teto
      BY <1>1, <2>2, <3>3 DEF Saldo, Segura, Renova
    <3>5. Restam(r) = rotina[r].resta - 1 /\ rotina[r].resta \in Nat
      BY <2>2 DEF Restam, Rotina
    <3>6. Teto \in Nat
      BY <2>1, TetoCresce DEF Teto
    <3> QED
      BY <1>1, <3>1, <3>2, <3>4, <3>5, <3>6 DEF Saldo
  <2>3. CASE rotina[r].motivo # "renovar"
    <3>1. Cardinality(Pagas)' = Cardinality(Pagas) - 1
      BY <1>1, <1>4, <1>5, <2>3, Contas DEF Pagas
    <3>2. Atendidas' = Atendidas + 1 /\ Cardinality(Pagas') <= chamadas'
      BY <1>1, <3>1, Contas DEF Atendidas, Saldo
    <3>3. Teto' = Teto + Renovacoes + 1 /\ Teto \in Nat
      BY <2>1, <3>2, TetoCresce DEF Teto
    <3>4. Restam(r) = Renovacoes
      BY <2>3 DEF Restam
    <3> QED
      BY <3>2, <3>3, <3>4 DEF Saldo
  <2> QED
    BY <2>2, <2>3
<1>7. gen \in Nat /\ Restam(r) \in Nat /\ Teto' \in Nat
  <2>1. Restam(r) \in Nat
    BY <1>4 DEF Rotina
  <2>2. Atendidas' \in Nat
    <3>1. Cardinality(Pagas)' \in Nat
      BY <1>4, Contas
    <3> QED
      BY <1>1, <1>6, <3>1 DEF Atendidas
  <2> QED
    BY <2>1, <2>2, TetoCresce DEF Teto
<1>8. gen' <= Teto'
  BY <1>1, <1>6, <1>7
<1>9. \A v \in vigias' : v.gen # gen'
  BY <1>1
<1>10. \A s \in Rotinas : s # r => ~Segura(s)' \/ rotina'[s].gen # gen'
  BY <1>1, <1>4 DEF Fica, Trancadas, Rotina
<1> QED
  BY <1>1, <1>4, <1>6, <1>8, <1>9, <1>10 DEF Saldo

(* Watchers hand their renewals over; nothing else counts. *)
LEMMA HerdaMundo ==
  ASSUME Boa, Saldo,
         \/ Vigiar \/ (\E c \in Clientes : Confirmar(c) \/ Romper(c) \/ Cair(c) \/ Mundo(c))
         \/ UNCHANGED vars
  PROVE  Herda
<1> USE DEF Boa, TypeOKResto, clientesV
<1>1. ASSUME UNCHANGED <<rotina, trava, gen, chamadas>>, vigias' \subseteq vigias PROVE Herda
  BY <1>1 DEF Herda, Segura, Renova, Pagas, Atendidas, Saldo
<1>2. ASSUME NEW v \in vigias, PararVigia(v) PROVE Herda
  BY <1>1, <1>2 DEF PararVigia
<1>3. ASSUME NEW v \in vigias, NEW r \in Rotinas, Renovar(r, v) PROVE Herda
  <2>1. rotina' \in [Rotinas -> Rotina]
    BY <1>3, BoaMundo DEF Vigiar
  <2>2. /\ Fica(r, rotina'[r]) /\ rotina[r].pc = "livre"
        /\ rotina'[r].pc = "esperar" /\ rotina'[r].motivo = "renovar"
        /\ rotina'[r].gen = v.gen /\ rotina'[r].resta = v.resta
        /\ UNCHANGED <<gen, trava, chamadas>> /\ vigias' \subseteq vigias
    BY <1>3, <2>1 DEF Renovar, Fica
  <2>3. Cardinality(Pagas)' = Cardinality(Pagas)
    BY <2>2, Contas DEF Pagas
  <2>4. Atendidas' = Atendidas /\ Cardinality(Pagas') <= chamadas'
    BY <2>2, <2>3 DEF Atendidas, Saldo
  <2>5. \A s \in Rotinas : s # r /\ Segura(s)' => Segura(s) /\ rotina'[s] = rotina[s]
    BY <2>2 DEF Segura, Renova, Fica
  <2> QED
    BY <2>2, <2>4, <2>5 DEF Herda
<1>4. ASSUME NEW c \in Clientes, Confirmar(c) \/ Romper(c) \/ Cair(c) \/ Autenticar(c) \/ Expirar(c)
      PROVE  Herda
  BY <1>1, <1>4 DEF Confirmar, Romper, Cair, Autenticar, Expirar
<1>5. CASE UNCHANGED vars
  BY <1>1, <1>5 DEF vars
<1> QED
  BY <1>2, <1>3, <1>4, <1>5 DEF Vigiar, PararVigia, Mundo

(* A bridge that starts owes the code it asks for. *)
LEMMA SaldoInicial == Init => Saldo
<1> SUFFICES ASSUME Init PROVE Saldo
  OBVIOUS
<1>1. PICK s \in {"nova", "pareada"}, i \in Rotinas :
        /\ rotina = [r \in Rotinas |-> IF r = i /\ s = "nova" THEN Pedindo("inicio") ELSE Livre]
        /\ pedidos = IF s = "nova" THEN 1 ELSE 0
  BY DEF Init
<1>2. "inicio" \in Motivos
  BY DEF Motivos
<1>3. chamadas = pedidos /\ gen = 0 /\ vigias = {} /\ trava = Ninguem
  BY DEF Init
<1>4. /\ \A r \in Rotinas : rotina[r].motivo # "renovar" /\ trava # r
      /\ Pagas = IF s = "nova" THEN {i} ELSE {}
  BY <1>1, <1>2, <1>3, Rotulos, Limites DEF Pagas
<1>5. Cardinality(Pagas) = chamadas /\ chamadas \in Nat
  BY <1>1, <1>3, <1>4, FS_EmptySet, FS_Singleton
<1>6. Atendidas = 0
  BY <1>5 DEF Atendidas
<1>7. Teto \in Nat
  BY <1>6, TetoCresce, Limites DEF Teto
<1> QED
  BY <1>3, <1>4, <1>5, <1>7 DEF Saldo, Segura, Renova

(* For any number of goroutines, requests and clients, and any limit of    *)
(* renewals: however requests, resets, expiries and renewals interleave,   *)
(* the codes made never exceed what the calls allow.                       *)
THEOREM RenovacoesCorrect == Spec => []RenovacoesLimitadas
<1>1. Boa /\ Saldo /\ [Next]_vars => Saldo'
  <2> SUFFICES ASSUME Boa, Saldo, [Next]_vars PROVE Saldo'
    OBVIOUS
  <2>1. Boa'
    BY BoaSempre
  <2>2. ASSUME NEW r \in Rotinas, Passo(r) PROVE Saldo'
    <3>1. CASE gen' = gen
      BY <2>1, <2>2, <3>1, HerdaPasso, HerdaSaldo
    <3>2. CASE gen' # gen
      <4>1. Parear(r) /\ sessao[cliente] # "logada"
        BY <2>2, <3>2 DEF Passo, Apagar, Trocar, Avisar, DeixarParaLa, Desistir, Parear,
                          Conectar, PairPhone
      <4> QED
        BY <2>1, <4>1, SaldoParear
    <3> QED
      BY <3>1, <3>2
  <2> QED
    BY <2>1, <2>2, HerdaComeco, HerdaMundo, HerdaSaldo DEF Next
<1>2. Boa /\ Saldo => RenovacoesLimitadas
  <2> SUFFICES ASSUME Boa, Saldo PROVE gen <= chamadas * (Renovacoes + 1)
    BY DEF RenovacoesLimitadas
  <2>1. Atendidas \in Nat /\ Cardinality(Pagas) \in Nat
        /\ chamadas = Atendidas + Cardinality(Pagas)
    BY Contas DEF Atendidas, Saldo, Boa, TypeOKResto
  <2>2. Teto <= chamadas * (Renovacoes + 1)
    BY <2>1, TetoMenor, Limites DEF Teto
  <2>3. Teto \in Nat /\ chamadas * (Renovacoes + 1) \in Nat /\ gen \in Nat
    BY <2>1, TetoCresce, Limites DEF Teto, Boa, TypeOKResto
  <2> QED
    BY <2>2, <2>3 DEF Saldo
<1> QED
  BY <1>1, <1>2, BoaInicial, SaldoInicial, BoaSempre, PTL DEF Spec

---------------------------------------------------------------------------
(* The expiry of a code and the newer ones.                                *)

(* Client c is still the current one, or the current one is idle: without  *)
(* a socket and without a code.                                            *)
Segue(c) == cliente = c \/ (sessao[cliente] = "nova" /\ cliente \notin codigo)

(* A client whose QR channel timed out is idle, and a code can only be     *)
(* confirmed over an open socket.                                          *)
Sockets ==
  /\ \A c \in Clientes : canal[c] = "expirou" => sessao[c] = "nova"
  /\ \A c \in codigo : sessao[c] = "aberta"

(* A renewal comes from a channel that timed out, and not from that of the *)
(* client that connects.                                                   *)
Expirados ==
  /\ \A r \in Rotinas : Renova(r) => /\ rotina[r].canal \in Clientes
                                     /\ canal[rotina[r].canal] = "expirou"
  /\ \A r \in Rotinas : rotina[r].pc = "conectar" =>
       /\ \A v \in vigias : v.canal # rotina[r].canal
       /\ \A s \in Rotinas : Renova(s) => rotina[s].canal # rotina[r].canal

(* While a watcher or a renewal has the current generation nobody pairs,   *)
(* and the code it watches is the last one made.                           *)
EmDia(ficha) == ficha.gen = gen => trava = Ninguem /\ Segue(ficha.canal)

Geracoes ==
  /\ \A r \in Rotinas : rotina[r].pc \in {"conectar", "parear"} => Segue(rotina[r].canal)
  /\ \A v \in vigias : EmDia(v)
  /\ \A r \in Rotinas : Renova(r) => EmDia(rotina[r])

Vigilia == Sockets /\ Expirados /\ Geracoes

(* What a step may do to the clients: none gets a session or a code but    *)
(* over an open socket, and an expired channel of a client in use stays.   *)
Calma ==
  /\ Sockets'
  /\ \A c \in Clientes : Segue(c) => Segue(c)'
  /\ \A c \in EmUso : canal[c] = "expirou" => canal'[c] = "expirou"

(* No generation begins; watchers and renewals only change hands.          *)
FichasFicam ==
  /\ gen' = gen /\ trava' \in {trava, Ninguem} /\ vigias' \subseteq vigias
  /\ \A s \in Rotinas : Renova(s)' =>
       \/ Renova(s) /\ rotina'[s] = rotina[s]
       \/ \E v \in vigias : /\ canal[v.canal] = "expirou"
                            /\ rotina'[s].gen = v.gen /\ rotina'[s].canal = v.canal
  /\ \A s \in Rotinas : rotina'[s].pc \in {"conectar", "parear"} => rotina'[s] = rotina[s]

(* A goroutine ends, or starts with something else than a renewal. *)
LEMMA FichasDeFora ==
  ASSUME NEW r \in Rotinas, Fica(r, rotina'[r]), ~Renova(r)',
         rotina'[r].pc \notin {"conectar", "parear"},
         gen' = gen, trava' \in {trava, Ninguem}, vigias' \subseteq vigias
  PROVE  FichasFicam
  BY DEF FichasFicam, Fica, Renova

(* Where clients are calm and no generation begins, all of it stays. *)
LEMMA VigiliaFica ==
  ASSUME Boa, Vigilia, Calma, FichasFicam
  PROVE  Vigilia'
<1> USE Limites DEF Boa, TypeOKResto
<1>1. \A v \in vigias : v.canal \in EmUso /\ v.canal \in Clientes
  BY DEF EmUso
<1>2. \A s \in Rotinas : rotina[s].canal \in EmUso
  BY DEF EmUso
<1>3. Expirados'
  <2>1. ASSUME NEW s \in Rotinas, Renova(s)'
        PROVE  rotina'[s].canal \in Clientes /\ canal'[rotina'[s].canal] = "expirou"
    <3>1. CASE Renova(s) /\ rotina'[s] = rotina[s]
      BY <1>2, <3>1 DEF Vigilia, Expirados, Calma
    <3>2. CASE \E v \in vigias : canal[v.canal] = "expirou" /\ rotina'[s].canal = v.canal
      BY <1>1, <3>2 DEF Calma
    <3> QED
      BY <2>1, <3>1, <3>2 DEF FichasFicam
  <2>2. ASSUME NEW r \in Rotinas, rotina'[r].pc = "conectar"
        PROVE  /\ \A v \in vigias' : v.canal # rotina'[r].canal
               /\ \A s \in Rotinas : Renova(s)' => rotina'[s].canal # rotina'[r].canal
    <3>1. rotina'[r] = rotina[r] /\ \A v \in vigias : v.canal # rotina[r].canal
      BY <2>2 DEF FichasFicam, Vigilia, Expirados
    <3> QED
      BY <2>2, <3>1 DEF FichasFicam, Vigilia, Expirados
  <2> QED
    BY <2>1, <2>2 DEF Expirados
<1>4. \A v \in vigias' : EmDia(v)'
  BY <1>1 DEF FichasFicam, Vigilia, Geracoes, EmDia, Calma
<1>5. ASSUME NEW s \in Rotinas, Renova(s)'
      PROVE  EmDia(rotina[s])'
  <2>1. CASE Renova(s) /\ rotina'[s] = rotina[s]
    BY <2>1 DEF FichasFicam, Vigilia, Geracoes, Expirados, EmDia, Calma
  <2>2. CASE \E v \in vigias : rotina'[s].gen = v.gen /\ rotina'[s].canal = v.canal
    BY <1>1, <2>2 DEF FichasFicam, Vigilia, Geracoes, EmDia, Calma
  <2> QED
    BY <1>5, <2>1, <2>2 DEF FichasFicam
<1>6. ASSUME NEW r \in Rotinas, rotina'[r].pc \in {"conectar", "parear"}
      PROVE  Segue(rotina[r].canal)'
  <2>1. rotina'[r] = rotina[r] /\ rotina[r].canal \in Clientes /\ Segue(rotina[r].canal)
    BY <1>6 DEF FichasFicam, Vigilia, Geracoes, Trancadas
  <2> QED
    BY <2>1 DEF Calma
<1>7. Geracoes'
  BY <1>4, <1>5, <1>6 DEF Geracoes
<1> QED
  BY <1>3, <1>7 DEF Vigilia, Calma

(* What resets, events, the user and the server do to the clients. *)
LEMMA ClientesCalmos ==
  ASSUME Boa, Vigilia,
         \/ UNCHANGED <<cliente, sessao, canal, codigo>>
         \/ \E r \in Rotinas : \/ Resetar(r) \/ Apagar(r) \/ Trocar(r)
                               \/ \E c \in Clientes : Deslogar(r, c)
         \/ \E c \in Clientes : Confirmar(c) \/ Romper(c) \/ Cair(c) \/ Mundo(c)
  PROVE  Calma
<1> USE Limites DEF Boa, TypeOKResto, Vigilia
<1>1. CASE UNCHANGED <<cliente, sessao, canal, codigo>>
  BY <1>1 DEF Calma, Sockets, Segue
<1>2. ASSUME NEW r \in Rotinas, Resetar(r) PROVE Calma
  BY <1>2 DEF Resetar, Calma, Sockets, Segue
<1>3. ASSUME NEW r \in Rotinas, NEW c \in Clientes, Deslogar(r, c) PROVE Calma
  BY <1>3 DEF Deslogar, Calma, Sockets, Segue
<1>4. ASSUME NEW r \in Rotinas, Apagar(r) PROVE Calma
  BY <1>4 DEF Apagar, Calma, Sockets, Segue
<1>5. ASSUME NEW r \in Rotinas, Trocar(r) PROVE Calma
  <2>1. PICK novo \in Clientes \ EmUso :
          cliente' = novo /\ canal' = [canal EXCEPT ![novo] = "nenhum"]
    BY <1>5 DEF Trocar
  <2>2. UNCHANGED <<sessao, codigo>> /\ sessao[novo] = "nova" /\ novo \notin codigo
    BY <1>5, <2>1 DEF Trocar, EmUso, Sockets
  <2> QED
    BY <2>1, <2>2 DEF Calma, Sockets, Segue
<1>6. ASSUME NEW c \in Clientes, Confirmar(c) PROVE Calma
  BY <1>6 DEF Confirmar, Calma, Sockets, Segue
<1>7. ASSUME NEW c \in Clientes, Romper(c) PROVE Calma
  BY <1>7 DEF Romper, Calma, Sockets, Segue
<1>8. ASSUME NEW c \in Clientes, Cair(c) PROVE Calma
  BY <1>8 DEF Cair, Calma, Sockets, Segue
<1>9. ASSUME NEW c \in Clientes, Autenticar(c) PROVE Calma
  BY <1>9 DEF Autenticar, Calma, Sockets, Segue
<1>10. ASSUME NEW c \in Clientes, Expirar(c) PROVE Calma
  BY <1>10 DEF Expirar, Calma, Sockets, Segue
<1> QED
  BY <1>1, <1>2, <1>3, <1>4, <1>5, <1>6, <1>7, <1>8, <1>9, <1>10 DEF Mundo

(* Goroutines that start take no generation. *)
LEMMA VigiliaComeco ==
  ASSUME Boa, Vigilia, NEW r \in Rotinas,
         PedirCodigo(r) \/ Resetar(r) \/ (\E c \in Clientes : Deslogar(r, c)) \/ Acordar(r)
  PROVE  Vigilia'
<1> USE DEF Boa, TypeOKResto
<1>0. {"admin", "perda"} \subseteq Motivos
  BY DEF Motivos
<1>1. PICK x \in Rotina : Fica(r, x) /\ x.pc \in {"esperar", "apagar"}
                          /\ x.motivo \in {"admin", "perda"}
  <2>1. CASE PedirCodigo(r)
    BY <1>0, <2>1, Efeito, Rotulos DEF PedirCodigo
  <2>2. CASE Acordar(r)
    BY <1>0, <2>2, Efeito, Rotulos DEF Acordar
  <2> DEFINE perdendo == [Livre EXCEPT !.pc = "apagar", !.motivo = "perda"]
  <2>3. CASE Resetar(r) \/ \E c \in Clientes : Deslogar(r, c)
    <3>1. Fica(r, perdendo)
      BY <2>3, Efeito, Rotulos DEF Resetar, Deslogar
    <3>2. perdendo \in Rotina /\ perdendo.pc = "apagar" /\ perdendo.motivo = "perda"
      BY Rotulos
    <3> HIDE DEF perdendo
    <3> QED
      BY <3>1, <3>2
  <2> QED
    BY <2>1, <2>2, <2>3
<1>2. gen' = gen /\ trava' = trava /\ vigias' = vigias
  BY DEF PedirCodigo, Resetar, Deslogar, Acordar
<1>3. FichasFicam
  BY <1>1, <1>2, FichasDeFora DEF Fica, Renova
<1>4. Calma
  BY ClientesCalmos DEF PedirCodigo, Acordar, clientesV
<1> QED
  BY <1>3, <1>4, VigiliaFica

(* An error inside pairLocked leaves the clients alone. *)
LEMMA VigiliaFalha ==
  ASSUME Boa, Vigilia, NEW r \in Rotinas, Falha(r),
         UNCHANGED <<cliente, sessao, canal, codigo, gen, vigias>>
  PROVE  Vigilia'
<1>1. Fica(r, rotina'[r]) /\ rotina'[r].pc \in {"livre", "avisar"} /\ trava' = Ninguem
  BY EfeitoFalha DEF Boa, TypeOKResto
<1>2. FichasFicam
  BY <1>1, FichasDeFora DEF Renova
<1> QED
  BY <1>2, ClientesCalmos, VigiliaFica

(* A code is asked for: what has an older generation is superseded. *)
LEMMA VigiliaParear ==
  ASSUME Boa, Vigilia, NEW r \in Rotinas, Parear(r)
  PROVE  Vigilia'
<1> USE Limites DEF Boa, TypeOKResto
<1>1. CASE sessao[cliente] = "logada"
  BY <1>1, VigiliaFalha DEF Parear
<1>2. CASE sessao[cliente] # "logada"
  <2> DEFINE x == [rotina[r] EXCEPT !.pc = "apagar", !.gen = gen + 1, !.resta = Restam(r)]
  <2>1. /\ rotina' = [rotina EXCEPT ![r] = x] /\ gen' = gen + 1
        /\ UNCHANGED <<cliente, sessao, canal, codigo, vigias>>
    BY <1>2 DEF Parear
  <2>2. x.pc = "apagar"
    BY DEF Rotina
  <2> HIDE DEF x
  <2>3. rotina'[r].pc = "apagar" /\ \A s \in Rotinas \ {r} : rotina'[s] = rotina[s]
    BY <2>1, <2>2
  <2>4. Sockets'
    BY <2>1 DEF Vigilia, Sockets
  <2>5. Expirados'
    BY <2>1, <2>3 DEF Vigilia, Expirados, Renova
  <2>6. \A v \in vigias : v.gen # gen'
    BY <2>1
  <2>7. \A s \in Rotinas : Renova(s)' => rotina'[s].gen # gen'
    BY <2>1, <2>3 DEF Renova, Trancadas, Rotina
  <2>8. \A s \in Rotinas : rotina'[s].pc \in {"conectar", "parear"} => Segue(rotina[s].canal)'
    BY <2>1, <2>3 DEF Vigilia, Geracoes, Segue
  <2>9. Geracoes'
    BY <2>1, <2>6, <2>7, <2>8 DEF Geracoes, EmDia
  <2> QED
    BY <2>4, <2>5, <2>9 DEF Vigilia
<1> QED
  BY <1>1, <1>2

(* The new client of a pairing is one nobody else refers to. *)
LEMMA VigiliaTrocar ==
  ASSUME Boa, Vigilia, NEW r \in Rotinas, Trocar(r)
  PROVE  Vigilia'
<1> USE Limites DEF Boa, TypeOKResto
<1>0. Calma
  BY ClientesCalmos
<1>1. UNCHANGED <<trava, gen, vigias, sessao, codigo>> /\ rotina[r].pc = "trocar"
  BY DEF Trocar
<1>2. CASE trava # r
  <2>1. Fica(r, Livre)
    BY <1>2, Efeito DEF Trocar
  <2> QED
    BY <1>0, <1>1, <2>1, Rotulos, FichasDeFora, VigiliaFica DEF Fica, Renova
<1>3. CASE trava = r
  <2>1. PICK novo \in Clientes \ EmUso :
          /\ cliente' = novo /\ canal' = [canal EXCEPT ![novo] = "nenhum"]
          /\ rotina' = [rotina EXCEPT ![r].pc = "conectar", ![r].canal = novo]
    BY <1>3 DEF Trocar
  <2> DEFINE x == [rotina[r] EXCEPT !.pc = "conectar", !.canal = novo]
  <2>2. x.pc = "conectar" /\ x.canal = novo
    BY DEF Rotina
  <2>3. rotina' = [rotina EXCEPT ![r] = x]
    BY <2>1
  <2> HIDE DEF x
  <2>4. /\ rotina'[r].pc = "conectar" /\ rotina'[r].canal = novo
        /\ \A s \in Rotinas \ {r} : rotina'[s] = rotina[s]
    BY <2>2, <2>3
  <2>5. \A s \in Rotinas \ {r} : rotina[s].pc \notin {"conectar", "parear"}
    BY <1>3 DEF Trancadas
  <2>6. \A s \in Rotinas : Renova(s)' => Renova(s) /\ rotina'[s] = rotina[s]
    BY <2>4 DEF Renova
  <2>7. /\ \A v \in vigias : v.canal # novo
        /\ \A s \in Rotinas : rotina[s].canal # novo /\ rotina[s].canal \in EmUso
    BY <2>1 DEF EmUso
  <2>8. Expirados'
    BY <1>0, <1>1, <2>4, <2>5, <2>6, <2>7 DEF Vigilia, Expirados, Calma
  <2>9. \A v \in vigias : EmDia(v)'
    BY <1>0, <1>1 DEF Vigilia, Geracoes, EmDia, Calma
  <2>10. \A s \in Rotinas : Renova(s)' => EmDia(rotina[s])'
    BY <1>0, <1>1, <2>6 DEF Vigilia, Geracoes, Expirados, EmDia, Calma
  <2>11. Segue(rotina[r].canal)'
    BY <2>1, <2>4 DEF Segue
  <2>12. Geracoes'
    BY <1>1, <2>4, <2>5, <2>9, <2>10, <2>11 DEF Geracoes
  <2> QED
    BY <1>0, <2>8, <2>12 DEF Vigilia, Calma
<1> QED
  BY <1>2, <1>3

(* Connect opens the socket of a client that no renewal comes from. *)
LEMMA VigiliaConectar ==
  ASSUME Boa, Vigilia, NEW r \in Rotinas, Conectar(r)
  PROVE  Vigilia'
<1> USE Limites DEF Boa, TypeOKResto
<1>0. /\ rotina[r].pc = "conectar" /\ trava = r /\ rotina[r].canal \in Clientes
      /\ UNCHANGED <<cliente, codigo, gen, vigias>>
  BY DEF Conectar, Trancadas
<1>1. CASE Falha(r) /\ UNCHANGED <<sessao, canal>>
  BY <1>0, <1>1, VigiliaFalha
<1>2. CASE /\ sessao' = [sessao EXCEPT ![rotina[r].canal] = "aberta"]
           /\ canal' = [canal EXCEPT ![rotina[r].canal] = "aberto"]
           /\ Vai(r, "parear") /\ UNCHANGED trava
  <2>1. Fica(r, rotina'[r]) /\ Andou(rotina[r], rotina'[r], "parear")
    BY <1>2, Efeito DEF Pcs
  <2>2. \A s \in Rotinas : Renova(s)' => Renova(s) /\ rotina'[s] = rotina[s]
    BY <2>1 DEF Renova, Fica, Andou
  <2>3. \A s \in Rotinas \ {r} : rotina[s].pc \notin {"conectar", "parear"}
    BY <1>0 DEF Trancadas
  <2>4. Sockets'
    BY <1>0, <1>2 DEF Vigilia, Sockets
  <2>5. Expirados'
    BY <1>0, <1>2, <2>1, <2>2, <2>3 DEF Vigilia, Expirados, Fica, Andou
  <2>6. Segue(rotina[r].canal)'
    BY <1>0, <1>2, <2>1 DEF Vigilia, Geracoes, Segue, Andou
  <2>7. (\A v \in vigias : v.gen # gen) /\ \A s \in Rotinas : Renova(s) => rotina[s].gen # gen
    BY <1>0 DEF Vigilia, Geracoes, EmDia
  <2>8. Geracoes'
    BY <1>0, <2>1, <2>2, <2>3, <2>6, <2>7 DEF Geracoes, EmDia, Fica
  <2> QED
    BY <2>4, <2>5, <2>8 DEF Vigilia
<1> QED
  BY <1>0, <1>1, <1>2 DEF Conectar

(* A code is announced and watched: it is of the current client. *)
LEMMA VigiliaPairPhone ==
  ASSUME Boa, Vigilia, NEW r \in Rotinas, PairPhone(r)
  PROVE  Vigilia'
<1> USE Limites DEF Boa, TypeOKResto
<1>0. /\ rotina[r].pc = "parear" /\ trava = r /\ rotina[r].canal \in Clientes
      /\ UNCHANGED <<cliente, sessao, canal, gen>>
  BY DEF PairPhone, Trancadas
<1>1. CASE Falha(r) /\ UNCHANGED <<codigo, vigias>>
  BY <1>0, <1>1, VigiliaFalha
<1> DEFINE vigia == [gen |-> rotina[r].gen, canal |-> rotina[r].canal, resta |-> rotina[r].resta]
<1>2. CASE /\ sessao[cliente] = "aberta" /\ codigo' = codigo \cup {cliente}
           /\ vigias' = vigias \cup {vigia} /\ trava' = Ninguem /\ Fim(r)
  <2>1. Fica(r, Livre)
    BY <1>2, Efeito
  <2>2. rotina'[r].pc = "livre" /\ \A s \in Rotinas \ {r} : rotina'[s] = rotina[s]
    BY <2>1, Rotulos DEF Fica
  <2>3. \A s \in Rotinas \ {r} : rotina[s].pc \notin {"conectar", "parear"}
    BY <1>0 DEF Trancadas
  <2>4. cliente = rotina[r].canal
    BY <1>0, <1>2 DEF Vigilia, Geracoes, Segue
  <2>5. vigia.canal = rotina[r].canal
    OBVIOUS
  <2> HIDE DEF vigia
  <2>6. Sockets'
    BY <1>0, <1>2 DEF Vigilia, Sockets
  <2>7. Expirados'
    BY <1>0, <2>2, <2>3 DEF Vigilia, Expirados, Renova
  <2>8. (\A v \in vigias : v.gen # gen) /\ \A s \in Rotinas : Renova(s) => rotina[s].gen # gen
    BY <1>0 DEF Vigilia, Geracoes, EmDia
  <2>9. \A v \in vigias' : EmDia(v)'
    <3> SUFFICES ASSUME NEW v \in vigias', v.gen = gen
                 PROVE  v.canal = cliente
      BY <1>0, <1>2 DEF EmDia, Segue
    <3> QED
      BY <1>2, <2>4, <2>5, <2>8
  <2>10. Geracoes'
    BY <1>0, <1>2, <2>2, <2>3, <2>8, <2>9 DEF Geracoes, EmDia, Renova
  <2> QED
    BY <2>6, <2>7, <2>10 DEF Vigilia
<1> QED
  BY <1>0, <1>1, <1>2 DEF PairPhone

(* watchPairing ends, or hands its generation to a renewal. *)
LEMMA VigiliaVigiar ==
  ASSUME Boa, Vigilia, NEW v \in vigias,
         PararVigia(v) \/ \E r \in Rotinas : Renovar(r, v)
  PROVE  Vigilia'
<1> USE Limites DEF Boa, TypeOKResto
<1>0. Calma
  BY ClientesCalmos DEF PararVigia, Renovar, clientesV
<1>1. CASE PararVigia(v)
  BY <1>0, <1>1, VigiliaFica DEF PararVigia, FichasFicam, Renova
<1>2. ASSUME NEW r \in Rotinas, Renovar(r, v) PROVE Vigilia'
  <2> DEFINE x == [pc |-> "esperar", motivo |-> "renovar", gen |-> v.gen,
                   canal |-> v.canal, resta |-> v.resta]
  <2>1. x.pc = "esperar" /\ x.gen = v.gen /\ x.canal = v.canal
    OBVIOUS
  <2>2. rotina' = [rotina EXCEPT ![r] = x] /\ canal[v.canal] = "expirou"
        /\ UNCHANGED <<trava, gen>> /\ vigias' \subseteq vigias
    BY <1>2 DEF Renovar
  <2> HIDE DEF x
  <2>3. rotina'[r] = x /\ \A s \in Rotinas \ {r} : rotina'[s] = rotina[s]
    BY <2>2
  <2>4. FichasFicam
    BY <2>1, <2>2, <2>3 DEF FichasFicam, Renova
  <2> QED
    BY <1>0, <2>4, VigiliaFica
<1> QED
  BY <1>1, <1>2

(* At first there is neither a code nor an expired channel. *)
LEMMA VigiliaInicial == Init => Vigilia
<1> SUFFICES ASSUME Init PROVE Vigilia
  OBVIOUS
<1>1. PICK s \in {"nova", "pareada"}, i \in Rotinas :
        rotina = [r \in Rotinas |-> IF r = i /\ s = "nova" THEN Pedindo("inicio") ELSE Livre]
  BY DEF Init
<1>2. "inicio" \in Motivos
  BY DEF Motivos
<1>3. \A r \in Rotinas : rotina[r].pc \notin {"conectar", "parear"} /\ ~Renova(r)
  BY <1>1, <1>2, Rotulos DEF Renova
<1> QED
  BY <1>3 DEF Init, Vigilia, Sockets, Expirados, Geracoes

(* Every step keeps it. *)
LEMMA VigiliaSempre == Boa /\ Vigilia /\ [Next]_vars => Vigilia'
<1> SUFFICES ASSUME Boa, Vigilia, [Next]_vars PROVE Vigilia'
  OBVIOUS
<1>1. ASSUME NEW r \in Rotinas, Passo(r) PROVE Vigilia'
  <2>1. CASE Apagar(r)
    <3>1. Fica(r, rotina'[r]) /\ Andou(rotina[r], rotina'[r], "trocar")
      BY <2>1, Efeito DEF Apagar, Pcs, Boa, TypeOKResto
    <3>2. FichasFicam
      BY <2>1, <3>1, FichasDeFora DEF Apagar, Renova, Andou
    <3> QED
      BY <2>1, <3>2, ClientesCalmos, VigiliaFica
  <2>2. CASE Avisar(r) \/ DeixarParaLa(r) \/ Desistir(r)
    <3>1. Fica(r, Livre)
      BY <2>2, Efeito DEF Avisar, DeixarParaLa, Desistir, Boa, TypeOKResto
    <3>2. FichasFicam
      BY <2>2, <3>1, Rotulos, FichasDeFora DEF Avisar, DeixarParaLa, Desistir, Renova, Fica
    <3>3. Calma
      BY <2>2, ClientesCalmos DEF Avisar, DeixarParaLa, Desistir, clientesV
    <3> QED
      BY <3>2, <3>3, VigiliaFica
  <2> QED
    BY <1>1, <2>1, <2>2, VigiliaTrocar, VigiliaParear, VigiliaConectar, VigiliaPairPhone DEF Passo
<1>2. ASSUME NEW c \in Clientes, Confirmar(c) \/ Romper(c) \/ Cair(c) \/ Mundo(c) PROVE Vigilia'
  <2>1. UNCHANGED <<rotina, trava, gen, vigias>>
    BY <1>2 DEF Confirmar, Romper, Cair, Mundo, Autenticar, Expirar
  <2>2. FichasFicam
    BY <2>1 DEF FichasFicam, Renova
  <2> QED
    BY <1>2, <2>2, ClientesCalmos, VigiliaFica
<1>3. CASE UNCHANGED vars
  BY <1>3, ClientesCalmos, VigiliaFica DEF vars, FichasFicam, Renova
<1> QED
  BY <1>1, <1>2, <1>3, VigiliaComeco, VigiliaVigiar DEF Next, Vigiar

(* A goroutine that waits for the mutex is moved by nobody else, and only  *)
(* into pairLocked or away.                                                *)
LEMMA QuemEspera ==
  ASSUME Boa, [Next]_vars, NEW r \in Rotinas, rotina'[r] # rotina[r], rotina[r].pc = "esperar"
  PROVE  DeixarParaLa(r) \/ Desistir(r) \/ Parear(r)
<1>1. ASSUME NEW s \in Rotinas, \E x : rotina' = [rotina EXCEPT ![s] = x]
      PROVE  s = r
  BY <1>1 DEF Boa, TypeOKResto
<1>2. ASSUME NEW s \in Rotinas, Falha(s) PROVE s = r
  BY <1>1, <1>2 DEF Falha, Fim, Vai
<1>3. ASSUME NEW s \in Rotinas, Passo(s) PROVE s = r
  <2>1. CASE Apagar(s)
    BY <1>1, <2>1 DEF Apagar, Vai
  <2>2. CASE Trocar(s)
    BY <1>1, <2>2 DEF Trocar, Fim
  <2>3. CASE Avisar(s) \/ DeixarParaLa(s) \/ Desistir(s)
    BY <1>1, <2>3 DEF Avisar, DeixarParaLa, Desistir, Fim
  <2>4. CASE Parear(s)
    BY <1>1, <1>2, <2>4 DEF Parear
  <2>5. CASE Conectar(s)
    BY <1>1, <1>2, <2>5 DEF Conectar, Vai
  <2>6. CASE PairPhone(s)
    BY <1>1, <1>2, <2>6 DEF PairPhone, Fim
  <2> QED
    BY <1>3, <2>1, <2>2, <2>3, <2>4, <2>5, <2>6 DEF Passo
<1>4. ASSUME NEW s \in Rotinas,
             PedirCodigo(s) \/ Resetar(s) \/ (\E c \in Clientes : Deslogar(s, c)) \/ Acordar(s)
      PROVE  FALSE
  <2>1. s = r
    BY <1>1, <1>4 DEF PedirCodigo, Resetar, Deslogar, Acordar
  <2> QED
    BY <1>4, <2>1 DEF PedirCodigo, Resetar, Deslogar, Acordar
<1>5. ASSUME NEW v \in vigias, NEW s \in Rotinas, Renovar(s, v) PROVE FALSE
  <2>1. s = r
    BY <1>1, <1>5 DEF Renovar
  <2> QED
    BY <1>5, <2>1 DEF Renovar
<1>6. ~UNCHANGED rotina
  OBVIOUS
<1>7. Passo(r)
  <2>1. ~(\E c \in Clientes : Confirmar(c) \/ Romper(c) \/ Cair(c) \/ Mundo(c))
    BY <1>6 DEF Confirmar, Romper, Cair, Mundo, Autenticar, Expirar
  <2>2. ~Vigiar
    BY <1>5, <1>6 DEF Vigiar, PararVigia
  <2> QED
    BY <1>3, <1>4, <1>6, <2>1, <2>2 DEF Next, vars
<1> QED
  BY <1>7 DEF Passo, Apagar, Trocar, Avisar, Conectar, PairPhone

(* For any number of goroutines, requests and clients: a renewal that      *)
(* starts over, gives up or fails does so while the current client has no  *)
(* code the user could confirm, and is not logged in.                      *)
THEOREM VigiaCorrect == Spec => VigiaNaoAtropela
<1> DEFINE Respeita ==
      \A r \in Rotinas : Renova(r) /\ (gen' # gen \/ aviso' # aviso) /\ ~Renova(r)' =>
        cliente \notin codigo /\ (erro' # erro => sessao[cliente] # "logada")
<1>1. Boa /\ Vigilia /\ [Next]_vars => [Respeita]_vars
  <2> SUFFICES ASSUME Boa, Vigilia, [Next]_vars, NEW r \in Rotinas, Renova(r), ~Renova(r)',
                      gen' # gen \/ aviso' # aviso
               PROVE  cliente \notin codigo /\ sessao[cliente] # "logada"
    OBVIOUS
  <2>1. Desistir(r) \/ Parear(r)
    <3>1. rotina'[r] # rotina[r] /\ rotina[r].pc = "esperar"
      BY DEF Renova
    <3>2. ~DeixarParaLa(r)
      BY DEF DeixarParaLa
    <3> QED
      BY <3>1, <3>2, QuemEspera
  <2>2. rotina[r].gen = gen
    BY <2>1, Zenon DEF Desistir, Parear, Superada, Renova
  <2>3. Segue(rotina[r].canal) /\ rotina[r].canal \in Clientes /\ canal[rotina[r].canal] = "expirou"
    BY <2>2 DEF Vigilia, Geracoes, EmDia, Expirados
  <2>4. sessao[rotina[r].canal] = "nova"
    BY <2>3 DEF Vigilia, Sockets
  <2> QED
    BY <2>3, <2>4 DEF Segue, Vigilia, Sockets
<1> QED
  BY <1>1, BoaInicial, VigiliaInicial, BoaSempre, VigiliaSempre, PTL
     DEF Spec, VigiaNaoAtropela
---------------------------------------------------------------------------
(* A code that died is looked after.                                       *)

(* Goroutine r is at work, and if it is a renewal it is not superseded: it *)
(* ends in a new code or in something the administrator, or the log, is    *)
(* told.                                                                   *)
Cuida(r) == rotina[r].pc # "livre" /\ (Renova(r) => rotina[r].gen = gen)

(* Watcher v watches the newest code, and its channel can only time out or *)
(* has timed out.                                                          *)
Guarda(v) == v.gen = gen /\ canal[v.canal] \in {"aberto", "expirou"}

EmCurso ==
  \/ adormecidas > 0
  \/ \E r \in Rotinas : Cuida(r)
  \/ \E v \in vigias : Guarda(v)

TemSessao == \E c \in Clientes : sessao[c] \in {"pareada", "logada"}

(* The QR channel is open while the socket waits for a code, and closed    *)
(* once the device is paired.                                              *)
Canais ==
  \A c \in Clientes : /\ sessao[c] = "aberta" => canal[c] = "aberto"
                      /\ sessao[c] \in {"pareada", "logada"} => canal[c] # "aberto"

(* Who holds pairingMu has the newest generation. *)
Posse == \A r \in Rotinas : trava = r => rotina[r].gen = gen

(* As long as a code is the last thing the administrator was told, either  *)
(* something is under way that will tell more, or a session exists - or    *)
(* the failure only reached the log.                                       *)
Acompanhado == aviso = "codigo" /\ ~calado => EmCurso \/ TemSessao

Amparo == Canais /\ Posse /\ Acompanhado

(* The administrator holds a code that can no longer be confirmed, and no  *)
(* session is up: then a goroutine, a sleep or the watcher of the newest   *)
(* code is still there to announce another code or a failure.              *)
MortoAmparado == CodigoMorto /\ ~calado => EmCurso

(* The sockets and the channels of the clients. *)
LEMMA CanaisSempre == Boa /\ Vigilia /\ Canais /\ [Next]_vars => Canais'
<1> SUFFICES ASSUME Boa, Vigilia, Canais, [Next]_vars PROVE Canais'
  OBVIOUS
<1> USE Limites DEF Boa, TypeOKResto
<1>1. CASE UNCHANGED <<sessao, canal>>
  BY <1>1 DEF Canais
<1>2. ASSUME NEW r \in Rotinas, Resetar(r) PROVE Canais'
  BY <1>2 DEF Resetar, Canais
<1>3. ASSUME NEW r \in Rotinas, NEW c \in Clientes, Deslogar(r, c) PROVE Canais'
  BY <1>3 DEF Deslogar, Canais
<1>4. ASSUME NEW r \in Rotinas, Apagar(r) PROVE Canais'
  BY <1>4 DEF Apagar, Canais
<1>5. ASSUME NEW r \in Rotinas, Trocar(r) PROVE Canais'
  <2>1. PICK novo \in Clientes \ EmUso : canal' = [canal EXCEPT ![novo] = "nenhum"]
    BY <1>5 DEF Trocar
  <2>2. sessao' = sessao /\ sessao[novo] = "nova"
    BY <1>5, <2>1 DEF Trocar, EmUso
  <2> QED
    BY <2>1, <2>2 DEF Canais
<1>6. ASSUME NEW r \in Rotinas, Conectar(r) PROVE Canais'
  <2>1. rotina[r].canal \in Clientes
    BY <1>6 DEF Conectar, Trancadas
  <2> QED
    BY <1>1, <1>6, <2>1 DEF Conectar, Canais
<1>7. ASSUME NEW r \in Rotinas,
             \/ PedirCodigo(r) \/ Acordar(r) \/ Avisar(r) \/ DeixarParaLa(r) \/ Desistir(r)
             \/ Parear(r) \/ PairPhone(r)
      PROVE  UNCHANGED <<sessao, canal>>
  BY <1>7 DEF PedirCodigo, Acordar, Avisar, DeixarParaLa, Desistir, Parear, PairPhone, clientesV
<1>8. ASSUME NEW c \in Clientes, Confirmar(c) PROVE Canais'
  BY <1>8 DEF Confirmar, Vigilia, Sockets, Canais
<1>9. ASSUME NEW c \in Clientes, Romper(c) \/ Cair(c) PROVE Canais'
  BY <1>9 DEF Romper, Cair, Canais
<1>10. ASSUME NEW c \in Clientes, Mundo(c) PROVE Canais'
  BY <1>10 DEF Mundo, Autenticar, Expirar, Canais
<1>11. CASE Vigiar
  BY <1>1, <1>11 DEF Vigiar, PararVigia, Renovar, clientesV
<1>12. CASE UNCHANGED vars
  BY <1>1, <1>12 DEF vars
<1> QED
  BY <1>1, <1>2, <1>3, <1>4, <1>5, <1>6, <1>7, <1>8, <1>9, <1>10, <1>11, <1>12
     DEF Next, Passo

(* Nobody without the mutex gets it but by Parear, which begins a          *)
(* generation; nobody who holds it changes that of its own.                *)
LEMMA PosseSempre == Boa /\ Posse /\ [Next]_vars => Posse'
<1> SUFFICES ASSUME Boa, Posse, [Next]_vars PROVE Posse'
  OBVIOUS
<1> USE Limites DEF Boa, TypeOKResto
<1>1. ASSUME gen' = gen, trava' \in {trava, Ninguem},
             NEW r \in Rotinas, \A s \in Rotinas \ {r} : rotina'[s] = rotina[s],
             trava' = r => rotina'[r].gen = rotina[r].gen
      PROVE  Posse'
  BY <1>1 DEF Posse
<1>2. ASSUME NEW r \in Rotinas,
             PedirCodigo(r) \/ Resetar(r) \/ (\E c \in Clientes : Deslogar(r, c)) \/ Acordar(r)
      PROVE  Posse'
  <2>1. gen' = gen /\ trava' = trava /\ trava # r
    BY <1>2 DEF PedirCodigo, Resetar, Deslogar, Acordar, Trancadas, clientesV
  <2>2. \A s \in Rotinas \ {r} : rotina'[s] = rotina[s]
    BY <1>2 DEF PedirCodigo, Resetar, Deslogar, Acordar
  <2> QED
    BY <1>1, <2>1, <2>2
<1>3. ASSUME NEW r \in Rotinas, Falha(r), gen' = gen PROVE Posse'
  BY <1>1, <1>3, EfeitoFalha DEF Fica
<1>4. ASSUME NEW r \in Rotinas, Passo(r) PROVE Posse'
  <2>1. CASE Apagar(r)
    <3>1. Fica(r, rotina'[r]) /\ Andou(rotina[r], rotina'[r], "trocar")
      BY <2>1, Efeito DEF Apagar, Pcs
    <3> QED
      BY <1>1, <2>1, <3>1 DEF Apagar, Fica, Andou
  <2>2. CASE Trocar(r)
    <3>1. gen' = gen /\ trava' = trava /\ \A s \in Rotinas \ {r} : rotina'[s] = rotina[s]
      BY <2>2 DEF Trocar, Fim
    <3>2. trava = r => rotina'[r].gen = rotina[r].gen
      BY <2>2 DEF Trocar, Rotina
    <3> QED
      BY <1>1, <3>1, <3>2
  <2>3. CASE Avisar(r) \/ DeixarParaLa(r) \/ Desistir(r)
    <3>1. gen' = gen /\ trava' = trava /\ trava # r
      BY <2>3 DEF Avisar, DeixarParaLa, Desistir, Trancadas
    <3>2. \A s \in Rotinas \ {r} : rotina'[s] = rotina[s]
      BY <2>3 DEF Avisar, DeixarParaLa, Desistir, Fim
    <3> QED
      BY <1>1, <3>1, <3>2
  <2>4. CASE Parear(r)
    <3>1. CASE sessao[cliente] = "logada"
      BY <1>3, <2>4, <3>1 DEF Parear
    <3>2. CASE sessao[cliente] # "logada"
      <4>1. /\ trava' = r /\ gen' = gen + 1
            /\ rotina' = [rotina EXCEPT ![r].pc = "apagar", ![r].gen = gen + 1,
                                        ![r].resta = Restam(r)]
        BY <2>4, <3>2 DEF Parear
      <4>2. rotina'[r].gen = gen + 1
        BY <4>1 DEF Rotina
      <4> QED
        BY <4>1, <4>2 DEF Posse
    <3> QED
      BY <3>1, <3>2
  <2>5. CASE Conectar(r)
    <3>1. CASE Vai(r, "parear") /\ UNCHANGED trava
      <4>1. Fica(r, rotina'[r]) /\ Andou(rotina[r], rotina'[r], "parear")
        BY <3>1, Efeito DEF Pcs
      <4> QED
        BY <1>1, <2>5, <3>1, <4>1 DEF Conectar, Fica, Andou
    <3> QED
      BY <1>3, <2>5, <3>1 DEF Conectar
  <2>6. CASE PairPhone(r)
    <3>1. CASE trava' = Ninguem
      BY <3>1 DEF Posse
    <3> QED
      BY <2>6, <3>1 DEF PairPhone, Falha
  <2> QED
    BY <1>4, <2>1, <2>2, <2>3, <2>4, <2>5, <2>6 DEF Passo
<1>5. ASSUME NEW v \in vigias, NEW r \in Rotinas, Renovar(r, v) PROVE Posse'
  <2>1. gen' = gen /\ trava' = trava /\ trava # r
    BY <1>5 DEF Renovar, Trancadas
  <2>2. \A s \in Rotinas \ {r} : rotina'[s] = rotina[s]
    BY <1>5 DEF Renovar
  <2> QED
    BY <1>1, <2>1, <2>2
<1>6. CASE UNCHANGED <<trava, gen, rotina>>
  BY <1>6 DEF Posse
<1>7. CASE \E c \in Clientes : Confirmar(c) \/ Romper(c) \/ Cair(c) \/ Mundo(c)
  BY <1>6, <1>7 DEF Confirmar, Romper, Cair, Mundo, Autenticar, Expirar
<1>8. ASSUME NEW v \in vigias, PararVigia(v) PROVE Posse'
  BY <1>6, <1>8 DEF PararVigia
<1> QED
  BY <1>2, <1>4, <1>5, <1>6, <1>7, <1>8 DEF Next, Vigiar, vars

(* What was under way stays so where r alone moves, no generation begins   *)
(* and no channel that can time out ends, unless it was r or a watcher     *)
(* that left.                                                              *)
LEMMA CursoFica ==
  ASSUME EmCurso, adormecidas' = adormecidas, gen' = gen, NEW r \in Rotinas, ~Cuida(r),
         \A s \in Rotinas \ {r} : rotina'[s] = rotina[s],
         \A v \in vigias : Guarda(v) => v \in vigias' /\ canal'[v.canal] \in {"aberto", "expirou"}
  PROVE  EmCurso'
<1>1. CASE adormecidas > 0
  BY <1>1 DEF EmCurso
<1>2. ASSUME NEW s \in Rotinas, Cuida(s) PROVE EmCurso'
  <2>1. rotina'[s] = rotina[s]
    BY <1>2
  <2>2. Cuida(s)'
    BY <1>2, <2>1 DEF Cuida, Renova
  <2> QED
    BY <2>2 DEF EmCurso
<1>3. ASSUME NEW v \in vigias, Guarda(v) PROVE EmCurso'
  <2>1. v \in vigias' /\ Guarda(v)'
    BY <1>3 DEF Guarda
  <2> QED
    BY <2>1 DEF EmCurso
<1> QED
  BY <1>1, <1>2, <1>3 DEF EmCurso

(* A goroutine past the wait for the mutex, or that is no renewal, is at   *)
(* work.                                                                   *)
LEMMA EmCursoPor ==
  ASSUME NEW r \in Rotinas, rotina'[r].pc # "livre",
         rotina'[r].pc # "esperar" \/ rotina'[r].motivo # "renovar" \/ rotina'[r].gen = gen'
  PROVE  EmCurso'
<1>1. Cuida(r)'
  BY DEF Cuida, Renova
<1> QED
  BY <1>1 DEF EmCurso

(* An error inside pairLocked is announced, or will be. *)
LEMMA AmparoFalha ==
  ASSUME Boa, NEW r \in Rotinas, Falha(r)
  PROVE  aviso' = "queda" \/ EmCurso'
<1>1. CASE rotina[r].motivo = "renovar"
  BY <1>1 DEF Falha, Notificar
<1>2. CASE rotina[r].motivo # "renovar"
  <2>1. Andou(rotina[r], rotina'[r], "avisar")
    BY <1>2, Efeito DEF Boa, TypeOKResto, Falha, Pcs
  <2> QED
    BY <2>1, EmCursoPor DEF Andou
<1> QED
  BY <1>1, <1>2

(* The steps of the goroutines. *)
LEMMA AmparoRotina ==
  ASSUME Boa, Vigilia, Amparo, NEW r \in Rotinas,
         \/ PedirCodigo(r) \/ Resetar(r) \/ (\E c \in Clientes : Deslogar(r, c)) \/ Acordar(r)
         \/ Passo(r)
  PROVE  Acompanhado'
<1> USE Limites DEF Boa, TypeOKResto
<1>1. ASSUME EmCurso' \/ aviso' # "codigo" \/ calado' PROVE Acompanhado'
  BY <1>1 DEF Acompanhado
<1>2. CASE PedirCodigo(r) \/ Acordar(r)
  <2>0. {"admin", "perda"} \subseteq Motivos
    BY DEF Motivos
  <2>1. PICK m \in {"admin", "perda"} : Fica(r, Pedindo(m))
    BY <1>2, <2>0, Efeito, Rotulos DEF PedirCodigo, Acordar
  <2>2. rotina'[r].pc = "esperar" /\ rotina'[r].motivo # "renovar"
    BY <2>0, <2>1, Rotulos DEF Fica
  <2> QED
    BY <1>1, <2>2, EmCursoPor
<1>3. CASE Resetar(r) \/ \E c \in Clientes : Deslogar(r, c)
  <2> DEFINE perdendo == [Livre EXCEPT !.pc = "apagar", !.motivo = "perda"]
  <2>1. Fica(r, perdendo)
    BY <1>3, Efeito, Rotulos DEF Resetar, Deslogar
  <2>2. perdendo.pc = "apagar"
    BY Rotulos
  <2> HIDE DEF perdendo
  <2> QED
    BY <1>1, <2>1, <2>2, EmCursoPor DEF Fica
<1>4. CASE Apagar(r)
  <2>1. Andou(rotina[r], rotina'[r], "trocar")
    BY <1>4, Efeito DEF Apagar, Pcs
  <2> QED
    BY <1>1, <2>1, EmCursoPor DEF Andou
<1>5. CASE Trocar(r)
  <2>1. CASE trava = r
    <3>1. rotina'[r].pc = "conectar"
      BY <1>5, <2>1 DEF Trocar, Rotina
    <3> QED
      BY <1>1, <3>1, EmCursoPor
  <2>2. CASE trava # r
    BY <1>1, <1>5, <2>2 DEF Trocar, EmCurso
  <2> QED
    BY <2>1, <2>2
<1>6. CASE Avisar(r) \/ Desistir(r)
  BY <1>1, <1>6 DEF Avisar, Desistir, Notificar
<1>7. CASE DeixarParaLa(r)
  <2>1. /\ ~Cuida(r)
        /\ UNCHANGED <<adormecidas, gen, canal, vigias, aviso, calado, sessao>>
    BY <1>7 DEF DeixarParaLa, Superada, Cuida, Renova, clientesV
  <2>2. \A s \in Rotinas \ {r} : rotina'[s] = rotina[s]
    BY <1>7 DEF DeixarParaLa, Fim
  <2>3. EmCurso => EmCurso'
    BY <2>1, <2>2, CursoFica DEF Guarda
  <2>4. TemSessao => TemSessao'
    BY <2>1 DEF TemSessao
  <2> QED
    BY <2>1, <2>3, <2>4 DEF Amparo, Acompanhado
<1>8. CASE Parear(r)
  <2>1. CASE sessao[cliente] = "logada"
    BY <1>1, <1>8, <2>1, AmparoFalha DEF Parear
  <2>2. CASE sessao[cliente] # "logada"
    <3>1. rotina'[r].pc = "apagar"
      BY <1>8, <2>2 DEF Parear, Rotina
    <3> QED
      BY <1>1, <3>1, EmCursoPor
  <2> QED
    BY <2>1, <2>2
<1>9. CASE Conectar(r)
  <2>1. CASE Vai(r, "parear")
    <3>1. Andou(rotina[r], rotina'[r], "parear")
      BY <2>1, Efeito DEF Pcs
    <3> QED
      BY <1>1, <3>1, EmCursoPor DEF Andou
  <2> QED
    BY <1>1, <1>9, <2>1, AmparoFalha DEF Conectar
<1>10. CASE PairPhone(r)
  <2> DEFINE vigia == [gen |-> rotina[r].gen, canal |-> rotina[r].canal, resta |-> rotina[r].resta]
  <2>1. CASE sessao[cliente] = "aberta" /\ vigias' = vigias \cup {vigia}
    <3>1. rotina[r].gen = gen /\ rotina[r].canal = cliente
      BY <1>10, <2>1 DEF PairPhone, Trancadas, Amparo, Posse, Vigilia, Geracoes, Segue
    <3>2. canal[cliente] = "aberto" /\ gen' = gen /\ canal' = canal
      BY <1>10, <2>1 DEF PairPhone, Amparo, Canais
    <3>3. vigia.gen = gen /\ vigia.canal = cliente /\ vigia \in vigias'
      BY <2>1, <3>1
    <3> HIDE DEF vigia
    <3>4. \E v \in vigias' : v.gen = gen' /\ canal'[v.canal] = "aberto"
      BY <3>2, <3>3
    <3>5. EmCurso'
      BY <3>4 DEF EmCurso, Guarda
    <3> QED
      BY <1>1, <3>5
  <2> QED
    BY <1>1, <1>10, <2>1, AmparoFalha DEF PairPhone
<1> QED
  BY <1>2, <1>3, <1>4, <1>5, <1>6, <1>7, <1>8, <1>9, <1>10 DEF Passo

(* A watcher that ends was not the one of the newest code, or that code    *)
(* came to an end the administrator knows of; one that sees the timeout    *)
(* hands its generation to a renewal.                                      *)
LEMMA AmparoVigiar ==
  ASSUME Boa, Amparo, Vigiar
  PROVE  Acompanhado'
<1> USE Limites DEF Boa, TypeOKResto
<1>1. ASSUME NEW v \in vigias, PararVigia(v) PROVE Acompanhado'
  <2>1. ~Guarda(v)
    BY <1>1 DEF PararVigia, Guarda
  <2>2. /\ vigias' = vigias \ {v}
        /\ UNCHANGED <<adormecidas, rotina, gen, canal, aviso, calado, sessao>>
    BY <1>1 DEF PararVigia, clientesV
  <2>3. \A w \in vigias : Guarda(w) => w \in vigias' /\ Guarda(w)'
    BY <2>1, <2>2 DEF Guarda
  <2>4. \A s \in Rotinas : Cuida(s) => Cuida(s)'
    BY <2>2 DEF Cuida, Renova
  <2>5. (EmCurso => EmCurso') /\ (TemSessao => TemSessao')
    BY <2>2, <2>3, <2>4 DEF EmCurso, TemSessao
  <2> QED
    BY <2>2, <2>5 DEF Amparo, Acompanhado
<1>2. ASSUME NEW v \in vigias, NEW r \in Rotinas, Renovar(r, v) PROVE Acompanhado'
  <2>1. /\ ~Cuida(r) /\ vigias' = vigias \ {v}
        /\ UNCHANGED <<adormecidas, gen, canal, aviso, calado, sessao>>
    BY <1>2 DEF Renovar, Cuida, clientesV
  <2>2. /\ rotina'[r].gen = v.gen /\ rotina'[r].pc = "esperar"
        /\ \A s \in Rotinas \ {r} : rotina'[s] = rotina[s]
    BY <1>2 DEF Renovar
  <2>3. CASE Guarda(v)
    <3>1. EmCurso'
      BY <2>1, <2>2, <2>3, EmCursoPor DEF Guarda
    <3> QED
      BY <3>1 DEF Acompanhado
  <2>4. CASE ~Guarda(v)
    <3>1. EmCurso => EmCurso'
      BY <2>1, <2>2, <2>4, CursoFica DEF Guarda
    <3> QED
      BY <2>1, <3>1 DEF Amparo, Acompanhado, TemSessao
  <2> QED
    BY <2>3, <2>4
<1> QED
  BY <1>1, <1>2 DEF Vigiar

(* The user, the server and whatsmeow: a code that is confirmed gives a    *)
(* session, one that expires leaves its watcher, and an error is logged.   *)
LEMMA AmparoMundo ==
  ASSUME Boa, Amparo, NEW c \in Clientes, Confirmar(c) \/ Romper(c) \/ Cair(c) \/ Mundo(c)
  PROVE  Acompanhado'
<1> USE Limites DEF Boa, TypeOKResto
<1>1. CASE Confirmar(c) \/ Cair(c) \/ Autenticar(c)
  <2>1. sessao'[c] \in {"pareada", "logada"}
    BY <1>1 DEF Confirmar, Cair, Autenticar
  <2> QED
    BY <2>1 DEF Acompanhado, TemSessao
<1>2. CASE Romper(c)
  BY <1>2 DEF Romper, Acompanhado
<1>3. CASE Expirar(c)
  <2>1. UNCHANGED <<adormecidas, rotina, gen, vigias, aviso, calado>>
    BY <1>3 DEF Expirar
  <2>2. \A v \in vigias : Guarda(v) => Guarda(v)'
    BY <1>3, <2>1 DEF Expirar, Guarda
  <2>3. \A s \in Rotinas : Cuida(s) => Cuida(s)'
    BY <2>1 DEF Cuida, Renova
  <2>4. EmCurso => EmCurso'
    BY <2>1, <2>2, <2>3 DEF EmCurso
  <2>5. TemSessao => TemSessao'
    BY <1>3 DEF Expirar, TemSessao, Amparo, Canais
  <2> QED
    BY <2>1, <2>4, <2>5 DEF Amparo, Acompanhado
<1> QED
  BY <1>1, <1>2, <1>3 DEF Mundo

(* Every step keeps it. *)
LEMMA AmparoSempre == Boa /\ Vigilia /\ Amparo /\ [Next]_vars => Amparo'
<1> SUFFICES ASSUME Boa, Vigilia, Amparo, [Next]_vars PROVE Acompanhado'
  BY CanaisSempre, PosseSempre DEF Amparo
<1>1. CASE UNCHANGED vars
  <2>1. \A v \in vigias : Guarda(v) => Guarda(v)'
    BY <1>1 DEF vars, Guarda
  <2>2. \A s \in Rotinas : Cuida(s) => Cuida(s)'
    BY <1>1 DEF vars, Cuida, Renova
  <2> QED
    BY <1>1, <2>1, <2>2 DEF vars, Amparo, Acompanhado, EmCurso, TemSessao
<1> QED
  BY <1>1, AmparoRotina, AmparoVigiar, AmparoMundo DEF Next

(* At first no code has been announced. *)
LEMMA AmparoInicial == Init => Amparo
<1> SUFFICES ASSUME Init PROVE Amparo
  OBVIOUS
<1>1. Canais
  BY Limites DEF Init, Canais
<1> QED
  BY <1>1, Limites DEF Init, Amparo, Posse, Acompanhado

(* For any number of goroutines, requests, clients and faults: when the    *)
(* administrator holds a dead code and no session is up, somebody is still *)
(* there to say so, unless the failure was one the bridge only logs.  This *)
(* is what CodigoMortoResponde says without the scheduling: that nothing   *)
(* is ever left to wait for.                                               *)
THEOREM AmparoCorrect == Spec => []MortoAmparado
<1>1. Amparo => MortoAmparado
  BY DEF Amparo, Acompanhado, MortoAmparado, CodigoMorto, TemSessao
<1> QED
  BY <1>1, BoaInicial, VigiliaInicial, AmparoInicial, BoaSempre, VigiliaSempre, AmparoSempre, PTL
     DEF Spec
---------------------------------------------------------------------------
(* An error over a session that is up.                                     *)

(* Until a live client is replaced, only the current one lives. *)
Sozinho == ~orfao => \A c \in Clientes : Vivo(c) => c = cliente

(* Only a new client in b.client, which Trocar makes, adds a client that   *)
(* lives.                                                                  *)
LEMMA VivosFicam ==
  ASSUME Boa, Vigilia, [Next]_vars, ~\E r \in Rotinas : Trocar(r)
  PROVE  cliente' = cliente /\ orfao' = orfao /\ \A c \in Clientes : Vivo(c)' => Vivo(c)
<1> USE Limites DEF Boa, TypeOKResto, clientesV
<1> DEFINE Iguais == cliente' = cliente /\ orfao' = orfao
           Apagam == \A c \in Clientes : sessao'[c] # "nova" => Vivo(c)
           Ligam == \A s \in Rotinas :
                      rotina'[s].pc = "conectar" =>
                        rotina[s].pc = "conectar" /\ rotina'[s] = rotina[s]
<1>1. ASSUME Iguais, Apagam, Ligam
      PROVE  cliente' = cliente /\ orfao' = orfao /\ \A c \in Clientes : Vivo(c)' => Vivo(c)
  BY <1>1 DEF Vivo
<1>2. ASSUME NEW r \in Rotinas, Fica(r, rotina'[r]), rotina'[r].pc # "conectar" PROVE Ligam
  BY <1>2 DEF Fica
<1>3. sessao' = sessao => Apagam
  BY DEF Vivo
<1>4. ASSUME NEW r \in Rotinas,
             PedirCodigo(r) \/ Resetar(r) \/ (\E c \in Clientes : Deslogar(r, c)) \/ Acordar(r)
      PROVE  Iguais /\ Apagam /\ Ligam
  <2>0. {"admin", "perda"} \subseteq Motivos
    BY DEF Motivos
  <2>1. CASE PedirCodigo(r) \/ Acordar(r)
    <3>1. PICK m \in {"admin", "perda"} : Fica(r, Pedindo(m))
      BY <2>0, <2>1, Efeito, Rotulos DEF PedirCodigo, Acordar
    <3>2. Ligam
      BY <1>2, <2>0, <3>1, Rotulos DEF Fica
    <3> QED
      BY <1>3, <2>1, <3>2 DEF PedirCodigo, Acordar
  <2>2. CASE Resetar(r) \/ \E c \in Clientes : Deslogar(r, c)
    <3> DEFINE perdendo == [Livre EXCEPT !.pc = "apagar", !.motivo = "perda"]
    <3>1. Fica(r, perdendo)
      BY <2>2, Efeito, Rotulos DEF Resetar, Deslogar
    <3>2. perdendo.pc = "apagar"
      BY Rotulos
    <3> HIDE DEF perdendo
    <3>3. Ligam
      BY <1>2, <3>1, <3>2 DEF Fica
    <3>4. Iguais /\ Apagam
      BY <2>2 DEF Resetar, Deslogar, Vivo
    <3> QED
      BY <3>3, <3>4
  <2> QED
    BY <1>4, <2>1, <2>2
<1>5. ASSUME NEW r \in Rotinas, Passo(r) PROVE Iguais /\ Apagam /\ Ligam
  <2>1. CASE Apagar(r)
    <3>1. Fica(r, rotina'[r]) /\ Andou(rotina[r], rotina'[r], "trocar")
      BY <2>1, Efeito DEF Apagar, Pcs
    <3>2. Iguais /\ Apagam
      BY <2>1 DEF Apagar, Vivo
    <3> QED
      BY <1>2, <3>1, <3>2 DEF Andou
  <2>2. CASE Avisar(r) \/ DeixarParaLa(r) \/ Desistir(r)
    <3>1. Fica(r, Livre)
      BY <2>2, Efeito DEF Avisar, DeixarParaLa, Desistir
    <3>2. Ligam
      BY <1>2, <3>1, Rotulos DEF Fica
    <3> QED
      BY <1>3, <2>2, <3>2 DEF Avisar, DeixarParaLa, Desistir
  <2>3. ASSUME Falha(r) PROVE Ligam
    BY <1>2, <2>3, EfeitoFalha
  <2>4. CASE Parear(r)
    <3>1. Ligam
      <4>1. CASE sessao[cliente] = "logada"
        BY <2>3, <2>4, <4>1 DEF Parear
      <4>2. CASE sessao[cliente] # "logada"
        <5>1. rotina'[r].pc = "apagar" /\ \A s \in Rotinas \ {r} : rotina'[s] = rotina[s]
          BY <2>4, <4>2 DEF Parear, Rotina
        <5> QED
          BY <5>1
      <4> QED
        BY <4>1, <4>2
    <3> QED
      BY <1>3, <2>4, <3>1 DEF Parear
  <2>5. CASE Conectar(r)
    <3>1. Ligam
      <4>1. CASE Vai(r, "parear")
        BY <1>2, <4>1, Efeito DEF Pcs, Andou
      <4> QED
        BY <2>3, <2>5, <4>1 DEF Conectar
    <3>2. Vivo(rotina[r].canal) /\ rotina[r].canal \in Clientes
      BY <2>5 DEF Conectar, Vivo, Trancadas
    <3>3. Apagam
      <4>1. \A c \in Clientes : c # rotina[r].canal => sessao'[c] = sessao[c]
        BY <2>5, <3>2 DEF Conectar
      <4> QED
        BY <3>2, <4>1 DEF Vivo
    <3> QED
      BY <2>5, <3>1, <3>3 DEF Conectar
  <2>6. CASE PairPhone(r)
    <3>1. Ligam
      <4>1. CASE Fim(r)
        BY <1>2, <4>1, Efeito, Rotulos DEF Fica
      <4> QED
        BY <2>3, <2>6, <4>1 DEF PairPhone
    <3> QED
      BY <1>3, <2>6, <3>1 DEF PairPhone
  <2> QED
    BY <1>5, <2>1, <2>2, <2>4, <2>5, <2>6 DEF Passo
<1>6. ASSUME NEW v \in vigias, PararVigia(v) \/ \E r \in Rotinas : Renovar(r, v)
      PROVE  Iguais /\ Apagam /\ Ligam
  <2>1. Iguais /\ sessao' = sessao
    BY <1>6 DEF PararVigia, Renovar
  <2>2. Ligam
    BY <1>6 DEF PararVigia, Renovar
  <2> QED
    BY <1>3, <2>1, <2>2
<1>7. ASSUME NEW c \in Clientes, Confirmar(c) \/ Romper(c) \/ Cair(c) \/ Mundo(c)
      PROVE  Iguais /\ Apagam /\ Ligam
  <2>1. Apagam
    BY <1>7 DEF Confirmar, Romper, Cair, Mundo, Autenticar, Expirar, Vigilia, Sockets, Vivo
  <2>2. Iguais /\ rotina' = rotina
    BY <1>7 DEF Confirmar, Romper, Cair, Mundo, Autenticar, Expirar
  <2> QED
    BY <2>1, <2>2
<1>8. CASE UNCHANGED vars
  <2>1. Iguais /\ sessao' = sessao /\ rotina' = rotina
    BY <1>8 DEF vars
  <2> QED
    BY <1>1, <1>3, <2>1
<1> QED
  BY <1>1, <1>4, <1>5, <1>6, <1>7, <1>8 DEF Next, Vigiar

(* A client that replaces one that lives makes it an orphan. *)
LEMMA SozinhoSempre == Boa /\ Vigilia /\ Sozinho /\ [Next]_vars => Sozinho'
<1> SUFFICES ASSUME Boa, Vigilia, Sozinho, [Next]_vars PROVE Sozinho'
  OBVIOUS
<1>1. CASE ~\E r \in Rotinas : Trocar(r)
  <2>1. cliente' = cliente /\ orfao' = orfao /\ \A c \in Clientes : Vivo(c)' => Vivo(c)
    BY <1>1, VivosFicam
  <2> QED
    BY <2>1, Zenon DEF Sozinho
<1>2. ASSUME NEW r \in Rotinas, Trocar(r) PROVE Sozinho'
  <2>1. orfao' = (orfao \/ Vivo(cliente)) /\ sessao' = sessao
    BY <1>2 DEF Trocar
  <2>2. \A c \in Clientes : Vivo(c)' => Vivo(c) \/ c = cliente'
    <3>1. \A s \in Rotinas \ {r} : rotina'[s] = rotina[s]
      BY <1>2 DEF Trocar, Fim, Boa, TypeOKResto
    <3>2. rotina'[r].pc = "conectar" => rotina'[r].canal = cliente'
      BY <1>2, Rotulos DEF Trocar, Fim, Boa, TypeOKResto, Rotina
    <3> QED
      BY <2>1, <3>1, <3>2 DEF Vivo
  <2> SUFFICES ASSUME ~orfao', NEW c \in Clientes, Vivo(c)' PROVE c = cliente'
    BY Zenon DEF Sozinho
  <2>3. ~orfao /\ ~Vivo(cliente)
    BY <2>1, Zenon
  <2>4. ~Vivo(c)
    BY <2>3, Zenon DEF Sozinho
  <2> QED
    BY <2>2, <2>4, Zenon
<1> QED
  BY <1>1, <1>2

(* The ways of an error: none is recorded and no session comes up, or the  *)
(* current client has no session, or the error is cleared, or it is that   *)
(* of a client that is not the current one and lives.                      *)
LEMMA ErroAndamento ==
  ASSUME Boa, Vigilia, [Next]_vars
  PROVE  \/ /\ erro' = erro /\ orfao' = orfao
            /\ sessao'[cliente'] = "logada" => sessao[cliente] = "logada"
         \/ sessao'[cliente'] # "logada"
         \/ erro' = FALSE
         \/ orfao' = orfao /\ \E c \in Clientes : Vivo(c) /\ c # cliente
<1> DEFINE Andamento ==
             \/ /\ erro' = erro /\ orfao' = orfao
                /\ sessao'[cliente'] = "logada" => sessao[cliente] = "logada"
             \/ sessao'[cliente'] # "logada"
             \/ erro' = FALSE
             \/ orfao' = orfao /\ \E c \in Clientes : Vivo(c) /\ c # cliente
<1> SUFFICES Andamento
  OBVIOUS
<1> USE Limites DEF Boa, TypeOKResto, clientesV
<1>1. CASE UNCHANGED <<erro, orfao, sessao, cliente>>
  BY <1>1
<1>2. ASSUME NEW r \in Rotinas,
             \/ PedirCodigo(r) \/ Acordar(r) \/ Avisar(r) \/ DeixarParaLa(r) \/ Parear(r)
             \/ PairPhone(r)
      PROVE  UNCHANGED <<erro, orfao, sessao, cliente>>
  BY <1>2 DEF PedirCodigo, Acordar, Avisar, DeixarParaLa, Parear, PairPhone
<1>3. ASSUME NEW r \in Rotinas, Resetar(r) \/ Apagar(r) PROVE sessao'[cliente'] # "logada"
  BY <1>3 DEF Resetar, Apagar
<1>4. ASSUME NEW r \in Rotinas, NEW c \in Clientes, Deslogar(r, c) PROVE Andamento
  <2>1. Vivo(c) /\ cliente' = cliente /\ orfao' = orfao /\ sessao'[c] = "nova"
    BY <1>4 DEF Deslogar, Vivo
  <2> QED
    BY <2>1
<1>5. ASSUME NEW r \in Rotinas, Trocar(r) PROVE sessao'[cliente'] # "logada"
  BY <1>5 DEF Trocar, EmUso
<1>6. ASSUME NEW r \in Rotinas, Desistir(r) PROVE sessao'[cliente'] # "logada"
  <2>1. Renova(r) /\ rotina[r].gen = gen /\ sessao' = sessao /\ cliente' = cliente
    BY <1>6, Zenon DEF Desistir, Superada, Esgotada, Renova, clientesV
  <2>2. Segue(rotina[r].canal) /\ rotina[r].canal \in Clientes /\ canal[rotina[r].canal] = "expirou"
    BY <2>1 DEF Vigilia, Geracoes, EmDia, Expirados
  <2>3. sessao[rotina[r].canal] = "nova"
    BY <2>2 DEF Vigilia, Sockets
  <2> QED
    BY <2>1, <2>2, <2>3 DEF Segue
<1>7. ASSUME NEW r \in Rotinas, Conectar(r) PROVE Andamento
  <2>1. UNCHANGED <<erro, orfao, cliente>> /\ rotina[r].canal \in Clientes
    BY <1>7 DEF Conectar, Trancadas
  <2>2. sessao'[cliente] = "logada" => sessao[cliente] = "logada"
    BY <1>7, <2>1 DEF Conectar
  <2> QED
    BY <2>1, <2>2
<1>8. ASSUME NEW c \in Clientes, Confirmar(c) \/ Expirar(c) PROVE Andamento
  <2>1. UNCHANGED <<erro, orfao, cliente>>
    BY <1>8 DEF Confirmar, Expirar
  <2>2. sessao'[cliente] = "logada" => sessao[cliente] = "logada"
    BY <1>8 DEF Confirmar, Expirar
  <2> QED
    BY <2>1, <2>2
<1>9. ASSUME NEW c \in Clientes, Autenticar(c) PROVE erro' = FALSE
  BY <1>9, Zenon DEF Autenticar
<1>10. ASSUME NEW c \in Clientes, Romper(c) \/ Cair(c) PROVE Andamento
  <2>1. Vivo(c) /\ cliente' = cliente /\ orfao' = orfao /\ sessao'[c] # "logada"
    BY <1>10 DEF Romper, Cair, Vivo
  <2> QED
    BY <2>1
<1>11. CASE Vigiar
  BY <1>1, <1>11 DEF Vigiar, PararVigia, Renovar
<1>12. CASE UNCHANGED vars
  BY <1>1, <1>12 DEF vars
<1> HIDE DEF Andamento
<1>13. ASSUME \/ UNCHANGED <<erro, orfao, sessao, cliente>>
              \/ sessao'[cliente'] # "logada" \/ erro' = FALSE
       PROVE  Andamento
  BY <1>13, Zenon DEF Andamento
<1> QED
  BY <1>1, <1>2, <1>3, <1>4, <1>5, <1>6, <1>7, <1>8, <1>9, <1>10, <1>11, <1>12, <1>13
     DEF Next, Passo, Mundo

(* For any number of goroutines, requests, resets and faults: while        *)
(* b.client was never replaced alive, no error stands over a session that  *)
(* is up.                                                                  *)
THEOREM ErroCorrect == Spec => []ErroDeOrfao
<1>1. Init => Sozinho /\ ErroDeOrfao
  <2> SUFFICES ASSUME Init PROVE (\A c \in Clientes : Vivo(c) => c = cliente) /\ erro = FALSE
    BY Zenon DEF Sozinho, ErroDeOrfao
  <2>1. PICK s \in {"nova", "pareada"}, i \in Rotinas :
          /\ sessao = [c \in Clientes |-> IF c = 1 THEN s ELSE "nova"]
          /\ rotina = [r \in Rotinas |-> IF r = i /\ s = "nova" THEN Pedindo("inicio") ELSE Livre]
    BY DEF Init
  <2>2. "inicio" \in Motivos
    BY DEF Motivos
  <2>3. \A r \in Rotinas : rotina[r].pc # "conectar"
    BY <2>1, <2>2, Rotulos
  <2>4. cliente = 1 /\ erro = FALSE
    BY Zenon DEF Init
  <2> QED
    BY <2>1, <2>3, <2>4 DEF Vivo
<1>2. Boa /\ Vigilia /\ Sozinho /\ ErroDeOrfao /\ [Next]_vars => ErroDeOrfao'
  BY ErroAndamento, Zenon DEF Sozinho, ErroDeOrfao
<1> QED
  BY <1>1, <1>2, BoaInicial, VigiliaInicial, BoaSempre, VigiliaSempre, SozinhoSempre, PTL DEF Spec
============================================================================
