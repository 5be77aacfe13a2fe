------------------------ MODULE ContextoVideo_proofs ------------------------
(***************************************************************************)
(* Type correctness of ContextoVideo; its two invariants about the files:  *)
(* the row names a file that exists, and a file without a row has a cause; *)
(* and the bound on the answers about a video.                             *)
(*                                                                         *)
(* The first two hold because a file is named only once by the row: a file *)
(* being uploaded is newer than everything anybody has read.  The third    *)
(* because a handler that answered still owes the row its charge, and one  *)
(* that may yet answer began while questions were left (Cota).             *)
(***************************************************************************)
EXTENDS ContextoVideo, FiniteSetTheorems, TLAPS

(* The file the actor is working on is newer than every file anybody reads *)
(* of: the actor is serial and only it writes a file's name into the row.  *)
Novidade ==
  /\ contexto.uri <= subidos
  /\ fila.pc = "ociosa" => fila.uri = Nenhum
  /\ fila.pc # "ociosa" =>
       /\ fila.uri = subidos
       /\ fila.uri \in arquivos
       /\ contexto.uri < fila.uri
       /\ fila.antigo < fila.uri
       /\ \A a \in Atendentes : atendente[a].lido.uri < fila.uri
  /\ \A a \in Atendentes : atendente[a].lido.uri <= subidos

(* While the actor replaces the row, nobody else fills it. *)
Substituicao ==
  /\ fila.pc = "excluir" => contexto.uri \in {fila.antigo, Nenhum}
  /\ faltas = 0 => /\ fila.pc \in {"apagar", "salvar"} => contexto.uri = Nenhum
                   /\ \A a \in Atendentes :
                        atendente[a].pc = "apagar" /\ Ha =>
                          atendente[a].lido.uri # contexto.uri

IInv == TypeOK /\ Novidade /\ Substituicao /\ ContextoTemArquivo /\ SobraTemCausa

(* The initial state is well typed. *)
LEMMA TipoInicial == Init => TypeOK
  BY ContextoVideoAssumption
     DEF Init, TypeOK, Contexto, SemContexto, Fila, Ociosa, Atendente, Livre, Talvez,
         Nenhum, Videos, Idades

(* The constants that actions assign are of their types. *)
LEMMA Valores ==
  /\ SemContexto \in Contexto
  /\ Ociosa \in Fila
  /\ Livre \in Atendente
  /\ \A c \in Contexto : MaisVelho(c) \in Contexto
  BY ContextoVideoAssumption
     DEF Contexto, SemContexto, Fila, Ociosa, Atendente, Livre, Talvez, Nenhum, Videos,
         Idades, MaisVelho

(* A step of one handler that changes its record only is well typed. *)
LEMMA TipoAtendente ==
  ASSUME atendente \in [Atendentes -> Atendente], NEW a \in Atendentes
  PROVE  /\ Larga(a) => atendente' \in [Atendentes -> Atendente]
         /\ \A pc \in {"livre", "decidir", "perguntar", "decrementar", "contar",
                       "remover", "limpar", "excluir", "apagar"} :
              /\ Segue(a, pc) => atendente' \in [Atendentes -> Atendente]
              /\ \A c \in Contexto :
                   atendente' = [atendente EXCEPT ![a] = [pc |-> pc, lido |-> c]]
                     => atendente' \in [Atendentes -> Atendente]
  BY Valores DEF Larga, Segue, Atendente

(* The actor's steps keep the types. *)
LEMMA TipoFila ==
  ASSUME TypeOK, SubirVideo \/ PassoFila
  PROVE  TypeOK'
<1>0. /\ contexto \in Contexto /\ arquivos \subseteq Videos /\ fila \in Fila
      /\ atendente \in [Atendentes -> Atendente] /\ subidos \in 0..MaxVideos
      /\ faltas \in 0..MaxFaltas /\ respostas \in [Videos -> Nat] /\ tomados \subseteq Videos
  BY DEF TypeOK
<1>00. /\ contexto.uri \in Talvez /\ fila.uri \in Talvez
       /\ [uri |-> fila.uri, restantes |-> perguntas_followup_video, idade |-> 0] \in Contexto
  BY <1>0, ContextoVideoAssumption DEF Contexto, Fila, Idades
<1>1. CASE SubirVideo
  <2>1. subidos + 1 \in Videos /\ subidos + 1 \in 0..MaxVideos
    BY <1>0, <1>1, ContextoVideoAssumption DEF SubirVideo, Videos
  <2>2. fila' \in Fila
    BY <1>1, <2>1 DEF SubirVideo, Fila, Talvez
  <2> QED
    BY <1>0, <1>1, <2>1, <2>2 DEF SubirVideo, TypeOK
<1>9. ASSUME PassoFila  PROVE fila' \in Fila
  <2>1. CASE DescreverVideo
    BY <1>0, <1>00, <2>1, Valores DEF DescreverVideo, FilaSegue, Fila
  <2>2. CASE DesfazerUpload
    BY <1>0, <1>00, <2>2, Valores DEF DesfazerUpload, FilaSegue, Fila
  <2>3. CASE LembrarSelecionar
    BY <1>0, <1>00, <2>3, Valores DEF LembrarSelecionar, FilaSegue, Fila
  <2>4. CASE LembrarExcluir
    BY <1>0, <1>00, <2>4, Valores DEF LembrarExcluir, FilaSegue, Fila
  <2>5. CASE LembrarApagar
    BY <1>0, <1>00, <2>5, Valores DEF LembrarApagar, FilaSegue, Fila
  <2>6. CASE LembrarSalvar
    BY <1>0, <1>00, <2>6, Valores DEF LembrarSalvar, FilaSegue, Fila
  <2> QED
    BY <1>9, <2>1, <2>2, <2>3, <2>4, <2>5, <2>6 DEF PassoFila
<1>10. ASSUME PassoFila
       PROVE  /\ contexto' \in Contexto
              /\ arquivos' \subseteq Videos
              /\ faltas' \in 0..MaxFaltas
              /\ UNCHANGED <<atendente, subidos, respostas, tomados>>
  <2>1. CASE DescreverVideo
    BY <1>0, <1>00, <2>1, Valores, ContextoVideoAssumption DEF DescreverVideo, Tentar, Falta
  <2>2. CASE DesfazerUpload
    BY <1>0, <1>00, <2>2, Valores, ContextoVideoAssumption DEF DesfazerUpload, Tentar, Falta
  <2>3. CASE LembrarSelecionar
    BY <1>0, <1>00, <2>3, Valores, ContextoVideoAssumption DEF LembrarSelecionar, Tentar, Falta
  <2>4. CASE LembrarExcluir
    BY <1>0, <1>00, <2>4, Valores, ContextoVideoAssumption DEF LembrarExcluir, Tentar, Falta
  <2>5. CASE LembrarApagar
    BY <1>0, <1>00, <2>5, Valores, ContextoVideoAssumption DEF LembrarApagar, Tentar, Falta
  <2>6. CASE LembrarSalvar
    BY <1>0, <1>00, <2>6, Valores, ContextoVideoAssumption DEF LembrarSalvar, Tentar, Falta
  <2> QED
    BY <1>10, <2>1, <2>2, <2>3, <2>4, <2>5, <2>6 DEF PassoFila
<1> QED
  BY <1>0, <1>1, <1>9, <1>10 DEF TypeOK

(* A handler's steps keep the types. *)
LEMMA TipoPasso ==
  ASSUME TypeOK, NEW a \in Atendentes,
         ObterContexto(a) \/ LimparHistorico(a) \/ PassoAtendente(a) \/ Matar(a)
  PROVE  TypeOK'
<1> USE ContextoVideoAssumption, TipoAtendente
<1> USE DEF TypeOK, Falta
<1>1. CASE ObterContexto(a)
  BY <1>1 DEF ObterContexto
<1>2. CASE LimparHistorico(a)
  BY <1>2 DEF LimparHistorico
<1>3. CASE Decidir(a)
  BY <1>3 DEF Decidir
<1>4. CASE Perguntar(a)
  <2>1. respostas' \in [Videos -> Nat]
    BY <1>4 DEF Perguntar
  <2> QED
    BY <1>4, <2>1 DEF Perguntar
<1>5. CASE Decrementar(a)
  <2>1. contexto' \in Contexto
    BY <1>5 DEF Decrementar, Contexto
  <2> QED
    BY <1>5, <2>1 DEF Decrementar
<1>6. CASE Contar(a)
  BY <1>6 DEF Contar
<1>7. CASE EncerrarSelecionar(a)
  BY <1>7 DEF EncerrarSelecionar
<1>8. CASE LimparSelecionar(a)
  BY <1>8 DEF LimparSelecionar
<1>9. CASE Excluir(a)
  <2>1. contexto' \in Contexto /\ tomados' \subseteq Videos
    BY <1>9, Valores DEF Excluir, Tentar, Ha, Contexto, Talvez
  <2> QED
    BY <1>9, <2>1 DEF Excluir, Tentar
<1>10. CASE Apagar(a)
  BY <1>10 DEF Apagar, Tentar
<1>11. CASE Matar(a)
  BY <1>11 DEF Matar
<1> QED
  BY <1>1, <1>2, <1>3, <1>4, <1>5, <1>6, <1>7, <1>8, <1>9, <1>10, <1>11
     DEF PassoAtendente

(* No step leaves the types. *)
LEMMA TipoNext == TypeOK /\ [Next]_vars => TypeOK'
<1> SUFFICES ASSUME TypeOK, [Next]_vars  PROVE TypeOK'
  OBVIOUS
<1>1. CASE SubirVideo \/ PassoFila
  BY <1>1, TipoFila
<1>2. ASSUME NEW a \in Atendentes,
             ObterContexto(a) \/ LimparHistorico(a) \/ PassoAtendente(a) \/ Matar(a)
      PROVE  TypeOK'
  BY <1>2, TipoPasso
<1>3. CASE Reiniciar
  BY <1>3, Valores, ContextoVideoAssumption DEF Reiniciar, TypeOK, Falta
<1>4. CASE Envelhecer
  <2>1. contexto' \in Contexto
    BY <1>4, Valores DEF Envelhecer, TypeOK
  <2>2. atendente' \in [Atendentes -> Atendente]
    BY <1>4, Valores DEF Envelhecer, TypeOK, Atendente
  <2> QED
    BY <1>4, <2>1, <2>2 DEF Envelhecer, TypeOK
<1>5. CASE UNCHANGED vars
  BY <1>5 DEF vars, TypeOK
<1> QED
  BY <1>1, <1>2, <1>3, <1>4, <1>5 DEF Next

(* Rows, files, handlers and the actor keep their types: TypeOK. *)
THEOREM TypeCorrect == Spec => []TypeOK
  BY TipoInicial, TipoNext, PTL DEF Spec
---------------------------------------------------------------------------
(* What the types say of the names of files. *)
LEMMA Nomes ==
  ASSUME TypeOK
  PROVE  /\ contexto.uri \in Nat /\ fila.uri \in Nat /\ fila.antigo \in Nat
         /\ subidos \in Nat /\ faltas \in Nat
         /\ \A a \in Atendentes : atendente[a].lido.uri \in Nat
  BY ContextoVideoAssumption
     DEF TypeOK, Contexto, Fila, Atendente, Talvez, Nenhum, Videos

(* What a handler's step does to the records of all handlers. *)
LEMMA UmAtendente ==
  ASSUME atendente \in [Atendentes -> Atendente], NEW a \in Atendentes
  PROVE  /\ \A b \in Atendentes \ {a} :
              /\ Larga(a) => atendente'[b] = atendente[b]
              /\ \A pc : Segue(a, pc) => atendente'[b] = atendente[b]
              /\ \A r : atendente' = [atendente EXCEPT ![a] = r] => atendente'[b] = atendente[b]
         /\ Larga(a) => atendente'[a] = Livre
         /\ \A pc : Segue(a, pc) => /\ atendente'[a].lido = atendente[a].lido
                                   /\ atendente'[a].pc = pc
         /\ \A r : atendente' = [atendente EXCEPT ![a] = r] => atendente'[a] = r
  BY DEF Larga, Segue, Atendente

(* Growing older changes no file and no step. *)
LEMMA Velhice ==
  ASSUME TypeOK, Envelhecer
  PROVE  /\ contexto'.uri = contexto.uri
         /\ \A a \in Atendentes : /\ atendente'[a].lido.uri = atendente[a].lido.uri
                                 /\ atendente'[a].pc = atendente[a].pc
<1>1. \A c \in Contexto : MaisVelho(c).uri = c.uri
  BY DEF MaisVelho, Contexto
<1> QED
  BY <1>1 DEF TypeOK, Envelhecer, Atendente

(* Novidade is kept. *)
LEMMA NovidadeNext == TypeOK /\ Novidade /\ [Next]_vars => Novidade'
<1> SUFFICES ASSUME TypeOK, Novidade, [Next]_vars  PROVE Novidade'
  OBVIOUS
<1>0. fila \in Fila /\ atendente \in [Atendentes -> Atendente] /\ contexto \in Contexto
  BY DEF TypeOK
<1>1. CASE SubirVideo
  BY <1>1, Nomes DEF SubirVideo, Novidade, Nenhum
<1>2. CASE PassoFila
  <2>1. CASE DescreverVideo
    BY <1>0, <2>1, Nomes DEF DescreverVideo, Novidade, FilaSegue, Tentar, Fila, Ociosa, SemContexto, Nenhum
  <2>2. CASE DesfazerUpload
    BY <1>0, <2>2, Nomes DEF DesfazerUpload, Novidade, FilaSegue, Tentar, Fila, Ociosa, SemContexto, Nenhum
  <2>3. CASE LembrarSelecionar
    BY <1>0, <2>3, Nomes DEF LembrarSelecionar, Novidade, FilaSegue, Tentar, Fila, Ociosa, SemContexto, Nenhum
  <2>4. CASE LembrarExcluir
    BY <1>0, <2>4, Nomes DEF LembrarExcluir, Novidade, FilaSegue, Tentar, Fila, Ociosa, SemContexto, Nenhum
  <2>5. CASE LembrarApagar
    BY <1>0, <2>5, Nomes DEF LembrarApagar, Novidade, FilaSegue, Tentar, Fila, Ociosa, SemContexto, Nenhum
  <2>6. CASE LembrarSalvar
    BY <1>0, <2>6, Nomes DEF LembrarSalvar, Novidade, FilaSegue, Tentar, Fila, Ociosa, SemContexto, Nenhum
  <2> QED
    BY <1>2, <2>1, <2>2, <2>3, <2>4, <2>5, <2>6 DEF PassoFila
<1>3. ASSUME NEW a \in Atendentes,
             ObterContexto(a) \/ LimparHistorico(a) \/ PassoAtendente(a) \/ Matar(a)
      PROVE  Novidade'
  <2>1. CASE ObterContexto(a)
    BY <1>0, <2>1, Nomes, UmAtendente
       DEF ObterContexto, Novidade, Tentar, Livre, SemContexto, Nenhum, Contexto
  <2>2. CASE LimparHistorico(a)
    BY <1>0, <2>2, Nomes, UmAtendente
       DEF LimparHistorico, Novidade, Tentar, Livre, SemContexto, Nenhum, Contexto
  <2>3. CASE Decidir(a)
    BY <1>0, <2>3, Nomes, UmAtendente
       DEF Decidir, Novidade, Tentar, Livre, SemContexto, Nenhum, Contexto
  <2>4. CASE Perguntar(a)
    BY <1>0, <2>4, Nomes, UmAtendente
       DEF Perguntar, Novidade, Tentar, Livre, SemContexto, Nenhum, Contexto
  <2>5. CASE Decrementar(a)
    BY <1>0, <2>5, Nomes, UmAtendente
       DEF Decrementar, Novidade, Tentar, Livre, SemContexto, Nenhum, Contexto
  <2>6. CASE Contar(a)
    BY <1>0, <2>6, Nomes, UmAtendente
       DEF Contar, Novidade, Tentar, Livre, SemContexto, Nenhum, Contexto
  <2>7. CASE EncerrarSelecionar(a)
    BY <1>0, <2>7, Nomes, UmAtendente
       DEF EncerrarSelecionar, Novidade, Tentar, Livre, SemContexto, Nenhum, Contexto
  <2>8. CASE LimparSelecionar(a)
    BY <1>0, <2>8, Nomes, UmAtendente
       DEF LimparSelecionar, Novidade, Tentar, Livre, SemContexto, Nenhum, Contexto
  <2>9. CASE Excluir(a)
    BY <1>0, <2>9, Nomes, UmAtendente
       DEF Excluir, Novidade, Tentar, Livre, SemContexto, Nenhum, Contexto
  <2>10. CASE Apagar(a)
    BY <1>0, <2>10, Nomes, UmAtendente
       DEF Apagar, Novidade, Tentar, Livre, SemContexto, Nenhum, Contexto
  <2>11. CASE Matar(a)
    BY <1>0, <2>11, Nomes, UmAtendente
       DEF Matar, Novidade, Tentar, Livre, SemContexto, Nenhum, Contexto
  <2> QED
    BY <1>3, <2>1, <2>2, <2>3, <2>4, <2>5, <2>6, <2>7, <2>8, <2>9, <2>10, <2>11
       DEF PassoAtendente
<1>4. CASE Reiniciar
  BY <1>4, Nomes DEF Reiniciar, Novidade, Ociosa, Livre, SemContexto, Nenhum
<1>5. CASE Envelhecer
  BY <1>5, Nomes, Velhice DEF Envelhecer, Novidade
<1>6. CASE UNCHANGED vars
  BY <1>6 DEF vars, Novidade
<1> QED
  BY <1>1, <1>2, <1>3, <1>4, <1>5, <1>6 DEF Next
(* Substituicao is kept. *)
LEMMA SubstituicaoNext == TypeOK /\ Novidade /\ Substituicao /\ [Next]_vars => Substituicao'
<1> SUFFICES ASSUME TypeOK, Novidade, Substituicao, [Next]_vars  PROVE Substituicao'
  OBVIOUS
<1>0. /\ fila \in Fila /\ atendente \in [Atendentes -> Atendente] /\ contexto \in Contexto
      /\ faltas \in Nat
  BY Nomes DEF TypeOK
<1>1. CASE SubirVideo
  BY <1>1, Nomes DEF SubirVideo, Substituicao, Novidade, Ha, Nenhum
<1>2. CASE PassoFila
  <2>1. CASE DescreverVideo
    BY <1>0, <2>1, Nomes
       DEF DescreverVideo, FilaSegue, Tentar, Falta, Fila, Ociosa, SemContexto, Substituicao, Novidade, Ha, Nenhum
  <2>2. CASE DesfazerUpload
    BY <1>0, <2>2, Nomes
       DEF DesfazerUpload, FilaSegue, Tentar, Falta, Fila, Ociosa, SemContexto, Substituicao, Novidade, Ha, Nenhum
  <2>3. CASE LembrarSelecionar
    <3>1. /\ UNCHANGED <<contexto, arquivos, atendente, tomados>>
          /\ fila'.uri = fila.uri /\ fila.pc = "remover"
          /\ \/ fila'.pc = "excluir" /\ fila'.antigo = contexto.uri /\ faltas' = faltas
             \/ fila'.pc = "salvar" /\ faltas' > 0
      <4>1. CASE fila' = [fila EXCEPT !.pc = "excluir", !.antigo = contexto.uri]
                 /\ UNCHANGED faltas
        BY <1>0, <2>3, <4>1 DEF LembrarSelecionar, Fila
      <4>2. CASE Falta /\ FilaSegue("salvar")
        BY <1>0, <2>3, <4>2 DEF LembrarSelecionar, FilaSegue, Falta, Fila
      <4> QED
        BY <2>3, <4>1, <4>2 DEF LembrarSelecionar
    <3> QED
      BY <1>0, <3>1, Nomes DEF Substituicao, Novidade, Ha, Nenhum
  <2>4. CASE LembrarExcluir
    BY <1>0, <2>4, Nomes
       DEF LembrarExcluir, FilaSegue, Tentar, Falta, Fila, Ociosa, SemContexto, Substituicao, Novidade, Ha, Nenhum
  <2>5. CASE LembrarApagar
    BY <1>0, <2>5, Nomes
       DEF LembrarApagar, FilaSegue, Tentar, Falta, Fila, Ociosa, SemContexto, Substituicao, Novidade, Ha, Nenhum
  <2>6. CASE LembrarSalvar
    BY <1>0, <2>6, Nomes
       DEF LembrarSalvar, FilaSegue, Tentar, Falta, Fila, Ociosa, SemContexto, Substituicao, Novidade, Ha, Nenhum
  <2> QED
    BY <1>2, <2>1, <2>2, <2>3, <2>4, <2>5, <2>6 DEF PassoFila
<1>3. ASSUME NEW a \in Atendentes,
             ObterContexto(a) \/ LimparHistorico(a) \/ PassoAtendente(a) \/ Matar(a)
      PROVE  Substituicao'
  <2>1. CASE ObterContexto(a)
    BY <1>0, <2>1, Nomes, UmAtendente
       DEF ObterContexto, Tentar, Falta, Livre, SemContexto, Contexto, Substituicao, Novidade, Ha, Nenhum
  <2>2. CASE LimparHistorico(a)
    BY <1>0, <2>2, Nomes, UmAtendente
       DEF LimparHistorico, Tentar, Falta, Livre, SemContexto, Contexto, Substituicao, Novidade, Ha, Nenhum
  <2>3. CASE Decidir(a)
    BY <1>0, <2>3, Nomes, UmAtendente
       DEF Decidir, Tentar, Falta, Livre, SemContexto, Contexto, Substituicao, Novidade, Ha, Nenhum
  <2>4. CASE Perguntar(a)
    BY <1>0, <2>4, Nomes, UmAtendente
       DEF Perguntar, Tentar, Falta, Livre, SemContexto, Contexto, Substituicao, Novidade, Ha, Nenhum
  <2>5. CASE Decrementar(a)
    BY <1>0, <2>5, Nomes, UmAtendente
       DEF Decrementar, Tentar, Falta, Livre, SemContexto, Contexto, Substituicao, Novidade, Ha, Nenhum
  <2>6. CASE Contar(a)
    BY <1>0, <2>6, Nomes, UmAtendente
       DEF Contar, Tentar, Falta, Livre, SemContexto, Contexto, Substituicao, Novidade, Ha, Nenhum
  <2>7. CASE EncerrarSelecionar(a)
    BY <1>0, <2>7, Nomes, UmAtendente
       DEF EncerrarSelecionar, Tentar, Falta, Livre, SemContexto, Contexto, Substituicao, Novidade, Ha, Nenhum
  <2>8. CASE LimparSelecionar(a)
    BY <1>0, <2>8, Nomes, UmAtendente
       DEF LimparSelecionar, Tentar, Falta, Livre, SemContexto, Contexto, Substituicao, Novidade, Ha, Nenhum
  <2>9. CASE Excluir(a)
    BY <1>0, <2>9, Nomes, UmAtendente
       DEF Excluir, Tentar, Falta, Livre, SemContexto, Contexto, Substituicao, Novidade, Ha, Nenhum
  <2>10. CASE Apagar(a)
    BY <1>0, <2>10, Nomes, UmAtendente
       DEF Apagar, Tentar, Falta, Livre, SemContexto, Contexto, Substituicao, Novidade, Ha, Nenhum
  <2>11. CASE Matar(a)
    BY <1>0, <2>11, Nomes, UmAtendente
       DEF Matar, Tentar, Falta, Livre, SemContexto, Contexto, Substituicao, Novidade, Ha, Nenhum
  <2> QED
    BY <1>3, <2>1, <2>2, <2>3, <2>4, <2>5, <2>6, <2>7, <2>8, <2>9, <2>10, <2>11
       DEF PassoAtendente
<1>4. CASE Reiniciar
  BY <1>0, <1>4, Nomes DEF Reiniciar, Falta, Ociosa, Livre, SemContexto, Substituicao, Novidade, Ha, Nenhum
<1>5. CASE Envelhecer
  BY <1>5, Nomes, Velhice DEF Envelhecer, Substituicao, Novidade, Ha, Nenhum
<1>6. CASE UNCHANGED vars
  BY <1>6 DEF vars, Substituicao, Novidade, Ha, Nenhum
<1> QED
  BY <1>1, <1>2, <1>3, <1>4, <1>5, <1>6 DEF Next

(* Nobody deletes the file of the row. *)
LEMMA ContextoTemArquivoNext == TypeOK /\ Novidade /\ Substituicao /\ ContextoTemArquivo /\ [Next]_vars => ContextoTemArquivo'
<1> SUFFICES ASSUME TypeOK, Novidade, Substituicao, ContextoTemArquivo, [Next]_vars  PROVE ContextoTemArquivo'
  OBVIOUS
<1>0. /\ fila \in Fila /\ atendente \in [Atendentes -> Atendente] /\ contexto \in Contexto
      /\ faltas \in Nat
  BY Nomes DEF TypeOK
<1>1. CASE SubirVideo
  BY <1>1, Nomes DEF SubirVideo, ContextoTemArquivo, Substituicao, Novidade, Ha, Nenhum
<1>2. CASE PassoFila
  <2>1. CASE DescreverVideo
    BY <1>0, <2>1, Nomes
       DEF DescreverVideo, FilaSegue, Tentar, Falta, Fila, Ociosa, SemContexto, ContextoTemArquivo, Substituicao, Novidade, Ha, Nenhum
  <2>2. CASE DesfazerUpload
    BY <1>0, <2>2, Nomes
       DEF DesfazerUpload, FilaSegue, Tentar, Falta, Fila, Ociosa, SemContexto, ContextoTemArquivo, Substituicao, Novidade, Ha, Nenhum
  <2>3. CASE LembrarSelecionar
    BY <1>0, <2>3, Nomes
       DEF LembrarSelecionar, FilaSegue, Tentar, Falta, Fila, Ociosa, SemContexto, ContextoTemArquivo, Substituicao, Novidade, Ha, Nenhum
  <2>4. CASE LembrarExcluir
    BY <1>0, <2>4, Nomes
       DEF LembrarExcluir, FilaSegue, Tentar, Falta, Fila, Ociosa, SemContexto, ContextoTemArquivo, Substituicao, Novidade, Ha, Nenhum
  <2>5. CASE LembrarApagar
    BY <1>0, <2>5, Nomes
       DEF LembrarApagar, FilaSegue, Tentar, Falta, Fila, Ociosa, SemContexto, ContextoTemArquivo, Substituicao, Novidade, Ha, Nenhum
  <2>6. CASE LembrarSalvar
    BY <1>0, <2>6, Nomes
       DEF LembrarSalvar, FilaSegue, Tentar, Falta, Fila, Ociosa, SemContexto, ContextoTemArquivo, Substituicao, Novidade, Ha, Nenhum
  <2> QED
    BY <1>2, <2>1, <2>2, <2>3, <2>4, <2>5, <2>6 DEF PassoFila
<1>3. ASSUME NEW a \in Atendentes,
             ObterContexto(a) \/ LimparHistorico(a) \/ PassoAtendente(a) \/ Matar(a)
      PROVE  ContextoTemArquivo'
  <2>1. CASE ObterContexto(a)
    BY <1>0, <2>1, Nomes, UmAtendente
       DEF ObterContexto, Tentar, Falta, Livre, SemContexto, Contexto, ContextoTemArquivo, Substituicao, Novidade, Ha, Nenhum
  <2>2. CASE LimparHistorico(a)
    BY <1>0, <2>2, Nomes, UmAtendente
       DEF LimparHistorico, Tentar, Falta, Livre, SemContexto, Contexto, ContextoTemArquivo, Substituicao, Novidade, Ha, Nenhum
  <2>3. CASE Decidir(a)
    BY <1>0, <2>3, Nomes, UmAtendente
       DEF Decidir, Tentar, Falta, Livre, SemContexto, Contexto, ContextoTemArquivo, Substituicao, Novidade, Ha, Nenhum
  <2>4. CASE Perguntar(a)
    BY <1>0, <2>4, Nomes, UmAtendente
       DEF Perguntar, Tentar, Falta, Livre, SemContexto, Contexto, ContextoTemArquivo, Substituicao, Novidade, Ha, Nenhum
  <2>5. CASE Decrementar(a)
    BY <1>0, <2>5, Nomes, UmAtendente
       DEF Decrementar, Tentar, Falta, Livre, SemContexto, Contexto, ContextoTemArquivo, Substituicao, Novidade, Ha, Nenhum
  <2>6. CASE Contar(a)
    BY <1>0, <2>6, Nomes, UmAtendente
       DEF Contar, Tentar, Falta, Livre, SemContexto, Contexto, ContextoTemArquivo, Substituicao, Novidade, Ha, Nenhum
  <2>7. CASE EncerrarSelecionar(a)
    BY <1>0, <2>7, Nomes, UmAtendente
       DEF EncerrarSelecionar, Tentar, Falta, Livre, SemContexto, Contexto, ContextoTemArquivo, Substituicao, Novidade, Ha, Nenhum
  <2>8. CASE LimparSelecionar(a)
    BY <1>0, <2>8, Nomes, UmAtendente
       DEF LimparSelecionar, Tentar, Falta, Livre, SemContexto, Contexto, ContextoTemArquivo, Substituicao, Novidade, Ha, Nenhum
  <2>9. CASE Excluir(a)
    BY <1>0, <2>9, Nomes, UmAtendente
       DEF Excluir, Tentar, Falta, Livre, SemContexto, Contexto, ContextoTemArquivo, Substituicao, Novidade, Ha, Nenhum
  <2>10. CASE Apagar(a)
    BY <1>0, <2>10, Nomes, UmAtendente
       DEF Apagar, Tentar, Falta, Livre, SemContexto, Contexto, ContextoTemArquivo, Substituicao, Novidade, Ha, Nenhum
  <2>11. CASE Matar(a)
    BY <1>0, <2>11, Nomes, UmAtendente
       DEF Matar, Tentar, Falta, Livre, SemContexto, Contexto, ContextoTemArquivo, Substituicao, Novidade, Ha, Nenhum
  <2> QED
    BY <1>3, <2>1, <2>2, <2>3, <2>4, <2>5, <2>6, <2>7, <2>8, <2>9, <2>10, <2>11
       DEF PassoAtendente
<1>4. CASE Reiniciar
  BY <1>0, <1>4, Nomes DEF Reiniciar, Falta, Ociosa, Livre, SemContexto, ContextoTemArquivo, Substituicao, Novidade, Ha, Nenhum
<1>5. CASE Envelhecer
  BY <1>5, Nomes, Velhice DEF Envelhecer, ContextoTemArquivo, Substituicao, Novidade, Ha, Nenhum
<1>6. CASE UNCHANGED vars
  BY <1>6 DEF vars, ContextoTemArquivo, Substituicao, Novidade, Ha, Nenhum
<1> QED
  BY <1>1, <1>2, <1>3, <1>4, <1>5, <1>6 DEF Next

(* No file is left over without a cause. *)
LEMMA SobraTemCausaNext == TypeOK /\ Novidade /\ Substituicao /\ SobraTemCausa /\ [Next]_vars => SobraTemCausa'
<1> SUFFICES ASSUME TypeOK, Novidade, Substituicao, SobraTemCausa, [Next]_vars  PROVE SobraTemCausa'
  OBVIOUS
<1>0. /\ fila \in Fila /\ atendente \in [Atendentes -> Atendente] /\ contexto \in Contexto
      /\ faltas \in Nat
  BY Nomes DEF TypeOK
<1>1. CASE SubirVideo
  <2>1. \A v \in arquivos : v # fila.uri /\ (EmMaos(v) => EmMaos(v)')
    BY <1>1 DEF SubirVideo, EmMaos, Novidade, TypeOK, Videos, Nenhum
  <2>2. \A v \in arquivos' \ arquivos : EmMaos(v)'
    BY <1>1 DEF SubirVideo, EmMaos
  <2> QED
    BY <1>1, <2>1, <2>2 DEF SubirVideo, SobraTemCausa
<1>2. CASE PassoFila
  <2>1. CASE DescreverVideo
    BY <1>0, <2>1, Nomes
       DEF DescreverVideo, FilaSegue, Tentar, Falta, Fila, Ociosa, SemContexto, SobraTemCausa, EmMaos, Substituicao, Novidade, Ha, Nenhum
  <2>2. CASE DesfazerUpload
    BY <1>0, <2>2, Nomes
       DEF DesfazerUpload, FilaSegue, Tentar, Falta, Fila, Ociosa, SemContexto, SobraTemCausa, EmMaos, Substituicao, Novidade, Ha, Nenhum
  <2>3. CASE LembrarSelecionar
    <3>1. /\ UNCHANGED <<contexto, arquivos, atendente, tomados>>
          /\ fila'.uri = fila.uri /\ fila.pc = "remover"
          /\ \/ fila'.pc = "excluir" /\ fila'.antigo = contexto.uri /\ faltas' = faltas
             \/ fila'.pc = "salvar" /\ faltas' > 0
      <4>1. CASE fila' = [fila EXCEPT !.pc = "excluir", !.antigo = contexto.uri]
                 /\ UNCHANGED faltas
        BY <1>0, <2>3, <4>1 DEF LembrarSelecionar, Fila
      <4>2. CASE Falta /\ FilaSegue("salvar")
        BY <1>0, <2>3, <4>2 DEF LembrarSelecionar, FilaSegue, Falta, Fila
      <4> QED
        BY <2>3, <4>1, <4>2 DEF LembrarSelecionar
    <3> QED
      BY <1>0, <3>1, Nomes DEF SobraTemCausa, EmMaos, Substituicao, Ha, Nenhum
  <2>4. CASE LembrarExcluir
    BY <1>0, <2>4, Nomes
       DEF LembrarExcluir, FilaSegue, Tentar, Falta, Fila, Ociosa, SemContexto, SobraTemCausa, EmMaos, Substituicao, Novidade, Ha, Nenhum
  <2>5. CASE LembrarApagar
    BY <1>0, <2>5, Nomes
       DEF LembrarApagar, FilaSegue, Tentar, Falta, Fila, Ociosa, SemContexto, SobraTemCausa, EmMaos, Substituicao, Novidade, Ha, Nenhum
  <2>6. CASE LembrarSalvar
    BY <1>0, <2>6, Nomes
       DEF LembrarSalvar, FilaSegue, Tentar, Falta, Fila, Ociosa, SemContexto, SobraTemCausa, EmMaos, Substituicao, Novidade, Ha, Nenhum
  <2> QED
    BY <1>2, <2>1, <2>2, <2>3, <2>4, <2>5, <2>6 DEF PassoFila
<1>3. ASSUME NEW a \in Atendentes,
             ObterContexto(a) \/ LimparHistorico(a) \/ PassoAtendente(a) \/ Matar(a)
      PROVE  SobraTemCausa'
  <2>1. CASE ObterContexto(a)
    BY <1>0, <2>1, Nomes, UmAtendente
       DEF ObterContexto, Tentar, Falta, Livre, SemContexto, Contexto, SobraTemCausa, EmMaos, Substituicao, Novidade, Ha, Nenhum
  <2>2. CASE LimparHistorico(a)
    BY <1>0, <2>2, Nomes, UmAtendente
       DEF LimparHistorico, Tentar, Falta, Livre, SemContexto, Contexto, SobraTemCausa, EmMaos, Substituicao, Novidade, Ha, Nenhum
  <2>3. CASE Decidir(a)
    BY <1>0, <2>3, Nomes, UmAtendente
       DEF Decidir, Tentar, Falta, Livre, SemContexto, Contexto, SobraTemCausa, EmMaos, Substituicao, Novidade, Ha, Nenhum
  <2>4. CASE Perguntar(a)
    BY <1>0, <2>4, Nomes, UmAtendente
       DEF Perguntar, Tentar, Falta, Livre, SemContexto, Contexto, SobraTemCausa, EmMaos, Substituicao, Novidade, Ha, Nenhum
  <2>5. CASE Decrementar(a)
    BY <1>0, <2>5, Nomes, UmAtendente
       DEF Decrementar, Tentar, Falta, Livre, SemContexto, Contexto, SobraTemCausa, EmMaos, Substituicao, Novidade, Ha, Nenhum
  <2>6. CASE Contar(a)
    BY <1>0, <2>6, Nomes, UmAtendente
       DEF Contar, Tentar, Falta, Livre, SemContexto, Contexto, SobraTemCausa, EmMaos, Substituicao, Novidade, Ha, Nenhum
  <2>7. CASE EncerrarSelecionar(a)
    BY <1>0, <2>7, Nomes, UmAtendente
       DEF EncerrarSelecionar, Tentar, Falta, Livre, SemContexto, Contexto, SobraTemCausa, EmMaos, Substituicao, Novidade, Ha, Nenhum
  <2>8. CASE LimparSelecionar(a)
    BY <1>0, <2>8, Nomes, UmAtendente
       DEF LimparSelecionar, Tentar, Falta, Livre, SemContexto, Contexto, SobraTemCausa, EmMaos, Substituicao, Novidade, Ha, Nenhum
  <2>9. CASE Excluir(a)
    BY <1>0, <2>9, Nomes, UmAtendente
       DEF Excluir, Tentar, Falta, Livre, SemContexto, Contexto, SobraTemCausa, EmMaos, Substituicao, Novidade, Ha, Nenhum
  <2>10. CASE Apagar(a)
    BY <1>0, <2>10, Nomes, UmAtendente
       DEF Apagar, Tentar, Falta, Livre, SemContexto, Contexto, SobraTemCausa, EmMaos, Substituicao, Novidade, Ha, Nenhum
  <2>11. CASE Matar(a)
    BY <1>0, <2>11, Nomes, UmAtendente
       DEF Matar, Tentar, Falta, Livre, SemContexto, Contexto, SobraTemCausa, EmMaos, Substituicao, Novidade, Ha, Nenhum
  <2> QED
    BY <1>3, <2>1, <2>2, <2>3, <2>4, <2>5, <2>6, <2>7, <2>8, <2>9, <2>10, <2>11
       DEF PassoAtendente
<1>4. CASE Reiniciar
  BY <1>0, <1>4, Nomes DEF Reiniciar, Falta, Ociosa, Livre, SemContexto, SobraTemCausa, EmMaos, Substituicao, Novidade, Ha, Nenhum
<1>5. CASE Envelhecer
  BY <1>5, Nomes, Velhice DEF Envelhecer, SobraTemCausa, EmMaos, Substituicao, Novidade, Ha, Nenhum
<1>6. CASE UNCHANGED vars
  BY <1>6 DEF vars, SobraTemCausa, EmMaos, Substituicao, Novidade, Ha, Nenhum
<1> QED
  BY <1>1, <1>2, <1>3, <1>4, <1>5, <1>6 DEF Next

(* The initial state satisfies the inductive invariant. *)
LEMMA IInvInicial == Init => IInv
<1> SUFFICES ASSUME Init  PROVE IInv
  OBVIOUS
<1>1. TypeOK
  BY TipoInicial
<1>2. Novidade /\ Substituicao /\ ContextoTemArquivo /\ SobraTemCausa
  BY DEF Init, Novidade, Substituicao, ContextoTemArquivo, SobraTemCausa, SemContexto,
         Ociosa, Livre, Ha, Nenhum
<1> QED
  BY <1>1, <1>2 DEF IInv

(* The inductive invariant that the next two theorems follow from. *)
THEOREM InvCorrect == Spec => []IInv
<1>1. IInv /\ [Next]_vars => IInv'
  BY TipoNext, NovidadeNext, SubstituicaoNext, ContextoTemArquivoNext, SobraTemCausaNext
     DEF IInv
<1> QED
  BY <1>1, IInvInicial, PTL DEF Spec

(* As long as nothing failed, the row of a chat names a file that exists:  *)
(* ContextoTemArquivo, for any number of handlers and videos.              *)
THEOREM ArquivoCorrect == Spec => []ContextoTemArquivo
<1>1. IInv => ContextoTemArquivo
  BY DEF IInv
<1> QED
  BY <1>1, InvCorrect, PTL

(* A file is left over only when a handler deleted the row of another      *)
(* video, or something failed: SobraTemCausa.                              *)
THEOREM SobraCorrect == Spec => []SobraTemCausa
<1>1. IInv => SobraTemCausa
  BY DEF IInv
<1> QED
  BY <1>1, InvCorrect, PTL
---------------------------------------------------------------------------
(* The answers about a video.  A handler owes the row a charge from its    *)
(* answer to its UPDATE, and may still answer from its SELECT on.          *)
Devendo(v) ==
  {a \in Atendentes : atendente[a].pc = "decrementar" /\ atendente[a].lido.uri = v}

Respondendo(v) ==
  {a \in Atendentes :
     /\ atendente[a].lido.uri = v
     /\ \/ atendente[a].pc = "perguntar"
        \/ atendente[a].pc = "decidir" /\ atendente[a].lido.restantes > 0}

Aberto(v) == contexto.uri = v /\ contexto.restantes > 0

(* What the faults may have cost: each, the charges of all handlers. *)
Perdido == Cardinality(Atendentes) * faltas

(* While the row of v is open, answers and questions left add up to the    *)
(* quota, but for charges owed or lost.  Once it is closed nobody else     *)
(* begins: the answers still to come are those of Respondendo(v).          *)
CotaDe(v) ==
  /\ respostas[v] > 0 => v <= subidos /\ v # fila.uri
  /\ Aberto(v) =>
       respostas[v] + contexto.restantes
         <= perguntas_followup_video + Cardinality(Devendo(v)) + Perdido
  /\ ~Aberto(v) =>
       respostas[v] + Cardinality(Respondendo(v)) + 1
         <= perguntas_followup_video + Cardinality(Atendentes) + Perdido

Cota == \A v \in Videos : CotaDe(v)

(* Two disjoint sets of handlers. *)
LEMMA DuasPartes ==
  ASSUME NEW D \in SUBSET Atendentes, NEW R \in SUBSET (Atendentes \ D)
  PROVE  /\ Cardinality(Atendentes) \in Nat
         /\ IsFiniteSet(D) /\ IsFiniteSet(R)
         /\ Cardinality(D) \in Nat /\ Cardinality(R) \in Nat
         /\ Cardinality(D) + Cardinality(R) <= Cardinality(Atendentes)
<1>1. IsFiniteSet(Atendentes) /\ Cardinality(Atendentes) \in Nat
  BY ContextoVideoAssumption, FS_CardinalityType
<1>2. IsFiniteSet(D) /\ Cardinality(D) \in Nat
  BY <1>1, FS_Subset, FS_CardinalityType
<1>3. /\ IsFiniteSet(Atendentes \ D)
      /\ Cardinality(Atendentes \ D) = Cardinality(Atendentes) - Cardinality(D)
  <2>1. Atendentes \cap D = D
    OBVIOUS
  <2> QED
    BY <1>1, <1>2, <2>1, FS_Difference
<1>4. /\ IsFiniteSet(R) /\ Cardinality(R) \in Nat
      /\ Cardinality(R) <= Cardinality(Atendentes \ D)
  BY <1>3, FS_Subset, FS_CardinalityType
<1> QED
  BY <1>1, <1>2, <1>3, <1>4

(* Nobody owes and answers at once, so the two sets share the handlers. *)
LEMMA Partes ==
  ASSUME NEW v
  PROVE  /\ Cardinality(Atendentes) \in Nat
         /\ IsFiniteSet(Devendo(v)) /\ IsFiniteSet(Respondendo(v))
         /\ Cardinality(Devendo(v)) \in Nat /\ Cardinality(Respondendo(v)) \in Nat
         /\ Cardinality(Devendo(v)) + Cardinality(Respondendo(v)) <= Cardinality(Atendentes)
<1>1. /\ Devendo(v) \in SUBSET Atendentes
      /\ Respondendo(v) \in SUBSET (Atendentes \ Devendo(v))
  BY DEF Devendo, Respondendo
<1> QED
  BY <1>1, DuasPartes

(* The same of the next state. *)
LEMMA PartesDepois ==
  ASSUME NEW v
  PROVE  /\ IsFiniteSet(Devendo(v)') /\ IsFiniteSet(Respondendo(v)')
         /\ Cardinality(Devendo(v)') \in Nat /\ Cardinality(Respondendo(v)') \in Nat
         /\ Cardinality(Devendo(v)') + Cardinality(Respondendo(v)') <= Cardinality(Atendentes)
<1>1. /\ Devendo(v)' \in SUBSET Atendentes
      /\ Respondendo(v)' \in SUBSET (Atendentes \ Devendo(v)')
  BY DEF Devendo, Respondendo
<1> QED
  BY <1>1, DuasPartes

(* A step without a fault loses nothing; a fault, at most a charge each. *)
LEMMA PerdidoCresce ==
  ASSUME faltas \in Nat
  PROVE  /\ Perdido \in Nat
         /\ UNCHANGED faltas => Perdido' = Perdido
         /\ Falta => Perdido' = Perdido + Cardinality(Atendentes)
<1> DEFINE n == Cardinality(Atendentes)
<1>1. n \in Nat
  BY ContextoVideoAssumption, FS_CardinalityType
<1>2. \A k \in Nat : n * k \in Nat /\ n * (k + 1) = n * k + n
  BY <1>1
<1> QED
  BY <1>1, <1>2 DEF Perdido, Falta

(* Two sets that differ in one element. *)
LEMMA TrocaUm ==
  ASSUME NEW S, NEW T, NEW x, IsFiniteSet(S), T \ {x} = S \ {x}
  PROVE  /\ x \in S /\ x \in T => Cardinality(T) = Cardinality(S)
         /\ x \notin S /\ x \notin T => Cardinality(T) = Cardinality(S)
         /\ x \in S /\ x \notin T => Cardinality(T) = Cardinality(S) - 1
         /\ x \notin S /\ x \in T => Cardinality(T) = Cardinality(S) + 1
<1>1. x \in S /\ x \in T => T = S
  OBVIOUS
<1>2. x \notin S /\ x \notin T => T = S
  OBVIOUS
<1>3. x \in S /\ x \notin T => T = S \ {x}
  OBVIOUS
<1>4. x \notin S /\ x \in T => T = S \cup {x}
  OBVIOUS
<1>5. x \in S => Cardinality(S \ {x}) = Cardinality(S) - 1
  BY FS_RemoveElement
<1>6. x \notin S => Cardinality(S \cup {x}) = Cardinality(S) + 1
  BY FS_AddElement
<1> QED
  BY <1>1, <1>2, <1>3, <1>4, <1>5, <1>6, Zenon

(* What a step of handler a alone does to the two sets of a video. *)
LEMMA UmMuda ==
  ASSUME NEW v, NEW a \in Atendentes,
         \A b \in Atendentes \ {a} : atendente'[b] = atendente[b]
  PROVE  /\ Cardinality(Devendo(v)') >= Cardinality(Devendo(v)) - 1
         /\ a \notin Devendo(v) \/ a \in Devendo(v)' =>
              Cardinality(Devendo(v)') >= Cardinality(Devendo(v))
         /\ a \in Devendo(v)' /\ a \notin Devendo(v) =>
              Cardinality(Devendo(v)') = Cardinality(Devendo(v)) + 1
         /\ a \notin Respondendo(v)' \/ a \in Respondendo(v) =>
              Cardinality(Respondendo(v)') <= Cardinality(Respondendo(v))
         /\ a \in Respondendo(v) /\ a \notin Respondendo(v)' =>
              Cardinality(Respondendo(v)') = Cardinality(Respondendo(v)) - 1
<1> DEFINE d == Cardinality(Devendo(v))
           e == Cardinality(Devendo(v)')
           r == Cardinality(Respondendo(v))
           q == Cardinality(Respondendo(v)')
<1>1. d \in Nat /\ e \in Nat /\ r \in Nat /\ q \in Nat
  BY Partes, PartesDepois
<1>2. Devendo(v)' \ {a} = Devendo(v) \ {a}
  BY DEF Devendo
<1>3. Respondendo(v)' \ {a} = Respondendo(v) \ {a}
  BY DEF Respondendo
<1>4. /\ a \in Devendo(v) /\ a \in Devendo(v)' => e = d
      /\ a \notin Devendo(v) /\ a \notin Devendo(v)' => e = d
      /\ a \in Devendo(v) /\ a \notin Devendo(v)' => e = d - 1
      /\ a \notin Devendo(v) /\ a \in Devendo(v)' => e = d + 1
  BY <1>2, Partes, TrocaUm
<1>5. /\ a \in Respondendo(v) /\ a \in Respondendo(v)' => q = r
      /\ a \notin Respondendo(v) /\ a \notin Respondendo(v)' => q = r
      /\ a \in Respondendo(v) /\ a \notin Respondendo(v)' => q = r - 1
  BY <1>3, Partes, TrocaUm
<1> HIDE DEF d, e, r, q
<1>6. /\ e >= d - 1
      /\ a \notin Devendo(v) \/ a \in Devendo(v)' => e >= d
      /\ a \in Devendo(v)' /\ a \notin Devendo(v) => e = d + 1
  BY <1>1, <1>4
<1>7. /\ a \notin Respondendo(v)' \/ a \in Respondendo(v) => q <= r
      /\ a \in Respondendo(v) /\ a \notin Respondendo(v)' => q = r - 1
  BY <1>1, <1>5
<1> QED
  BY <1>6, <1>7 DEF d, e, r, q

(* A handler's step that writes neither the row nor an answer keeps the    *)
(* quota, if it forgets a charge only by a fault and begins to answer only *)
(* while the row is open.                                                  *)
LEMMA Quieto ==
  ASSUME TypeOK, NEW v \in Videos, NEW a \in Atendentes, CotaDe(v),
         \A b \in Atendentes \ {a} : atendente'[b] = atendente[b],
         UNCHANGED <<contexto, fila, subidos, respostas>>,
         UNCHANGED faltas \/ Falta,
         a \in Devendo(v) => a \in Devendo(v)' \/ Falta,
         a \in Respondendo(v)' => Aberto(v) \/ a \in Respondendo(v)
  PROVE  CotaDe(v)'
<1> DEFINE n == Cardinality(Atendentes)
           d == Cardinality(Devendo(v))
           e == Cardinality(Devendo(v)')
           r == Cardinality(Respondendo(v))
           q == Cardinality(Respondendo(v)')
           k == Perdido
           l == Perdido'
           Q == perguntas_followup_video
           x == respostas[v]
           w == contexto.restantes
<1>1. /\ n \in Nat /\ d \in Nat /\ e \in Nat /\ r \in Nat /\ q \in Nat
      /\ d + r <= n /\ e + q <= n
  BY Partes, PartesDepois
<1>2. k \in Nat /\ (l = k \/ l = k + n)
  BY Nomes, PerdidoCresce
<1>3. Q \in Nat /\ x \in Nat /\ w \in Nat
  BY ContextoVideoAssumption DEF TypeOK, Contexto
<1>4. l = k => e >= d
  <2>1. CASE Falta
    BY <1>1, <1>2, <2>1, Nomes, PerdidoCresce
  <2>2. CASE a \notin Devendo(v) \/ a \in Devendo(v)'
    BY <2>2, UmMuda
  <2> QED
    BY <2>1, <2>2
<1>5. ~Aberto(v) => q <= r
  BY UmMuda
<1>6. /\ Aberto(v) => x + w <= Q + d + k
      /\ ~Aberto(v) => x + r + 1 <= Q + n + k
  BY DEF CotaDe
<1>7. (Aberto(v)' <=> Aberto(v)) /\ respostas'[v] = x /\ contexto'.restantes = w
  BY DEF Aberto
<1> HIDE DEF n, d, e, r, q, k, l, Q, x, w
<1>8. /\ Aberto(v) => x + w <= Q + e + l
      /\ ~Aberto(v) => x + q + 1 <= Q + n + l
  BY <1>1, <1>2, <1>3, <1>4, <1>5, <1>6
<1>9. respostas'[v] > 0 => v <= subidos' /\ v # fila'.uri
  BY DEF CotaDe
<1> QED
  BY <1>7, <1>8, <1>9 DEF CotaDe, n, d, e, r, q, k, l, Q, x, w

(* The steps of Quieto: all of a handler's but three. *)
LEMMA CotaQuieta ==
  ASSUME TypeOK, Novidade, NEW v \in Videos, NEW a \in Atendentes, CotaDe(v),
         \/ ObterContexto(a) \/ LimparHistorico(a) \/ Decidir(a) \/ Contar(a)
         \/ EncerrarSelecionar(a) \/ LimparSelecionar(a) \/ Apagar(a) \/ Matar(a)
  PROVE  CotaDe(v)'
<1>0. /\ atendente \in [Atendentes -> Atendente] /\ contexto \in Contexto
      /\ validade_contexto_video_s \in Nat
  BY ContextoVideoAssumption DEF TypeOK
<1>1. UNCHANGED <<contexto, fila, subidos, respostas>> /\ (UNCHANGED faltas \/ Falta)
  BY DEF ObterContexto, LimparHistorico, Decidir, Contar, EncerrarSelecionar,
         LimparSelecionar, Apagar, Matar, Tentar
<1>2. \A b \in Atendentes \ {a} : atendente'[b] = atendente[b]
  BY <1>0, UmAtendente
     DEF ObterContexto, LimparHistorico, Decidir, Contar, EncerrarSelecionar,
         LimparSelecionar, Apagar, Matar
<1>3. a \in Devendo(v) => a \in Devendo(v)' \/ Falta
  BY DEF Devendo, ObterContexto, LimparHistorico, Decidir, Contar, EncerrarSelecionar,
         LimparSelecionar, Apagar, Matar
<1>4. ASSUME a \in Respondendo(v)'  PROVE Aberto(v) \/ a \in Respondendo(v)
  <2>1. CASE ObterContexto(a)
    BY <1>0, <1>4, <2>1, UmAtendente DEF ObterContexto, Respondendo, Aberto, Livre, SemContexto, Contexto
  <2>2. CASE LimparHistorico(a)
    BY <1>0, <1>4, <2>2, UmAtendente DEF LimparHistorico, Respondendo, Aberto, Livre, SemContexto
  <2>3. CASE Decidir(a)
    BY <1>0, <1>4, <2>3, UmAtendente DEF Decidir, Respondendo, Aberto, Livre, SemContexto, Encerrado, Atendente, Contexto
  <2>4. CASE Contar(a)
    BY <1>0, <1>4, <2>4, UmAtendente DEF Contar, Respondendo, Aberto, Livre, SemContexto
  <2>5. CASE EncerrarSelecionar(a)
    BY <1>0, <1>4, <2>5, UmAtendente DEF EncerrarSelecionar, Respondendo, Aberto, Livre, SemContexto
  <2>6. CASE LimparSelecionar(a)
    BY <1>0, <1>4, <2>6, UmAtendente DEF LimparSelecionar, Respondendo, Aberto, Livre, SemContexto
  <2>7. CASE Apagar(a)
    BY <1>0, <1>4, <2>7, UmAtendente DEF Apagar, Respondendo, Aberto, Livre, SemContexto
  <2>8. CASE Matar(a)
    BY <1>0, <1>4, <2>8, UmAtendente DEF Matar, Respondendo, Aberto, Livre, SemContexto
  <2> QED
    BY <2>1, <2>2, <2>3, <2>4, <2>5, <2>6, <2>7, <2>8
<1> QED
  BY <1>1, <1>2, <1>3, <1>4, Quieto

(* An answer is owed to the row, or a fault lost its charge. *)
LEMMA CotaPerguntar ==
  ASSUME TypeOK, Novidade, NEW v \in Videos, NEW a \in Atendentes, CotaDe(v), Perguntar(a)
  PROVE  CotaDe(v)'
<1> DEFINE n == Cardinality(Atendentes)
           d == Cardinality(Devendo(v))
           e == Cardinality(Devendo(v)')
           r == Cardinality(Respondendo(v))
           q == Cardinality(Respondendo(v)')
           k == Perdido
           l == Perdido'
           Q == perguntas_followup_video
           x == respostas[v]
           y == respostas'[v]
           w == contexto.restantes
           z == contexto'.restantes
<1>1. /\ n \in Nat /\ d \in Nat /\ e \in Nat /\ r \in Nat /\ q \in Nat
      /\ d + r <= n /\ e + q <= n
  BY Partes, PartesDepois
<1>2. /\ k \in Nat
      /\ UNCHANGED faltas => l = k
      /\ Falta => l = k + n
  BY Nomes, PerdidoCresce
<1>3. Q \in Nat /\ x \in Nat /\ w \in Nat
  BY ContextoVideoAssumption DEF TypeOK, Contexto
<1>4. /\ Aberto(v) => x + w <= Q + d + k /\ w > 0
      /\ ~Aberto(v) => x + r + 1 <= Q + n + k
  BY DEF CotaDe, Aberto
<1>5. /\ atendente \in [Atendentes -> Atendente] /\ respostas \in [Videos -> Nat]
      /\ \A b \in Atendentes \ {a} : atendente'[b] = atendente[b]
      /\ a \notin Devendo(v) /\ a \notin Respondendo(v)'
  BY UmAtendente DEF TypeOK, Perguntar, Devendo, Respondendo, Livre
<1>6. /\ e >= d /\ q <= r
      /\ a \in Respondendo(v) => q = r - 1
      /\ a \in Devendo(v)' => e = d + 1
  BY <1>5, UmMuda
<1>7. /\ (Aberto(v)' <=> Aberto(v)) /\ z = w
      /\ UNCHANGED <<fila, subidos>> /\ (UNCHANGED faltas \/ Falta)
  BY DEF Perguntar, Aberto
<1>8. \/ y = x
      \/ /\ y = x + 1 /\ a \in Respondendo(v) /\ v <= subidos /\ v # fila.uri
         /\ a \in Devendo(v)' \/ Falta
  <2>1. CASE UNCHANGED respostas
    BY <2>1
  <2>2. CASE /\ respostas' = [respostas EXCEPT ![atendente[a].lido.uri] = @ + 1]
             /\ \/ Segue(a, "decrementar") /\ UNCHANGED faltas
                \/ Falta /\ Larga(a)
    <3>1. CASE atendente[a].lido.uri # v
      BY <1>5, <2>2, <3>1
    <3>2. CASE atendente[a].lido.uri = v
      <4>1. v <= subidos /\ v # fila.uri
        BY <3>2, Nomes DEF Novidade, Nenhum, Videos
      <4>2. y = x + 1 /\ a \in Respondendo(v)
        BY <1>5, <2>2, <3>2 DEF Perguntar, Respondendo
      <4>3. a \in Devendo(v)' \/ Falta
        BY <1>5, <2>2, <3>2, UmAtendente DEF Devendo
      <4> QED
        BY <4>1, <4>2, <4>3
    <3> QED
      BY <3>1, <3>2
  <2> QED
    BY <2>1, <2>2 DEF Perguntar
<1>9. y > 0 => v <= subidos' /\ v # fila'.uri
  BY <1>7, <1>8 DEF CotaDe
<1> HIDE DEF n, d, e, r, q, k, l, Q, x, y, w, z
<1>10. /\ Aberto(v)' => y + z <= Q + e + l
       /\ ~Aberto(v)' => y + q + 1 <= Q + n + l
  BY <1>1, <1>2, <1>3, <1>4, <1>6, <1>7, <1>8
<1> QED
  BY <1>9, <1>10 DEF CotaDe, n, d, e, r, q, k, l, Q, x, y, w, z

(* An UPDATE takes a question off the row there is, and a charge off the   *)
(* video it was for.                                                       *)
LEMMA CotaDecrementar ==
  ASSUME TypeOK, Novidade, NEW v \in Videos, NEW a \in Atendentes, CotaDe(v), Decrementar(a)
  PROVE  CotaDe(v)'
<1> DEFINE n == Cardinality(Atendentes)
           d == Cardinality(Devendo(v))
           e == Cardinality(Devendo(v)')
           r == Cardinality(Respondendo(v))
           q == Cardinality(Respondendo(v)')
           k == Perdido
           l == Perdido'
           Q == perguntas_followup_video
           x == respostas[v]
           y == respostas'[v]
           w == contexto.restantes
           z == contexto'.restantes
<1>1. /\ n \in Nat /\ d \in Nat /\ e \in Nat /\ r \in Nat /\ q \in Nat
      /\ d + r <= n /\ e + q <= n
  BY Partes, PartesDepois
<1>2. /\ k \in Nat
      /\ UNCHANGED faltas => l = k
      /\ Falta => l = k + n
  BY Nomes, PerdidoCresce
<1>3. Q \in Nat /\ x \in Nat /\ w \in Nat
  BY ContextoVideoAssumption DEF TypeOK, Contexto
<1>4. /\ Aberto(v) => x + w <= Q + d + k /\ w > 0
      /\ ~Aberto(v) => x + r + 1 <= Q + n + k
  BY DEF CotaDe, Aberto
<1>5. /\ atendente \in [Atendentes -> Atendente] /\ contexto \in Contexto
      /\ \A b \in Atendentes \ {a} : atendente'[b] = atendente[b]
      /\ a \notin Respondendo(v)'
  BY UmAtendente DEF TypeOK, Decrementar, Respondendo
<1>6. /\ q <= r /\ e >= d - 1
      /\ a \notin Devendo(v) => e >= d
  BY <1>5, UmMuda
<1>7. UNCHANGED <<fila, subidos, respostas>> /\ y = x /\ (UNCHANGED faltas \/ Falta)
  BY DEF Decrementar
<1>8. /\ contexto'.uri = contexto.uri
      /\ \/ Falta /\ z = w
         \/ w > 0 /\ z = w - 1
         \/ w = 0 /\ z = 0
  BY <1>3, <1>5 DEF Decrementar, Contexto
<1>9. /\ Aberto(v)' => Aberto(v) /\ z > 0
      /\ Aberto(v) /\ ~Aberto(v)' => z = 0 /\ w = 1
  <2>1. z > 0 => w > 0
    BY <1>3, <1>8
  <2>2. w > 0 /\ ~(z > 0) => z = 0 /\ w = 1
    BY <1>3, <1>8
  <2> QED
    BY <1>8, <2>1, <2>2 DEF Aberto
<1>10. y > 0 => v <= subidos' /\ v # fila'.uri
  BY <1>7 DEF CotaDe
<1> HIDE DEF n, d, e, r, q, k, l, Q, x, y, w, z
<1>11. /\ Aberto(v)' => y + z <= Q + e + l
       /\ ~Aberto(v)' => y + q + 1 <= Q + n + l
  BY <1>1, <1>2, <1>3, <1>4, <1>6, <1>7, <1>8, <1>9
<1> QED
  BY <1>10, <1>11 DEF CotaDe, n, d, e, r, q, k, l, Q, x, y, w, z

(* A step that takes the row away closes it. *)
LEMMA CotaExcluir ==
  ASSUME TypeOK, Novidade, NEW v \in Videos, NEW a \in Atendentes, CotaDe(v), Excluir(a)
  PROVE  CotaDe(v)'
<1> DEFINE n == Cardinality(Atendentes)
           d == Cardinality(Devendo(v))
           e == Cardinality(Devendo(v)')
           r == Cardinality(Respondendo(v))
           q == Cardinality(Respondendo(v)')
           k == Perdido
           l == Perdido'
           Q == perguntas_followup_video
           x == respostas[v]
           y == respostas'[v]
           w == contexto.restantes
           z == contexto'.restantes
<1>1. /\ n \in Nat /\ d \in Nat /\ e \in Nat /\ r \in Nat /\ q \in Nat
      /\ d + r <= n /\ e + q <= n
  BY Partes, PartesDepois
<1>2. /\ k \in Nat
      /\ UNCHANGED faltas => l = k
      /\ Falta => l = k + n
  BY Nomes, PerdidoCresce
<1>3. Q \in Nat /\ x \in Nat /\ w \in Nat
  BY ContextoVideoAssumption DEF TypeOK, Contexto
<1>4. /\ Aberto(v) => x + w <= Q + d + k /\ w > 0
      /\ ~Aberto(v) => x + r + 1 <= Q + n + k
  BY DEF CotaDe, Aberto
<1>5. /\ atendente \in [Atendentes -> Atendente]
      /\ \A b \in Atendentes \ {a} : atendente'[b] = atendente[b]
      /\ a \notin Respondendo(v)' /\ a \notin Devendo(v)
  BY UmAtendente DEF TypeOK, Excluir, Respondendo, Devendo
<1>6. q <= r /\ e >= d
  BY <1>5, UmMuda
<1>7. UNCHANGED <<fila, subidos, respostas>> /\ y = x /\ (UNCHANGED faltas \/ Falta)
  BY DEF Excluir, Tentar
<1>8. (z = w /\ (Aberto(v)' <=> Aberto(v))) \/ ~Aberto(v)'
  BY DEF Excluir, Tentar, SemContexto, Aberto
<1>9. y > 0 => v <= subidos' /\ v # fila'.uri
  BY <1>7 DEF CotaDe
<1> HIDE DEF n, d, e, r, q, k, l, Q, x, y, w, z
<1>10. /\ Aberto(v)' => y + z <= Q + e + l
       /\ ~Aberto(v)' => y + q + 1 <= Q + n + l
  BY <1>1, <1>2, <1>3, <1>4, <1>6, <1>7, <1>8
<1> QED
  BY <1>9, <1>10 DEF CotaDe, n, d, e, r, q, k, l, Q, x, y, w, z

(* The actor takes a row away or writes that of a video nobody asked about. *)
LEMMA CotaFila ==
  ASSUME TypeOK, Novidade, NEW v \in Videos, CotaDe(v), SubirVideo \/ PassoFila
  PROVE  CotaDe(v)'
<1> DEFINE n == Cardinality(Atendentes)
           d == Cardinality(Devendo(v))
           e == Cardinality(Devendo(v)')
           r == Cardinality(Respondendo(v))
           q == Cardinality(Respondendo(v)')
           k == Perdido
           l == Perdido'
           Q == perguntas_followup_video
           x == respostas[v]
           y == respostas'[v]
           w == contexto.restantes
           z == contexto'.restantes
<1>1. /\ n \in Nat /\ d \in Nat /\ e \in Nat /\ r \in Nat /\ q \in Nat
      /\ d + r <= n /\ e + q <= n
  BY Partes, PartesDepois
<1>2. /\ k \in Nat
      /\ UNCHANGED faltas => l = k
      /\ Falta => l = k + n
  BY Nomes, PerdidoCresce
<1>3. Q \in Nat /\ x \in Nat /\ w \in Nat
  BY ContextoVideoAssumption DEF TypeOK, Contexto
<1>4. /\ Aberto(v) => x + w <= Q + d + k /\ w > 0
      /\ ~Aberto(v) => x + r + 1 <= Q + n + k
  BY DEF CotaDe, Aberto
<1>5. UNCHANGED <<atendente, respostas>> /\ y = x /\ (UNCHANGED faltas \/ Falta)
  BY DEF SubirVideo, PassoFila, DescreverVideo, DesfazerUpload, LembrarSelecionar,
         LembrarExcluir, LembrarApagar, LembrarSalvar, Tentar
<1>6. Devendo(v)' = Devendo(v) /\ Respondendo(v)' = Respondendo(v)
  BY <1>5 DEF Devendo, Respondendo
<1>7. e = d /\ q = r
  BY <1>6
<1>8. \/ UNCHANGED contexto
      \/ contexto' = SemContexto
      \/ contexto' = [uri |-> fila.uri, restantes |-> Q, idade |-> 0]
  BY DEF SubirVideo, PassoFila, DescreverVideo, DesfazerUpload, LembrarSelecionar,
         LembrarExcluir, LembrarApagar, LembrarSalvar, Tentar
<1>9. \/ (Aberto(v)' <=> Aberto(v)) /\ z = w
      \/ ~Aberto(v)'
      \/ z = Q /\ x = 0 /\ Aberto(v)'
  <2>1. v = fila.uri => x = 0
    BY <1>3 DEF CotaDe
  <2>2. Q > 0
    BY ContextoVideoAssumption
  <2>3. CASE UNCHANGED contexto
    BY <2>3 DEF Aberto
  <2>4. CASE contexto' # contexto /\ v # contexto'.uri
    BY <2>4 DEF Aberto
  <2>5. CASE /\ contexto' = [uri |-> fila.uri, restantes |-> Q, idade |-> 0]
             /\ v = fila.uri
    BY <2>1, <2>2, <2>5 DEF Aberto
  <2> QED
    BY <1>8, <2>3, <2>4, <2>5 DEF SemContexto, Nenhum, Videos
<1>10. y > 0 => v <= subidos' /\ v # fila'.uri
  <2>1. v \in Nat /\ v # 0 /\ subidos \in Nat /\ fila \in Fila
    BY Nomes DEF Videos, TypeOK
  <2>2. fila'.uri \in {fila.uri, 0, subidos + 1} /\ subidos' >= subidos
    <3>1. CASE DescreverVideo
      BY <2>1, <3>1 DEF DescreverVideo, FilaSegue, Fila, Ociosa, Nenhum
    <3>2. CASE DesfazerUpload
      BY <2>1, <3>2 DEF DesfazerUpload, FilaSegue, Fila, Ociosa, Nenhum
    <3>3. CASE LembrarSelecionar
      <4>1. CASE fila' = [fila EXCEPT !.pc = "excluir", !.antigo = contexto.uri]
        BY <2>1, <3>3, <4>1 DEF LembrarSelecionar, Fila
      <4>2. CASE FilaSegue("salvar")
        BY <2>1, <3>3, <4>2 DEF LembrarSelecionar, FilaSegue, Fila
      <4> QED
        BY <3>3, <4>1, <4>2 DEF LembrarSelecionar
    <3>4. CASE LembrarExcluir
      BY <2>1, <3>4 DEF LembrarExcluir, FilaSegue, Fila, Ociosa, Nenhum
    <3>5. CASE LembrarApagar
      BY <2>1, <3>5 DEF LembrarApagar, FilaSegue, Fila, Ociosa, Nenhum
    <3>6. CASE LembrarSalvar
      BY <2>1, <3>6 DEF LembrarSalvar, FilaSegue, Fila, Ociosa, Nenhum
    <3>7. CASE SubirVideo
      BY <2>1, <3>7 DEF SubirVideo
    <3> QED
      BY <3>1, <3>2, <3>3, <3>4, <3>5, <3>6, <3>7 DEF PassoFila
  <2>3. subidos' \in Nat
    BY <2>1 DEF SubirVideo, PassoFila, DescreverVideo, DesfazerUpload, LembrarSelecionar,
                LembrarExcluir, LembrarApagar, LembrarSalvar
  <2> QED
    BY <1>5, <2>1, <2>2, <2>3 DEF CotaDe
<1> HIDE DEF n, d, e, r, q, k, l, Q, x, y, w, z
<1>11. /\ Aberto(v)' => y + z <= Q + e + l
       /\ ~Aberto(v)' => y + q + 1 <= Q + n + l
  BY <1>1, <1>2, <1>3, <1>4, <1>5, <1>7, <1>9
<1> QED
  BY <1>10, <1>11 DEF CotaDe, n, d, e, r, q, k, l, Q, x, y, w, z

(* A restart loses every charge owed; a tick, nothing. *)
LEMMA CotaResto ==
  ASSUME TypeOK, Novidade, NEW v \in Videos, CotaDe(v),
         Reiniciar \/ Envelhecer \/ UNCHANGED vars
  PROVE  CotaDe(v)'
<1> DEFINE n == Cardinality(Atendentes)
           d == Cardinality(Devendo(v))
           e == Cardinality(Devendo(v)')
           r == Cardinality(Respondendo(v))
           q == Cardinality(Respondendo(v)')
           k == Perdido
           l == Perdido'
           Q == perguntas_followup_video
           x == respostas[v]
           y == respostas'[v]
           w == contexto.restantes
           z == contexto'.restantes
<1>1. /\ n \in Nat /\ d \in Nat /\ e \in Nat /\ r \in Nat /\ q \in Nat
      /\ d + r <= n /\ e + q <= n
  BY Partes, PartesDepois
<1>2. /\ k \in Nat
      /\ UNCHANGED faltas => l = k
      /\ Falta => l = k + n
  BY Nomes, PerdidoCresce
<1>3. Q \in Nat /\ x \in Nat /\ w \in Nat
  BY ContextoVideoAssumption DEF TypeOK, Contexto
<1>4. /\ Aberto(v) => x + w <= Q + d + k /\ w > 0
      /\ ~Aberto(v) => x + r + 1 <= Q + n + k
  BY DEF CotaDe, Aberto
<1>5. /\ UNCHANGED <<respostas, subidos>> /\ y = x
      /\ fila'.uri \in {fila.uri, 0} /\ v # 0
  BY DEF Reiniciar, Envelhecer, vars, Ociosa, Nenhum, Videos
<1>6. (Aberto(v)' <=> Aberto(v)) /\ z = w
  <2>1. contexto \in Contexto
    BY DEF TypeOK
  <2>2. contexto'.uri = contexto.uri /\ z = w
    BY <2>1 DEF Reiniciar, Envelhecer, vars, MaisVelho, Contexto
  <2> QED
    BY <2>2 DEF Aberto
<1>7. (Falta /\ q = 0) \/ (UNCHANGED faltas /\ e = d /\ q = r)
  <2>1. CASE Reiniciar
    <3>1. Respondendo(v)' = {}
      BY <2>1 DEF Reiniciar, Respondendo, Livre
    <3>2. Cardinality({}) = 0
      BY FS_EmptySet
    <3>3. q = 0
      BY <3>1, <3>2
    <3> QED
      BY <2>1, <3>3 DEF Reiniciar
  <2>2. CASE Envelhecer
    <3>1. \A a \in Atendentes : /\ atendente'[a].lido.uri = atendente[a].lido.uri
                               /\ atendente'[a].lido.restantes = atendente[a].lido.restantes
                               /\ atendente'[a].pc = atendente[a].pc
      <4>1. \A c \in Contexto : /\ MaisVelho(c).uri = c.uri
                                /\ MaisVelho(c).restantes = c.restantes
        BY DEF MaisVelho, Contexto
      <4> QED
        BY <2>2, <4>1 DEF TypeOK, Envelhecer, Atendente
    <3>2. Devendo(v)' = Devendo(v) /\ Respondendo(v)' = Respondendo(v)
      BY <3>1 DEF Devendo, Respondendo
    <3> QED
      BY <2>2, <3>2 DEF Envelhecer
  <2>3. CASE UNCHANGED vars
    <3>1. Devendo(v)' = Devendo(v) /\ Respondendo(v)' = Respondendo(v)
      BY <2>3 DEF vars, Devendo, Respondendo
    <3> QED
      BY <2>3, <3>1 DEF vars
  <2> QED
    BY <2>1, <2>2, <2>3
<1>8. y > 0 => v <= subidos' /\ v # fila'.uri
  BY <1>5 DEF CotaDe
<1> HIDE DEF n, d, e, r, q, k, l, Q, x, y, w, z
<1>9. /\ Aberto(v)' => y + z <= Q + e + l
      /\ ~Aberto(v)' => y + q + 1 <= Q + n + l
  BY <1>1, <1>2, <1>3, <1>4, <1>5, <1>6, <1>7
<1> QED
  BY <1>8, <1>9 DEF CotaDe, n, d, e, r, q, k, l, Q, x, y, w, z

(* Every step keeps the quota of every video. *)
LEMMA CotaNext == TypeOK /\ Novidade /\ Cota /\ [Next]_vars => Cota'
<1> SUFFICES ASSUME TypeOK, Novidade, Cota, [Next]_vars, NEW v \in Videos  PROVE CotaDe(v)'
  BY DEF Cota
<1>1. CotaDe(v)
  BY DEF Cota
<1>2. CASE SubirVideo \/ PassoFila
  BY <1>1, <1>2, CotaFila
<1>3. ASSUME NEW a \in Atendentes,
             ObterContexto(a) \/ LimparHistorico(a) \/ PassoAtendente(a) \/ Matar(a)
      PROVE  CotaDe(v)'
  BY <1>1, <1>3, CotaQuieta, CotaPerguntar, CotaDecrementar, CotaExcluir DEF PassoAtendente
<1>4. CASE Reiniciar \/ Envelhecer \/ UNCHANGED vars
  BY <1>1, <1>4, CotaResto
<1> QED
  BY <1>2, <1>3, <1>4 DEF Next

(* Nothing is answered or owed at the start. *)
LEMMA CotaInicial == Init => Cota
<1> SUFFICES ASSUME Init, NEW v \in Videos  PROVE CotaDe(v)
  BY DEF Cota
<1>1. Respondendo(v) = {} /\ ~Aberto(v) /\ respostas[v] = 0 /\ faltas = 0
  BY DEF Init, Respondendo, Livre, Aberto, SemContexto
<1>2. Cardinality(Respondendo(v)) = 0 /\ Cardinality(Atendentes) \in Nat
  BY <1>1, Partes, FS_EmptySet
<1>3. Perdido = 0
  BY <1>1, <1>2 DEF Perdido
<1> QED
  BY <1>1, <1>2, <1>3, ContextoVideoAssumption DEF CotaDe

(* Handlers that read the same row answer more questions than the quota    *)
(* allows, but never more than one for each other handler, and one for     *)
(* each handler and fault: RespostasPorVideo, for any quota and any number *)
(* of handlers, videos and faults.                                         *)
THEOREM RespostasCorrect == Spec => []RespostasPorVideo
<1>1. IInv /\ Cota /\ [Next]_vars => Cota'
  BY CotaNext DEF IInv
<1>2. TypeOK /\ Cota => RespostasPorVideo
  <2> SUFFICES ASSUME TypeOK, Cota, NEW v \in Videos
               PROVE  respostas[v] + 1 <= perguntas_followup_video
                                            + Cardinality(Atendentes) * (1 + faltas)
    BY DEF RespostasPorVideo
  <2> DEFINE n == Cardinality(Atendentes)
             d == Cardinality(Devendo(v))
             r == Cardinality(Respondendo(v))
             k == Perdido
             Q == perguntas_followup_video
             x == respostas[v]
             w == contexto.restantes
  <2>1. n \in Nat /\ d \in Nat /\ r \in Nat /\ d + r <= n
    BY Partes
  <2>2. Q \in Nat /\ x \in Nat /\ w \in Nat /\ k \in Nat /\ faltas \in Nat
    BY ContextoVideoAssumption, Nomes, PerdidoCresce DEF TypeOK, Contexto
  <2>3. n * (1 + faltas) = n + k
    BY <2>1, <2>2 DEF Perdido
  <2>4. \/ w > 0 /\ x + w <= Q + d + k
        \/ x + r + 1 <= Q + n + k
    BY DEF Cota, CotaDe, Aberto
  <2> HIDE DEF n, d, r, k, Q, x, w
  <2>5. x + 1 <= Q + (n + k)
    BY <2>1, <2>2, <2>4
  <2> QED
    BY <2>3, <2>5 DEF n, d, r, k, Q, x, w
<1>3. IInv => TypeOK
  BY DEF IInv
<1> QED
  BY <1>1, <1>2, <1>3, InvCorrect, CotaInicial, PTL DEF Spec
============================================================================
