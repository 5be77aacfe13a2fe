--------------------------- MODULE Entrega_proofs ---------------------------
(***************************************************************************)
(* Proofs about Entrega, and that it implements Registro, for every number *)
(* of calls, every bound and every set of answer codes that satisfies the  *)
(* assumptions.                                                            *)
(***************************************************************************)
EXTENDS EntregaRegistro, TLAPS

USE TransacoesAssumption, CanalAssumption, FilaAssumption

---------------------------------------------------------------------------
(* Type correctness. *)

(* The empty journal is well typed. *)
LEMMA TipoInicial == Init => TypeOK
  BY DEF Init, InitTransacoes, InitCanal, InitRemetente, InitFila, TypeOK,
         TypeOKTransacoes, TypeOKCanal, TypeOKRemetente, TypeOKFila, Linha, Estados,
         Abertas, Fechadas, Orcamento, Historia, Remetente, PassosEnvio, Fila,
         PassosFila, FilaOciosa, Codigos, Ids

(* What the UPDATEs leave in the table is a table. *)
LEMMA TipoGravar ==
  ASSUME TypeOKTransacoes,
         NEW id, NEW novo \in Estados, NEW n \in Nat
  PROVE  /\ ComEstado(id, novo) \in [Ids -> Linha]
         /\ ComErro(id, n) \in [Ids -> Linha]
  BY DEF TypeOKTransacoes, ComEstado, ComErro, Existe, Linha, Estados, Abertas, Fechadas

(* A failed statement stays within the bound. *)
LEMMA TipoAvaria ==
  ASSUME TypeOKTransacoes, Avaria
  PROVE  orcamento' \in Orcamento
  BY DEF TypeOKTransacoes, Avaria, Orcamento

(* A send keeps the types of the channel. *)
LEMMA TipoEnviar ==
  ASSUME TypeOKTransacoes, TypeOKCanal, NEW e \in Envios, NEW cod \in Codigos,
         NEW chegou \in BOOLEAN, enviar(e, cod, chegou)
  PROVE  TypeOKCanal' /\ orcamento' \in Orcamento
  <1>1. orcamento' \in Orcamento
    BY DEF enviar, Incerta, TypeOKTransacoes, Orcamento
  <1>2. TypeOKCanal'
    BY DEF enviar, TypeOKCanal, Historia
  <1>3. QED
    BY <1>1, <1>2

(* An UPDATE, done or failed, leaves a table. *)
LEMMA TipoRegistro ==
  ASSUME TypeOK, NEW id, NEW tabela \in [Ids -> Linha], Gravar(tabela)
  PROVE  linhas' \in [Ids -> Linha] /\ orcamento' \in Orcamento
  BY TipoAvaria DEF Gravar, TypeOK, TypeOKTransacoes

(* Every step of a handler keeps the types. *)
LEMMA TipoRemetente ==
  ASSUME TypeOK, NEW e \in Envios, PassoRemetente(e) \/ MatarTratador(e)
  PROVE  TypeOKTransacoes' /\ TypeOKCanal' /\ TypeOKRemetente'
  <1> USE DEF TypeOK
  <1>0. \A r \in Remetente : Terminado(r) \in Remetente
    BY DEF Remetente, Terminado, PassosEnvio, Codigos
  <1>1. CASE RegistrarInsert(e)
    <2>1. TypeOKTransacoes'
      <3>1. CASE Inserir(e) /\ UNCHANGED <<dia, orcamento>>
        BY <3>1 DEF Inserir, TypeOKTransacoes, Linha, Estados, Abertas, Ids
      <3>2. CASE Avaria /\ UNCHANGED <<linhas, prox, ultimo, dia>>
        BY <3>2, TipoAvaria DEF TypeOKTransacoes
      <3>3. QED
        BY <1>1, <3>1, <3>2 DEF RegistrarInsert
    <2>2. TypeOKRemetente'
      BY <1>1 DEF RegistrarInsert, Inserir, TypeOKRemetente, Remetente, PassosEnvio,
                  TypeOKTransacoes
    <2>3. QED
      BY <1>1, <2>1, <2>2 DEF RegistrarInsert, TypeOKCanal
  <1>2. CASE RegistrarLerId(e)
    <2>1. TypeOKRemetente'
      BY <1>0, <1>2 DEF RegistrarLerId, TypeOKRemetente, Remetente, PassosEnvio,
                        TypeOKTransacoes
    <2>2. QED
      BY <1>2, <2>1, TipoAvaria DEF RegistrarLerId, TypeOKTransacoes, TypeOKCanal
  <1>3. CASE EnviarResposta(e)
    <2>1. PICK cod \in Codigos, chegou \in BOOLEAN :
            /\ enviar(e, cod, chegou)
            /\ rem' = [rem EXCEPT ![e].pc = "gravacao", ![e].cod = cod]
      BY <1>3 DEF EnviarResposta
    <2>2. TypeOKRemetente'
      BY <2>1 DEF TypeOKRemetente, Remetente, PassosEnvio
    <2>3. QED
      BY <1>3, <2>1, <2>2, TipoEnviar DEF EnviarResposta, TypeOKTransacoes
  <1>4. CASE GravarResultado(e)
    <2>1. linhas' \in [Ids -> Linha] /\ orcamento' \in Orcamento
      BY <1>4, TipoGravar, TipoRegistro
         DEF GravarResultado, marcar_entregue, atualizar_erro, Estados, Fechadas
    <2>2. TypeOKRemetente'
      BY <1>0, <1>4 DEF GravarResultado, TypeOKRemetente, Remetente, PassosEnvio
    <2>3. QED
      BY <1>4, <2>1, <2>2 DEF GravarResultado, TypeOKTransacoes, TypeOKCanal
  <1>5. CASE DescartarResposta(e)
    <2>1. linhas' \in [Ids -> Linha] /\ orcamento' \in Orcamento
      BY <1>5, TipoGravar, TipoRegistro
         DEF DescartarResposta, atualizar_status, Estados, Fechadas
    <2>2. TypeOKRemetente'
      BY <1>0, <1>5 DEF DescartarResposta, TypeOKRemetente
    <2>3. QED
      BY <1>5, <2>1, <2>2 DEF DescartarResposta, TypeOKTransacoes, TypeOKCanal
  <1>6. CASE MatarTratador(e)
    BY <1>0, <1>6 DEF MatarTratador, TypeOKRemetente, TypeOKTransacoes, TypeOKCanal
  <1>7. QED
    BY <1>1, <1>2, <1>3, <1>4, <1>5, <1>6 DEF PassoRemetente

(* Going on to the next row of the snapshot keeps the types of the queue. *)
LEMMA TipoSeguir ==
  ASSUME TypeOKFila, NEW id \in Ids, Seguir(id)
  PROVE  TypeOKFila'
  BY DEF TypeOKFila, Seguir, Fila, PassosFila, Codigos

(* Every step of the queue keeps the types. *)
LEMMA TipoFila ==
  ASSUME TypeOK, PassoFila
  PROVE  TypeOKTransacoes' /\ TypeOKCanal' /\ TypeOKFila'
  <1> USE DEF TypeOK, Mantem
  <1>1. CASE IniciarCiclo
    BY <1>1 DEF IniciarCiclo, Pendentes, TypeOKTransacoes, TypeOKCanal, TypeOKFila,
                Fila, PassosFila, Linha
  <1>2. CASE ConsultarPonte
    BY <1>2 DEF ConsultarPonte, TypeOKTransacoes, TypeOKCanal, TypeOKFila, Fila, PassosFila
  <1>3. CASE TerminarCiclo
    BY <1>3 DEF TerminarCiclo, FilaOciosa, TypeOKTransacoes, TypeOKCanal, TypeOKFila,
                Fila, PassosFila, Codigos
  <1>4. ASSUME NEW id \in Ids, Aguardar(id)
        PROVE  TypeOKTransacoes' /\ TypeOKCanal' /\ TypeOKFila'
    BY <1>4, TipoSeguir DEF Aguardar, TypeOKTransacoes, TypeOKCanal
  <1>5. ASSUME NEW id \in Ids, VencerPrazo(id)
        PROVE  TypeOKTransacoes' /\ TypeOKCanal' /\ TypeOKFila'
    <2>1. visto[id] \in Nat
      BY DEF TypeOKFila
    <2>2. linhas' \in [Ids -> Linha] /\ orcamento' \in Orcamento
      BY <1>5, <2>1, TipoGravar, TipoRegistro DEF VencerPrazo, atualizar_erro, Estados, Fechadas
    <2>3. TypeOKFila'
      BY <1>5 DEF VencerPrazo, TypeOKFila, Fila, PassosFila
    <2>4. QED
      BY <1>5, <2>2, <2>3 DEF VencerPrazo, TypeOKTransacoes, TypeOKCanal
  <1>6. ASSUME NEW id \in Ids, Esgotar(id) \/ Descartar(id)
        PROVE  TypeOKTransacoes' /\ TypeOKCanal' /\ TypeOKFila'
    <2>1. linhas' \in [Ids -> Linha] /\ orcamento' \in Orcamento
      BY <1>6, TipoGravar, TipoRegistro
         DEF Esgotar, Descartar, atualizar_status, Estados, Fechadas
    <2>2. QED
      BY <1>6, <2>1, TipoSeguir DEF Esgotar, Descartar, TypeOKTransacoes, TypeOKCanal
  <1>7. ASSUME NEW id \in Ids, Reenviar(id)
        PROVE  TypeOKTransacoes' /\ TypeOKCanal' /\ TypeOKFila'
    <2>1. PICK cod \in Codigos, chegou \in BOOLEAN :
            /\ enviar(linhas[id].dono, cod, chegou)
            /\ fila' = [fila EXCEPT !.pc = "gravacao", !.cod = cod]
      BY <1>7 DEF Reenviar
    <2>2. TypeOKCanal' /\ orcamento' \in Orcamento
      <3>1. CASE linhas[id].dono \in Envios
        BY <2>1, <3>1, TipoEnviar
      <3>2. CASE linhas[id].dono \notin Envios
        <4>1. orcamento' \in Orcamento
          BY <2>1 DEF enviar, Incerta, TypeOKTransacoes, Orcamento
        <4>2. UNCHANGED <<hist, sessao>>
          BY <2>1, <3>2 DEF enviar, TypeOKCanal
        <4>3. QED
          BY <4>1, <4>2 DEF TypeOKCanal
      <3>3. QED
        BY <3>1, <3>2
    <2>3. TypeOKFila'
      BY <1>7, <2>1 DEF Reenviar, TypeOKFila, Fila, PassosFila
    <2>4. QED
      BY <1>7, <2>2, <2>3 DEF Reenviar, TypeOKTransacoes
  <1>8. ASSUME NEW id \in Ids, GravarReenvio(id)
        PROVE  TypeOKTransacoes' /\ TypeOKCanal' /\ TypeOKFila'
    <2>1. visto[id] \in Nat /\ visto[id] + 1 \in Nat
      BY DEF TypeOKFila
    <2>2. linhas' \in [Ids -> Linha] /\ orcamento' \in Orcamento
      BY <1>8, <2>1, TipoGravar, TipoRegistro
         DEF GravarReenvio, marcar_entregue, atualizar_erro, Estados, Fechadas
    <2>3. TypeOKFila'
      <3>1. CASE Seguir(id)
        BY <3>1, TipoSeguir
      <3>2. CASE fila' = [fila EXCEPT !.pc = "descarte"] /\ UNCHANGED <<lote, visto>>
        BY <3>2 DEF TypeOKFila, Fila, PassosFila
      <3>3. QED
        BY <1>8, <3>1, <3>2 DEF GravarReenvio
    <2>4. QED
      BY <1>8, <2>2, <2>3 DEF GravarReenvio, TypeOKTransacoes, TypeOKCanal
  <1>9. QED
    BY <1>1, <1>2, <1>3, <1>4, <1>5, <1>6, <1>7, <1>8 DEF PassoFila

(* Every step keeps the types. *)
LEMMA TipoPasso == TypeOK /\ [Next]_vars => TypeOK'
  <1> SUFFICES ASSUME TypeOK, [Next]_vars
               PROVE  TypeOK'
    OBVIOUS
  <1>1. CASE Remetentes
    <2>1. PICK e \in Envios : PassoRemetente(e) \/ MatarTratador(e)
      BY <1>1 DEF Remetentes
    <2>2. TypeOKFila'
      BY <1>1 DEF Remetentes, varsFila, TypeOK, TypeOKFila
    <2>3. QED
      BY <2>1, <2>2, TipoRemetente DEF TypeOK
  <1>2. CASE FilaAnda
    <2>1. TypeOKRemetente'
      BY <1>2 DEF FilaAnda, TypeOK, TypeOKRemetente
    <2>2. QED
      BY <1>2, <2>1, TipoFila DEF FilaAnda, TypeOK
  <1>3. CASE Manutencao
    <2>1. linhas' \in [Ids -> Linha]
      BY <1>3 DEF Manutencao, limpar_antigas, TypeOK, TypeOKTransacoes, Linha, Estados
    <2>2. QED
      BY <1>3, <2>1 DEF Manutencao, limpar_antigas, varsFila, TypeOK, TypeOKTransacoes,
                        TypeOKCanal, TypeOKRemetente, TypeOKFila
  <1>4. CASE OutrasTabelas
    BY <1>4 DEF OutrasTabelas, InserirEmOutraTabela, varsFila, TypeOK, TypeOKTransacoes,
                TypeOKCanal, TypeOKRemetente, TypeOKFila, Ids
  <1>5. CASE Relogio
    BY <1>5 DEF Relogio, PassarDia, varsFila, TypeOK, TypeOKTransacoes, TypeOKCanal,
                TypeOKRemetente, TypeOKFila
  <1>6. CASE Ponte
    BY <1>6 DEF Ponte, MudarSessao, varsFila, TypeOK, TypeOKTransacoes, TypeOKCanal,
                TypeOKRemetente, TypeOKFila
  <1>7. CASE Reiniciar
    <2>1. \A r \in Remetente : Terminado(r) \in Remetente
      BY DEF Remetente, Terminado, PassosEnvio, Codigos
    <2>2. TypeOKRemetente'
      BY <1>7, <2>1 DEF Reiniciar, TypeOK, TypeOKRemetente
    <2>3. TypeOKTransacoes' /\ TypeOKCanal'
      BY <1>7 DEF Reiniciar, TypeOK, TypeOKTransacoes, TypeOKCanal, Orcamento
    <2>4. TypeOKFila'
      BY <1>7 DEF Reiniciar, FilaOciosa, TypeOK, TypeOKFila, Fila, PassosFila, Codigos
    <2>5. QED
      BY <2>2, <2>3, <2>4 DEF TypeOK
  <1>8. CASE UNCHANGED vars
    BY <1>8 DEF vars, TypeOK, TypeOKTransacoes, TypeOKCanal, TypeOKRemetente, TypeOKFila
  <1>9. QED
    BY <1>1, <1>2, <1>3, <1>4, <1>5, <1>6, <1>7, <1>8 DEF Next

(* Every variable of the delivery keeps its type: ids stay in the table,   *)
(* the clock and the fault budget within their bounds, whoever writes.     *)
THEOREM TypeCorrect == Spec => []TypeOK
  <1>1. QED
    BY TipoInicial, TipoPasso, PTL DEF Spec

---------------------------------------------------------------------------
(* What an UPDATE does to the table: one row, its owner and age untouched. *)
LEMMA EfeitoEstado ==
  ASSUME TypeOK, NEW id, NEW novo \in Estados, Gravar(ComEstado(id, novo)), NEW j \in Ids
  PROVE  \/ linhas'[j] = linhas[j]
         \/ j = id /\ Existe(j) /\ linhas'[j] = [linhas[j] EXCEPT !.estado = novo]
  BY DEF Gravar, ComEstado, Existe, TypeOK, TypeOKTransacoes

(* atualizar_erro changes no row but the named one, and only state and counter. *)
LEMMA EfeitoErro ==
  ASSUME TypeOK, NEW id, NEW n \in Nat, Gravar(ComErro(id, n)), NEW j \in Ids
  PROVE  \/ linhas'[j] = linhas[j]
         \/ j = id /\ Existe(j)
             /\ linhas'[j] = [linhas[j] EXCEPT !.estado = "falha", !.tentativas = n]
  BY DEF Gravar, ComErro, Existe, TypeOK, TypeOKTransacoes, Linha

MesmaHistoria ==
  \A e \in Envios : /\ hist'[e].recebidas >= hist[e].recebidas
                    /\ hist'[e].gastas >= hist[e].gastas
                    /\ hist[e].recusada => hist'[e].recusada

(* A send forgets nothing, and records the answer it gave. *)
LEMMA EfeitoEnviar ==
  ASSUME TypeOK, NEW e \in Envios, NEW cod \in Codigos, NEW chegou \in BOOLEAN,
         enviar(e, cod, chegou)
  PROVE  /\ MesmaHistoria
         /\ cod = "ok" => hist'[e].recebidas > 0
         /\ e_erro_definitivo(cod) => hist'[e].recusada
         /\ cod # "ok" /\ ~e_erro_sessao(cod) => hist'[e].gastas = hist[e].gastas + 1
  <1>1. cod = "ok" => chegou
    BY DEF enviar, Alcancavel, TypeOK, TypeOKCanal
  <1>2. hist[e] \in Historia
    BY DEF TypeOK, TypeOKCanal
  <1>3. hist'[e] = [recebidas |-> IF chegou THEN hist[e].recebidas + 1 ELSE hist[e].recebidas,
                    gastas    |-> IF cod = "ok" \/ e_erro_sessao(cod)
                                  THEN hist[e].gastas ELSE hist[e].gastas + 1,
                    recusada  |-> hist[e].recusada \/ e_erro_definitivo(cod)]
    BY DEF enviar, TypeOK, TypeOKCanal
  <1>4. \A d \in Envios : d # e => hist'[d] = hist[d]
    BY DEF enviar, TypeOK, TypeOKCanal
  <1>5. \A d \in Envios : hist[d].recebidas \in Nat /\ hist[d].gastas \in Nat
    BY DEF TypeOK, TypeOKCanal, Historia
  <1>6. /\ hist'[e].recebidas >= hist[e].recebidas
        /\ hist'[e].gastas >= hist[e].gastas
        /\ cod = "ok" => hist'[e].recebidas > 0
        /\ cod # "ok" /\ ~e_erro_sessao(cod) => hist'[e].gastas = hist[e].gastas + 1
    BY <1>1, <1>3, <1>5
  <1>7. hist'[e].recusada = (hist[e].recusada \/ e_erro_definitivo(cod))
    BY <1>3
  <1>8. \A d \in Envios : hist[d].recusada => hist'[d].recusada
    <2>1. SUFFICES ASSUME NEW d \in Envios, hist[d].recusada
                   PROVE  hist'[d].recusada
      OBVIOUS
    <2>2. CASE d = e
      BY <1>7, <2>1, <2>2, Zenon
    <2>3. CASE d # e
      BY <1>4, <2>1, <2>3, Zenon
    <2>4. QED
      BY <2>2, <2>3
  <1>9. \A d \in Envios : /\ hist'[d].recebidas >= hist[d].recebidas
                          /\ hist'[d].gastas >= hist[d].gastas
    BY <1>4, <1>5, <1>6
  <1>10. e_erro_definitivo(cod) => hist'[e].recusada
    BY <1>7, Zenon
  <1>11. MesmaHistoria
    BY <1>8, <1>9 DEF MesmaHistoria
  <1>12. QED
    BY <1>6, <1>10, <1>11

(* An id is read once, after the call's own row is known. *)
LEMMA AlheioFica ==
  ASSUME \A e \in Envios : rem[e].id # 0 => /\ rem'[e].id = rem[e].id
                                            /\ rem'[e].linha = rem[e].linha
  PROVE  \A id \in Ids : IdAlheio(id) => IdAlheio(id)'
  BY DEF IdAlheio, Ids

(* A handler's step touches no other handler, and no id once read. *)
LEMMA RemetenteFica ==
  ASSUME TypeOK, DonosCertos, NEW e \in Envios, PassoRemetente(e) \/ MatarTratador(e)
  PROVE  /\ \A d \in Envios : d # e => rem'[d] = rem[d]
         /\ \A d \in Envios : rem[d].id # 0 => /\ rem'[d].id = rem[d].id
                                               /\ rem'[d].linha = rem[d].linha
  <1> USE DEF TypeOK, TypeOKRemetente, Remetente, Terminado
  <1>1. CASE RegistrarInsert(e)
    BY <1>1 DEF RegistrarInsert, DonosCertos, ChamadasComLinha
  <1>2. CASE RegistrarLerId(e)
    BY <1>2 DEF RegistrarLerId, DonosCertos, ChamadasComLinha
  <1>3. CASE EnviarResposta(e)
    <2>1. PICK cod \in Codigos, chegou \in BOOLEAN :
            /\ enviar(e, cod, chegou)
            /\ rem' = [rem EXCEPT ![e].pc = "gravacao", ![e].cod = cod]
      BY <1>3 DEF EnviarResposta
    <2>2. rem'[e].id = rem[e].id /\ rem'[e].linha = rem[e].linha
      BY <2>1
    <2>3. \A d \in Envios : d # e => rem'[d] = rem[d]
      BY <2>1
    <2>4. QED
      BY <2>2, <2>3
  <1>4. CASE GravarResultado(e)
    <2>1. \/ rem' = [rem EXCEPT ![e] = Terminado(@)]
          \/ rem' = [rem EXCEPT ![e].pc = "descarte"]
      <3> HIDE DEF Terminado
      <3>1. QED
        BY <1>4 DEF GravarResultado
    <2>2. CASE rem' = [rem EXCEPT ![e] = Terminado(@)]
      BY <2>2
    <2>3. CASE rem' = [rem EXCEPT ![e].pc = "descarte"]
      BY <2>3
    <2>4. QED
      BY <2>1, <2>2, <2>3
  <1>5. CASE DescartarResposta(e) \/ MatarTratador(e)
    <2>1. rem' = [rem EXCEPT ![e] = Terminado(@)]
      <3> HIDE DEF Terminado
      <3>1. QED
        BY <1>5 DEF DescartarResposta, MatarTratador
    <2>2. QED
      BY <2>1
  <1>6. QED
    BY <1>1, <1>2, <1>3, <1>4, <1>5 DEF PassoRemetente

(* Rows the step leaves alone but for state and counter. *)
MesmosDonos == \A id \in Ids : id < prox => /\ linhas'[id].dono = linhas[id].dono
                                            /\ linhas'[id].criado = linhas[id].criado

(* What is not touched is not forgotten. *)
LEMMA HistoriaParada == TypeOK /\ UNCHANGED hist => MesmaHistoria
  BY DEF TypeOK, TypeOKCanal, Historia, MesmaHistoria

(* Rows come into being by the INSERT of registrar only. *)
TabelaFica == \A id \in Ids : /\ linhas'[id].dono = linhas[id].dono
                              /\ linhas'[id].criado = linhas[id].criado
                              /\ linhas[id].estado = "ausente" => linhas'[id].estado = "ausente"

(* The UPDATEs keep owners and dates and bring no row into being. *)
LEMMA TabelaNoRegistro ==
  ASSUME TypeOK, NEW id,
         \/ \E novo \in Estados : Gravar(ComEstado(id, novo))
         \/ \E n \in Nat : Gravar(ComErro(id, n))
  PROVE  TabelaFica
  <1>1. SUFFICES ASSUME NEW j \in Ids
                 PROVE  /\ linhas'[j].dono = linhas[j].dono
                        /\ linhas'[j].criado = linhas[j].criado
                        /\ linhas[j].estado = "ausente" => linhas'[j].estado = "ausente"
    BY DEF TabelaFica
  <1>2. linhas[j] \in Linha
    BY DEF TypeOK, TypeOKTransacoes
  <1>3. CASE \E novo \in Estados : Gravar(ComEstado(id, novo))
    <2>1. PICK novo \in Estados : Gravar(ComEstado(id, novo))
      BY <1>3
    <2>2. \/ linhas'[j] = linhas[j]
          \/ Existe(j) /\ linhas'[j] = [linhas[j] EXCEPT !.estado = novo]
      BY <2>1, EfeitoEstado
    <2>3. QED
      BY <1>2, <2>2 DEF Linha, Existe
  <1>4. CASE \E n \in Nat : Gravar(ComErro(id, n))
    <2>1. PICK n \in Nat : Gravar(ComErro(id, n))
      BY <1>4
    <2>2. \/ linhas'[j] = linhas[j]
          \/ Existe(j)
             /\ linhas'[j] = [linhas[j] EXCEPT !.estado = "falha", !.tentativas = n]
      BY <2>1, EfeitoErro
    <2>3. QED
      BY <1>2, <2>2 DEF Linha, Existe
  <1>5. QED
    BY <1>3, <1>4

(* A handler adds a row only by registrar. *)
LEMMA TabelaRemetente ==
  ASSUME TypeOK, NEW e \in Envios, PassoRemetente(e) \/ MatarTratador(e)
  PROVE  \/ TabelaFica /\ UNCHANGED prox
         \/ RegistrarInsert(e) /\ Inserir(e)
  <1>1. CASE RegistrarInsert(e)
    BY <1>1 DEF RegistrarInsert, TabelaFica
  <1>2. CASE GravarResultado(e)
    BY <1>2, TabelaNoRegistro DEF GravarResultado, marcar_entregue, atualizar_erro,
       Estados, Fechadas
  <1>3. CASE DescartarResposta(e)
    BY <1>3, TabelaNoRegistro DEF DescartarResposta, atualizar_status, Estados, Fechadas
  <1>4. CASE RegistrarLerId(e) \/ EnviarResposta(e) \/ MatarTratador(e)
    BY <1>4 DEF RegistrarLerId, EnviarResposta, MatarTratador, TabelaFica
  <1>5. QED
    BY <1>1, <1>2, <1>3, <1>4 DEF PassoRemetente

(* The queue adds no row. *)
LEMMA TabelaFila ==
  ASSUME TypeOK, PassoFila
  PROVE  TabelaFica /\ UNCHANGED <<prox, dia>>
  <1>1. UNCHANGED <<dia, prox>>
    BY DEF PassoFila, Mantem, IniciarCiclo, ConsultarPonte, TerminarCiclo, Aguardar,
       VencerPrazo, Esgotar, Reenviar, GravarReenvio, Descartar
  <1>2. CASE UNCHANGED linhas
    BY <1>1, <1>2 DEF TabelaFica
  <1>3. ASSUME NEW id \in Ids, VencerPrazo(id) \/ GravarReenvio(id)
        PROVE  TabelaFica
    <2>1. visto[id] \in Nat /\ visto[id] + 1 \in Nat
      BY DEF TypeOK, TypeOKFila
    <2>2. QED
      BY <1>3, <2>1, TabelaNoRegistro DEF VencerPrazo, GravarReenvio, marcar_entregue,
         atualizar_erro, Estados, Fechadas
  <1>4. ASSUME NEW id \in Ids, Esgotar(id) \/ Descartar(id)
        PROVE  TabelaFica
    BY <1>4, TabelaNoRegistro DEF Esgotar, Descartar, atualizar_status, Estados, Fechadas
  <1>5. QED
    BY <1>1, <1>2, <1>3, <1>4 DEF PassoFila, IniciarCiclo, ConsultarPonte,
       TerminarCiclo, Aguardar, Reenviar

(* Maintenance, clock, bridge and restart add no row. *)
LEMMA TabelaResto ==
  ASSUME TypeOK,
         Manutencao \/ OutrasTabelas \/ Relogio \/ Ponte \/ Reiniciar \/ UNCHANGED vars
  PROVE  TabelaFica /\ UNCHANGED prox
  <1>1. CASE Manutencao
    BY <1>1 DEF Manutencao, limpar_antigas, TabelaFica, TypeOK, TypeOKTransacoes, Linha
  <1>2. CASE UNCHANGED <<linhas, prox>>
    BY <1>2 DEF TabelaFica
  <1>3. QED
    BY <1>1, <1>2 DEF OutrasTabelas, InserirEmOutraTabela, Relogio, PassarDia, Ponte,
       Reiniciar, vars

(* Knowledge only grows: no step takes back what a chat received, lost or  *)
(* refused, gives a row to another call, or makes a foreign id harmless.   *)
Avanca ==
  /\ MesmaHistoria
  /\ MesmosDonos
  /\ dia' >= dia /\ prox' >= prox
  /\ \A id \in Ids : IdAlheio(id) => IdAlheio(id)'

(* A step of a handler only moves forward. *)
LEMMA RemetenteAvanca ==
  ASSUME TypeOK, DonosCertos, NEW e \in Envios, PassoRemetente(e) \/ MatarTratador(e)
  PROVE  Avanca
  <1>1. \A id \in Ids : IdAlheio(id) => IdAlheio(id)'
    BY AlheioFica, RemetenteFica
  <1>2. dia' >= dia /\ prox' >= prox
    <2>1. dia \in Nat /\ prox \in Nat
      BY DEF TypeOK, TypeOKTransacoes
    <2>2. QED
      BY <2>1 DEF PassoRemetente, RegistrarInsert, Inserir, RegistrarLerId, EnviarResposta,
                  GravarResultado, DescartarResposta, MatarTratador
  <1>3. MesmaHistoria
    <2>1. CASE EnviarResposta(e)
      <3>1. PICK cod \in Codigos, chegou \in BOOLEAN : enviar(e, cod, chegou)
        BY <2>1 DEF EnviarResposta
      <3>2. QED
        BY <3>1, EfeitoEnviar
    <2>2. CASE ~EnviarResposta(e)
      <3>1. UNCHANGED hist
        BY <2>2 DEF PassoRemetente, RegistrarInsert, RegistrarLerId,
           GravarResultado, DescartarResposta, MatarTratador
      <3>2. QED
        BY <3>1, HistoriaParada
    <2>3. QED
      BY <2>1, <2>2
  <1>4. MesmosDonos
    <2>1. CASE TabelaFica
      BY <2>1 DEF TabelaFica, MesmosDonos
    <2>2. CASE Inserir(e)
      BY <2>2 DEF Inserir, MesmosDonos, TypeOK, TypeOKTransacoes
    <2>3. QED
      BY <2>1, <2>2, TabelaRemetente
  <1>5. QED
    BY <1>1, <1>2, <1>3, <1>4 DEF Avanca

(* A step of the queue only moves forward. *)
LEMMA FilaAvanca ==
  ASSUME TypeOK, DonosCertos, FilaSabe, PassoFila, UNCHANGED rem
  PROVE  Avanca
  <1>1. \A id \in Ids : IdAlheio(id) => IdAlheio(id)'
    BY DEF IdAlheio
  <1>2. TabelaFica /\ UNCHANGED <<dia, prox>>
    BY TabelaFila
  <1>3. dia' >= dia /\ prox' >= prox
    BY <1>2 DEF TypeOK, TypeOKTransacoes
  <1>4. CASE \E id \in Ids : Reenviar(id)
    <2>1. PICK id \in Ids : Reenviar(id)
      BY <1>4
    <2>2. linhas[id].dono \in Envios
      BY <2>1 DEF Reenviar, Primeira, FilaSabe, LoteSabe, DonosCertos, LinhasComDono
    <2>3. MesmaHistoria
      <3>1. PICK cod \in Codigos, chegou \in BOOLEAN : enviar(linhas[id].dono, cod, chegou)
        BY <2>1 DEF Reenviar
      <3>2. QED
        BY <2>2, <3>1, EfeitoEnviar
    <2>4. QED
      BY <1>1, <1>2, <1>3, <2>3 DEF Avanca, TabelaFica, MesmosDonos
  <1>5. CASE ~\E id \in Ids : Reenviar(id)
    <2>1. MesmaHistoria
      <3>1. UNCHANGED hist
        BY <1>5 DEF PassoFila, IniciarCiclo, ConsultarPonte, TerminarCiclo, Aguardar,
           VencerPrazo, Esgotar, GravarReenvio, Descartar
      <3>2. QED
        BY <3>1, HistoriaParada
    <2>2. QED
      BY <1>1, <1>2, <1>3, <2>1 DEF Avanca, TabelaFica, MesmosDonos
  <1>6. QED
    BY <1>4, <1>5

(* Every other step only moves forward. *)
LEMMA RestoAvanca ==
  ASSUME TypeOK, DonosCertos,
         Manutencao \/ OutrasTabelas \/ Relogio \/ Ponte \/ Reiniciar \/ UNCHANGED vars
  PROVE  Avanca
  <1>1. \A e \in Envios : /\ rem'[e].id = rem[e].id
                          /\ rem'[e].linha = rem[e].linha
    <2>1. CASE Reiniciar
      BY <2>1 DEF Reiniciar, TypeOK, TypeOKRemetente, Remetente, Terminado
    <2>2. CASE UNCHANGED rem
      BY <2>2
    <2>3. QED
      BY <2>1, <2>2 DEF Manutencao, OutrasTabelas, Relogio, Ponte, vars
  <1>2. \A id \in Ids : IdAlheio(id) => IdAlheio(id)'
    BY <1>1, AlheioFica
  <1>3. dia' >= dia /\ prox' >= prox
    BY DEF TypeOK, TypeOKTransacoes, Manutencao, limpar_antigas, OutrasTabelas,
       InserirEmOutraTabela, Relogio, PassarDia, Ponte, Reiniciar, vars
  <1>4. MesmaHistoria
    <2>1. UNCHANGED hist
      BY DEF Manutencao, OutrasTabelas, Relogio, Ponte, MudarSessao, Reiniciar, vars
    <2>2. QED
      BY <2>1, HistoriaParada
  <1>5. MesmosDonos
    BY TabelaResto DEF TabelaFica, MesmosDonos
  <1>6. QED
    BY <1>2, <1>3, <1>4, <1>5 DEF Avanca

---------------------------------------------------------------------------
(* Ownership of rows is preserved. *)

(* Ids stay with their owners. *)
LEMMA DonosFicam ==
  ASSUME TypeOK, DonosCertos, TabelaFica, UNCHANGED prox,
         \A e \in Envios : /\ rem'[e].linha = rem[e].linha
                           /\ rem'[e].pc = "novo" => rem[e].pc = "novo"
                           /\ rem'[e].pc \in {"novo", "inserido"}
                                => rem[e].pc \in {"novo", "inserido"} /\ rem'[e].id = rem[e].id
  PROVE  DonosCertos'
  <1>1. LinhasComDono'
    <2>1. SUFFICES ASSUME NEW id \in Ids
                   PROVE  /\ linhas'[id].dono \in Envios <=> id < prox'
                          /\ id >= prox' => linhas'[id].estado = "ausente"
                          /\ id < prox' => rem'[linhas'[id].dono].linha = id
      BY DEF LinhasComDono
    <2>2. /\ linhas[id].dono \in Envios <=> id < prox
          /\ id >= prox => linhas[id].estado = "ausente"
          /\ id < prox => rem[linhas[id].dono].linha = id
      BY DEF DonosCertos, LinhasComDono
    <2>3. /\ linhas'[id].dono = linhas[id].dono
          /\ linhas[id].estado = "ausente" => linhas'[id].estado = "ausente"
      BY DEF TabelaFica
    <2>4. QED
      BY <2>2, <2>3
  <1>2. ChamadasComLinha'
    <2>1. SUFFICES ASSUME NEW e \in Envios
                   PROVE  /\ rem'[e].linha # 0 =>
                               rem'[e].linha < prox' /\ linhas'[rem'[e].linha].dono = e
                          /\ rem'[e].pc = "novo" => rem'[e].linha = 0
                          /\ rem'[e].pc \in {"novo", "inserido"} => rem'[e].id = 0
      BY DEF ChamadasComLinha
    <2>2. /\ rem[e].linha # 0 => rem[e].linha < prox /\ linhas[rem[e].linha].dono = e
          /\ rem[e].pc = "novo" => rem[e].linha = 0
          /\ rem[e].pc \in {"novo", "inserido"} => rem[e].id = 0
      BY DEF DonosCertos, ChamadasComLinha
    <2>3. rem[e].linha # 0 => rem[e].linha \in Ids
      BY DEF TypeOK, TypeOKRemetente, Remetente, Ids
    <2>4. rem[e].linha # 0 => linhas'[rem[e].linha].dono = linhas[rem[e].linha].dono
      BY <2>3 DEF TabelaFica
    <2>5. QED
      BY <2>2, <2>4
  <1>3. QED
    BY <1>1, <1>2 DEF DonosCertos

(* registrar keeps rows and calls matched. *)
LEMMA DonosRemetente ==
  ASSUME TypeOK, DonosCertos, NEW e \in Envios, PassoRemetente(e) \/ MatarTratador(e)
  PROVE  DonosCertos'
  <1> DEFINE Quieto(d) ==
        /\ rem'[d].linha = rem[d].linha
        /\ rem'[d].pc = "novo" => rem[d].pc = "novo"
        /\ rem'[d].pc \in {"novo", "inserido"}
             => rem[d].pc \in {"novo", "inserido"} /\ rem'[d].id = rem[d].id
  <1>1. \A d \in Envios : d # e => Quieto(d)
    BY RemetenteFica
  <1>2. rem[e] \in Remetente
    BY DEF TypeOK, TypeOKRemetente
  <1>3. CASE RegistrarInsert(e) /\ Inserir(e)
    <2>1. /\ prox \in Ids /\ prox' = prox + 1
          /\ linhas' = [linhas EXCEPT ![prox] =
               [estado |-> "pendente", dono |-> e, tentativas |-> 0, criado |-> dia]]
      BY <1>3 DEF Inserir, Ids, TypeOK, TypeOKTransacoes
    <2>2. rem' = [rem EXCEPT ![e].pc = "inserido", ![e].linha = prox]
                 \/ rem' = [rem EXCEPT ![e].pc = "inserido"]
      BY <1>3 DEF RegistrarInsert
    <2>3. rem' = [rem EXCEPT ![e].pc = "inserido", ![e].linha = prox]
      <3>1. linhas[prox].estado = "ausente"
        BY <2>1 DEF DonosCertos, LinhasComDono, TypeOK, TypeOKTransacoes, Ids
      <3>2. linhas'[prox].estado = "pendente"
        BY <2>1 DEF TypeOK, TypeOKTransacoes
      <3>3. linhas' # linhas
        BY <3>1, <3>2
      <3>4. QED
        BY <1>3, <3>3 DEF RegistrarInsert
    <2>4. /\ rem'[e].linha = prox /\ rem'[e].pc = "inserido" /\ rem'[e].id = rem[e].id
          /\ \A d \in Envios : d # e => rem'[d] = rem[d]
      BY <1>2, <2>3 DEF TypeOK, TypeOKRemetente, Remetente
    <2>5. rem[e].pc = "novo"
      BY <1>3 DEF RegistrarInsert
    <2>6. rem[e].linha = 0 /\ rem[e].id = 0
      BY <2>5 DEF DonosCertos, ChamadasComLinha
    <2>7. /\ linhas'[prox].dono = e /\ linhas'[prox].estado = "pendente"
          /\ \A id \in Ids : id # prox => linhas'[id] = linhas[id]
      BY <2>1 DEF TypeOK, TypeOKTransacoes
    <2>8. prox \in Nat /\ \A id \in Ids : id \in Nat
      BY DEF TypeOK, TypeOKTransacoes, Ids
    <2>9. /\ \A id \in Ids : /\ linhas'[id].dono \in Envios <=> id < prox'
                             /\ id >= prox' => linhas'[id].estado = "ausente"
                             /\ id < prox' => rem'[linhas'[id].dono].linha = id
      BY <2>1, <2>4, <2>6, <2>7, <2>8 DEF DonosCertos, LinhasComDono, Ids
    <2>10. \A d \in Envios :
             /\ rem'[d].linha # 0 => rem'[d].linha < prox' /\ linhas'[rem'[d].linha].dono = d
             /\ rem'[d].pc = "novo" => rem'[d].linha = 0
             /\ rem'[d].pc \in {"novo", "inserido"} => rem'[d].id = 0
      <3>1. \A d \in Envios : rem[d].linha \in Nat
        BY DEF TypeOK, TypeOKRemetente, Remetente
      <3>2. \A d \in Envios : rem[d].linha # 0 => rem[d].linha \in Ids
        BY DEF TypeOK, TypeOKRemetente, Remetente, Ids
      <3>3. QED
        BY <2>1, <2>4, <2>6, <2>7, <2>8, <3>1, <3>2 DEF DonosCertos, ChamadasComLinha
    <2>11. LinhasComDono'
      BY <2>9 DEF LinhasComDono
    <2>12. ChamadasComLinha'
      BY <2>10 DEF ChamadasComLinha
    <2>13. QED
      BY <2>11, <2>12 DEF DonosCertos
  <1>4. CASE TabelaFica /\ UNCHANGED prox
    <2>1. Quieto(e)
      <3>1. CASE RegistrarInsert(e)
        <4>1. CASE rem' = [rem EXCEPT ![e].pc = "inserido"]
          BY <1>2, <3>1, <4>1 DEF RegistrarInsert, TypeOK, TypeOKRemetente, Remetente
        <4>2. CASE Inserir(e)
          BY <1>4, <4>2 DEF Inserir, TypeOK, TypeOKTransacoes
        <4>3. QED
          BY <3>1, <4>1, <4>2 DEF RegistrarInsert
      <3>2. CASE rem' = [rem EXCEPT ![e].pc = "envio", ![e].id = ultimo]
        BY <1>2, <3>2 DEF TypeOK, TypeOKRemetente, Remetente
      <3>3. CASE rem' = [rem EXCEPT ![e] = Terminado(@)]
        BY <1>2, <3>3 DEF TypeOK, TypeOKRemetente, Remetente, Terminado
      <3>4. CASE EnviarResposta(e)
        <4>1. PICK cod \in Codigos, chegou \in BOOLEAN :
                /\ enviar(e, cod, chegou)
                /\ rem' = [rem EXCEPT ![e].pc = "gravacao", ![e].cod = cod]
          BY <3>4 DEF EnviarResposta
        <4>2. QED
          BY <1>2, <4>1 DEF TypeOK, TypeOKRemetente, Remetente
      <3>5. CASE rem' = [rem EXCEPT ![e].pc = "descarte"]
        BY <1>2, <3>5 DEF TypeOK, TypeOKRemetente, Remetente
      <3>6. QED
        BY <3>1, <3>2, <3>3, <3>4, <3>5 DEF PassoRemetente, RegistrarLerId,
           GravarResultado, DescartarResposta, MatarTratador
    <2>2. QED
      BY <1>1, <1>4, <2>1, DonosFicam
  <1>5. QED
    BY <1>3, <1>4, TabelaRemetente

(* Every step keeps rows and calls matched. *)
LEMMA DonosPasso ==
  ASSUME TypeOK, DonosCertos, [Next]_vars
  PROVE  DonosCertos'
  <1>1. CASE Remetentes
    BY <1>1, DonosRemetente DEF Remetentes
  <1>2. CASE FilaAnda
    BY <1>2, TabelaFila, DonosFicam DEF FilaAnda
  <1>3. CASE Manutencao \/ OutrasTabelas \/ Relogio \/ Ponte \/ Reiniciar \/ UNCHANGED vars
    <2>1. \A e \in Envios : /\ rem'[e].linha = rem[e].linha
                            /\ rem'[e].pc = "novo" => rem[e].pc = "novo"
                            /\ rem'[e].pc \in {"novo", "inserido"}
                                 => /\ rem[e].pc \in {"novo", "inserido"}
                                    /\ rem'[e].id = rem[e].id
      <3>1. CASE Reiniciar
        BY <3>1 DEF Reiniciar, TypeOK, TypeOKRemetente, Remetente, Terminado, EmCurso
      <3>2. CASE UNCHANGED rem
        BY <3>2
      <3>3. QED
        BY <1>3, <3>1, <3>2 DEF Manutencao, OutrasTabelas, Relogio, Ponte, vars
    <2>2. QED
      BY <1>3, <2>1, TabelaResto, DonosFicam
  <1>4. QED
    BY <1>1, <1>2, <1>3 DEF Next

(* Every step only moves forward. *)
LEMMA PassoAvanca ==
  ASSUME TypeOK, DonosCertos, FilaSabe, [Next]_vars
  PROVE  Avanca
  <1>1. CASE Remetentes
    BY <1>1, RemetenteAvanca DEF Remetentes
  <1>2. CASE FilaAnda
    BY <1>2, FilaAvanca DEF FilaAnda
  <1>3. QED
    BY <1>1, <1>2, RestoAvanca DEF Next

---------------------------------------------------------------------------
(* What a handler knows stays true of it. *)

SabeDe(r, h) ==
  /\ r.pc = "gravacao" /\ r.cod = "ok" => h.recebidas > 0
  /\ r.pc = "gravacao" /\ e_erro_definitivo(r.cod) => h.recusada
  /\ r.pc = "gravacao" /\ r.cod # "ok" /\ ~e_erro_sessao(r.cod) => h.gastas >= 1
  /\ r.pc = "descarte" => h.recusada /\ h.gastas >= 1

(* What a handler knows of its reply stays true. *)
LEMMA SabeSempre ==
  ASSUME TypeOK, TypeOK', MesmaHistoria, NEW e \in Envios, SabeDe(rem[e], hist[e])
  PROVE  SabeDe(rem[e], hist'[e])
  <1>1. /\ hist'[e].recebidas >= hist[e].recebidas
        /\ hist'[e].gastas >= hist[e].gastas
        /\ hist[e].recebidas \in Nat /\ hist'[e].recebidas \in Nat
        /\ hist[e].gastas \in Nat /\ hist'[e].gastas \in Nat
    BY DEF MesmaHistoria, TypeOK, TypeOKCanal, Historia
  <1>2. hist[e].recebidas > 0 => hist'[e].recebidas > 0
    BY <1>1
  <1>3. hist[e].gastas >= 1 => hist'[e].gastas >= 1
    BY <1>1
  <1>4. hist[e].recusada => hist'[e].recusada
    BY DEF MesmaHistoria
  <1>5. QED
    BY <1>2, <1>3, <1>4, Zenon DEF SabeDe

(* A handler with nothing to write knows nothing. *)
LEMMA SabeQuieto ==
  ASSUME NEW r, NEW h, r.pc \notin {"gravacao", "descarte"}
  PROVE  SabeDe(r, h)
  BY DEF SabeDe

(* Every step keeps what the handlers know true. *)
LEMMA RemetenteSabePasso ==
  ASSUME TypeOK, TypeOK', DonosCertos, RemetenteSabe, FilaSabe, [Next]_vars
  PROVE  RemetenteSabe'
  <1>1. \A e \in Envios : SabeDe(rem[e], hist[e])
    BY Zenon DEF RemetenteSabe, SabeDe
  <1>2. SUFFICES ASSUME NEW d \in Envios
                 PROVE  SabeDe(rem'[d], hist'[d])
    BY Zenon DEF RemetenteSabe, SabeDe
  <1>3. SabeDe(rem[d], hist'[d])
    BY <1>1, PassoAvanca, SabeSempre DEF Avanca
  <1>4. rem[d] \in Remetente
    BY DEF TypeOK, TypeOKRemetente
  <1>5. CASE rem'[d] = rem[d]
    BY <1>3, <1>5
  <1>6. CASE rem'[d] = Terminado(rem[d])
    <2>1. rem'[d].pc = "fim"
      BY <1>4, <1>6 DEF Remetente, Terminado
    <2>2. QED
      BY <2>1, SabeQuieto
  <1>7. CASE Remetentes
    <2>1. PICK e \in Envios : PassoRemetente(e) \/ MatarTratador(e)
      BY <1>7 DEF Remetentes
    <2>2. CASE d # e
      BY <1>5, <2>1, <2>2, RemetenteFica
    <2>3. CASE d = e /\ (RegistrarInsert(e) \/ RegistrarLerId(e))
      <3>1. CASE rem'[d] = Terminado(rem[d])
        BY <1>6, <3>1
      <3>2. CASE rem'[d] # Terminado(rem[d])
        <4>1. rem'[d].pc \in {"inserido", "envio"}
          BY <2>3, <3>2 DEF RegistrarInsert, RegistrarLerId, TypeOK, TypeOKRemetente, Remetente
        <4>2. QED
          BY <4>1, SabeQuieto
      <3>3. QED
        BY <3>1, <3>2
    <2>4. CASE d = e /\ EnviarResposta(e)
      <3>1. PICK cod \in Codigos, chegou \in BOOLEAN :
              /\ enviar(e, cod, chegou)
              /\ rem' = [rem EXCEPT ![e].pc = "gravacao", ![e].cod = cod]
        BY <2>4 DEF EnviarResposta
      <3>2. rem'[d].pc = "gravacao" /\ rem'[d].cod = cod
        BY <2>4, <3>1 DEF TypeOK, TypeOKRemetente, Remetente
      <3>3. /\ cod = "ok" => hist'[d].recebidas > 0
            /\ e_erro_definitivo(cod) => hist'[d].recusada
            /\ cod # "ok" /\ ~e_erro_sessao(cod) => hist'[d].gastas = hist[d].gastas + 1
        BY <2>4, <3>1, EfeitoEnviar
      <3>4. hist[d].gastas + 1 >= 1
        BY DEF TypeOK, TypeOKCanal, Historia
      <3>5. cod # "ok" /\ ~e_erro_sessao(cod) => hist'[d].gastas >= 1
        BY <3>3, <3>4
      <3>6. "gravacao" # "descarte"
        OBVIOUS
      <3>7. QED
        BY <3>2, <3>3, <3>5, <3>6, Zenon DEF SabeDe
    <2>5. CASE d = e /\ GravarResultado(e)
      <3>1. CASE rem'[d] = Terminado(rem[d])
        BY <1>6, <3>1
      <3>2. CASE rem'[d] # Terminado(rem[d])
        <4>1. /\ rem[d].pc = "gravacao"
              /\ e_erro_definitivo(rem[d].cod) /\ ~e_erro_sessao(rem[d].cod)
              /\ rem' = [rem EXCEPT ![e].pc = "descarte"]
          BY <2>5, <3>2 DEF GravarResultado, TypeOK, TypeOKRemetente
        <4>2. rem[d].cod # "ok"
          BY <4>1
        <4>3. hist'[d].recusada /\ hist'[d].gastas >= 1
          BY <1>3, <4>1, <4>2, Zenon DEF SabeDe
        <4>4. rem'[d].pc = "descarte"
          BY <2>5, <4>1 DEF TypeOK, TypeOKRemetente, Remetente
        <4>5. rem'[d].pc # "gravacao"
          BY <4>4
        <4>6. QED
          BY <4>3, <4>5, Zenon DEF SabeDe
      <3>3. QED
        BY <3>1, <3>2
    <2>6. CASE d = e /\ (DescartarResposta(e) \/ MatarTratador(e))
      <3>1. rem'[d] = Terminado(rem[d])
        BY <2>6 DEF DescartarResposta, MatarTratador, TypeOK, TypeOKRemetente
      <3>2. QED
        BY <1>6, <3>1
    <2>7. QED
      BY <2>1, <2>2, <2>3, <2>4, <2>5, <2>6 DEF PassoRemetente
  <1>8. CASE Reiniciar
    BY <1>5, <1>6, <1>8 DEF Reiniciar
  <1>9. QED
    BY <1>5, <1>7, <1>8 DEF Next, FilaAnda, Manutencao, OutrasTabelas, Relogio, Ponte, vars

---------------------------------------------------------------------------
(* What the queue knows stays true of it. *)

(* An open row's owner and age, and its history, as arithmetic facts. *)
LEMMA LinhaDoLote ==
  ASSUME TypeOK, TypeOK', DonosCertos, FilaSabe, Avanca, NEW id \in lote
  PROVE  /\ id \in Ids /\ id < prox /\ id < prox'
         /\ linhas[id].dono \in Envios
         /\ linhas'[id].dono = linhas[id].dono
         /\ linhas'[id].criado = linhas[id].criado
         /\ hist[linhas[id].dono].gastas \in Nat
         /\ hist'[linhas[id].dono].gastas \in Nat
         /\ hist'[linhas[id].dono].gastas >= hist[linhas[id].dono].gastas
         /\ hist[linhas[id].dono].recebidas > 0 => hist'[linhas[id].dono].recebidas > 0
         /\ visto[id] \in Nat
         /\ linhas[id].criado \in Nat /\ dia \in Nat /\ dia' \in Nat /\ dia' >= dia
         /\ IdAlheio(id) => IdAlheio(id)'
  <1>1. id \in Ids /\ visto[id] \in Nat /\ linhas[id].criado \in Nat
        /\ dia \in Nat /\ dia' \in Nat
    BY DEF TypeOK, TypeOKFila, TypeOKTransacoes, Linha
  <1>2. id < prox /\ id < prox'
    BY <1>1 DEF FilaSabe, LoteSabe, Avanca, TypeOK, TypeOKTransacoes, Ids
  <1>3. linhas[id].dono \in Envios
    BY <1>1, <1>2 DEF DonosCertos, LinhasComDono
  <1>4. /\ hist'[linhas[id].dono].gastas >= hist[linhas[id].dono].gastas
        /\ hist[linhas[id].dono].recebidas > 0 => hist'[linhas[id].dono].recebidas > 0
        /\ hist[linhas[id].dono].gastas \in Nat /\ hist'[linhas[id].dono].gastas \in Nat
    BY <1>3 DEF Avanca, MesmaHistoria, TypeOK, TypeOKCanal, Historia
  <1>5. linhas'[id].dono = linhas[id].dono /\ linhas'[id].criado = linhas[id].criado
    BY <1>1, <1>2 DEF Avanca, MesmosDonos
  <1>6. dia' >= dia /\ (IdAlheio(id) => IdAlheio(id)')
    BY <1>1 DEF Avanca
  <1>7. QED
    BY <1>1, <1>2, <1>3, <1>4, <1>5, <1>6

(* A refused reply of the snapshot stays refused. *)
LEMMA RecusadaDoLote ==
  ASSUME TypeOK, TypeOK', DonosCertos, FilaSabe, Avanca, NEW id \in lote,
         hist[linhas[id].dono].recusada
  PROVE  hist'[linhas'[id].dono].recusada
  BY LinhaDoLote DEF Avanca, MesmaHistoria

(* What the queue remembers of the rows left stays true. *)
LEMMA LoteEncolhe ==
  ASSUME TypeOK, TypeOK', DonosCertos, FilaSabe, Avanca,
         lote' \subseteq lote, \A id \in lote' : visto'[id] = visto[id]
  PROVE  LoteSabe'
  <1>1. SUFFICES ASSUME NEW id \in lote'
                 PROVE  /\ id < prox'
                        /\ ~IdAlheio(id)' =>
                             /\ visto'[id] <= tentativas_max
                             /\ visto'[id] <= hist'[linhas'[id].dono].gastas
    BY DEF LoteSabe
  <1>2. ~IdAlheio(id) => /\ visto[id] <= tentativas_max
                         /\ visto[id] <= hist[linhas[id].dono].gastas
    BY DEF FilaSabe, LoteSabe
  <1>3. visto'[id] = visto[id]
    OBVIOUS
  <1>4. QED
    BY <1>2, <1>3, LinhaDoLote

(* What the queue knows stays true while it rests. *)
LEMMA FilaParada ==
  ASSUME TypeOK, TypeOK', DonosCertos, FilaSabe, Avanca, UNCHANGED varsFila
  PROVE  FilaSabe'
  <1>1. UNCHANGED fila /\ UNCHANGED lote /\ UNCHANGED visto
    BY DEF varsFila
  <1>2. LoteSabe'
    BY <1>1, LoteEncolhe
  <1>3. EnvioSabe'
    <2>1. SUFFICES ASSUME fila.pc = "gravacao", NEW id \in lote, Primeira(id)
                   PROVE  /\ fila.cod = "ok" => hist'[linhas'[id].dono].recebidas > 0
                          /\ e_erro_definitivo(fila.cod) => hist'[linhas'[id].dono].recusada
                          /\ visto[id] < tentativas_max
                          /\ ~IdAlheio(id)' /\ fila.cod # "ok" /\ ~e_erro_sessao(fila.cod)
                               => visto[id] + 1 <= hist'[linhas'[id].dono].gastas
      BY <1>1 DEF EnvioSabe, Primeira
    <2>2. /\ fila.cod = "ok" => hist[linhas[id].dono].recebidas > 0
          /\ e_erro_definitivo(fila.cod) => hist[linhas[id].dono].recusada
          /\ visto[id] < tentativas_max
          /\ ~IdAlheio(id) /\ fila.cod # "ok" /\ ~e_erro_sessao(fila.cod)
               => visto[id] + 1 <= hist[linhas[id].dono].gastas
      BY <2>1, Zenon DEF FilaSabe, EnvioSabe
    <2>3. e_erro_definitivo(fila.cod) => hist'[linhas'[id].dono].recusada
      BY <2>2, RecusadaDoLote
    <2>4. fila.cod = "ok" => hist'[linhas'[id].dono].recebidas > 0
      BY <2>2, LinhaDoLote
    <2>5. ~IdAlheio(id)' /\ fila.cod # "ok" /\ ~e_erro_sessao(fila.cod)
            => visto[id] + 1 <= hist'[linhas'[id].dono].gastas
      BY <2>2, LinhaDoLote
    <2>6. QED
      BY <2>2, <2>3, <2>4, <2>5
  <1>4. DescarteSabe'
    <2>1. SUFFICES ASSUME fila.pc = "descarte", NEW id \in lote, Primeira(id)
                   PROVE  \/ hist'[linhas'[id].dono].recusada
                          \/ dia' - linhas'[id].criado > PrazoEspera
      BY <1>1 DEF DescarteSabe, Primeira
    <2>2. hist[linhas[id].dono].recusada \/ dia - linhas[id].criado > PrazoEspera
      BY <2>1, Zenon DEF FilaSabe, DescarteSabe
    <2>3. CASE hist[linhas[id].dono].recusada
      BY <2>3, RecusadaDoLote
    <2>4. CASE dia - linhas[id].criado > PrazoEspera
      BY <2>4, LinhaDoLote
    <2>5. QED
      BY <2>2, <2>3, <2>4
  <1>5. fila'.agora <= dia'
    BY <1>1 DEF FilaSabe, Avanca, TypeOK, TypeOKFila, Fila, TypeOKTransacoes
  <1>6. QED
    BY <1>1, <1>2, <1>3, <1>4, <1>5 DEF FilaSabe

(* The snapshot has one first row. *)
LEMMA PrimeiraUnica ==
  ASSUME TypeOK, NEW i \in Ids, NEW j \in Ids, Primeira(i), Primeira(j)
  PROVE  i = j
  BY DEF Primeira, Ids

(* Between two rows the queue holds nothing but the rest of its snapshot. *)
LEMMA FilaEntreLinhas ==
  ASSUME TypeOK, TypeOK', DonosCertos, FilaSabe, Avanca,
         lote' \subseteq lote, \A id \in lote' : visto'[id] = visto[id],
         fila'.pc = "lote", fila'.agora = fila.agora \/ fila'.agora = dia
  PROVE  FilaSabe'
  <1>1. LoteSabe'
    BY LoteEncolhe
  <1>2. EnvioSabe' /\ DescarteSabe'
    BY DEF EnvioSabe, DescarteSabe
  <1>3. fila'.agora <= dia'
    BY DEF FilaSabe, Avanca, TypeOK, TypeOKFila, Fila, TypeOKTransacoes
  <1>4. QED
    BY <1>1, <1>2, <1>3 DEF FilaSabe

(* Going on to the next row keeps what the queue knows. *)
LEMMA FilaSegue ==
  ASSUME TypeOK, TypeOK', DonosCertos, FilaSabe, Avanca, NEW id \in Ids, Seguir(id)
  PROVE  FilaSabe'
  <1>1. lote' \subseteq lote /\ \A j \in lote' : visto'[j] = visto[j]
    BY DEF Seguir, TypeOK, TypeOKFila
  <1>2. fila'.pc = "lote" /\ fila'.agora = fila.agora
    BY DEF Seguir, TypeOK, TypeOKFila, Fila
  <1>3. QED
    BY <1>1, <1>2, FilaEntreLinhas

(* Going on to the second write of a discard. *)
LEMMA FilaDescarta ==
  ASSUME TypeOK, TypeOK', DonosCertos, FilaSabe, Avanca, NEW id \in Ids, Primeira(id),
         fila' = [fila EXCEPT !.pc = "descarte"], UNCHANGED <<lote, visto>>,
         \/ hist[linhas[id].dono].recusada
         \/ dia - linhas[id].criado > PrazoEspera
  PROVE  FilaSabe'
  <1>1. LoteSabe'
    BY LoteEncolhe
  <1>2. fila'.pc = "descarte" /\ fila'.agora = fila.agora
    BY DEF TypeOK, TypeOKFila, Fila
  <1>3. EnvioSabe'
    BY <1>2 DEF EnvioSabe
  <1>4. DescarteSabe'
    <2>1. SUFFICES ASSUME NEW j \in lote, Primeira(j)
                   PROVE  \/ hist'[linhas'[j].dono].recusada
                          \/ dia' - linhas'[j].criado > PrazoEspera
      BY DEF DescarteSabe, Primeira
    <2>2. j = id
      BY <2>1, PrimeiraUnica DEF TypeOK, TypeOKFila
    <2>3. CASE hist[linhas[id].dono].recusada
      BY <2>2, <2>3, RecusadaDoLote
    <2>4. CASE dia - linhas[id].criado > PrazoEspera
      BY <2>2, <2>4, LinhaDoLote
    <2>5. QED
      BY <2>3, <2>4
  <1>5. fila'.agora <= dia'
    BY <1>2 DEF FilaSabe, Avanca, TypeOK, TypeOKFila, Fila, TypeOKTransacoes
  <1>6. QED
    BY <1>1, <1>2, <1>3, <1>4, <1>5 DEF FilaSabe

(* Every step of the queue keeps what it knows true. *)
LEMMA FilaSabePasso ==
  ASSUME TypeOK, TypeOK', DonosCertos, FilaSabe, TentativasSaoFalhas, Avanca,
         PassoFila, UNCHANGED rem
  PROVE  FilaSabe'
  <1>1. CASE IniciarCiclo
    <2>1. /\ lote' = Pendentes /\ fila'.pc = "saude" /\ fila'.agora = fila.agora
          /\ UNCHANGED <<linhas, hist, prox, dia>>
          /\ \A id \in lote' : id \in Ids /\ visto'[id] = linhas[id].tentativas
      BY <1>1 DEF IniciarCiclo, Mantem, Pendentes, TypeOK, TypeOKFila, Fila
    <2>2. \A id \in lote' : id \in Ids /\ linhas[id].estado # "ausente"
      BY <2>1 DEF Pendentes, Abertas
    <2>3. \A id \in lote' : id < prox /\ linhas[id].dono \in Envios
      BY <2>1, <2>2 DEF DonosCertos, LinhasComDono, Ids, TypeOK, TypeOKTransacoes
    <2>4. LoteSabe'
      <3>1. SUFFICES ASSUME NEW id \in lote'
                     PROVE  /\ id < prox'
                            /\ ~IdAlheio(id)' =>
                                 /\ visto'[id] <= tentativas_max
                                 /\ visto'[id] <= hist'[linhas'[id].dono].gastas
        BY DEF LoteSabe
      <3>2. IdAlheio(id)' <=> IdAlheio(id)
        BY DEF IdAlheio
      <3>3. linhas[id].dono # Ninguem
        BY <2>3
      <3>4. ~IdAlheio(id) => /\ linhas[id].tentativas <= tentativas_max
                             /\ linhas[id].tentativas <= hist[linhas[id].dono].gastas
        BY <2>2, <3>3 DEF TentativasSaoFalhas
      <3>5. QED
        BY <2>1, <2>3, <3>2, <3>4
    <2>5. EnvioSabe' /\ DescarteSabe'
      BY <2>1 DEF EnvioSabe, DescarteSabe
    <2>6. QED
      BY <2>1, <2>4, <2>5 DEF FilaSabe
  <1>2. CASE ConsultarPonte
    <2>1. /\ UNCHANGED lote /\ UNCHANGED visto
          /\ fila'.pc = "lote" /\ fila'.agora = dia
      BY <1>2 DEF ConsultarPonte, TypeOK, TypeOKFila, Fila
    <2>2. QED
      BY <2>1, FilaEntreLinhas
  <1>3. CASE TerminarCiclo
    <2>1. lote' = {} /\ fila'.pc = "ociosa" /\ fila'.agora = 0
      BY <1>3 DEF TerminarCiclo, FilaOciosa
    <2>2. LoteSabe' /\ EnvioSabe' /\ DescarteSabe'
      BY <2>1 DEF LoteSabe, EnvioSabe, DescarteSabe
    <2>3. QED
      BY <2>1, <2>2 DEF FilaSabe, TypeOK, TypeOKTransacoes
  <1>4. ASSUME NEW id \in Ids, Seguir(id)
        PROVE  FilaSabe'
    BY <1>4, FilaSegue
  <1>5. ASSUME NEW id \in Ids, VencerPrazo(id)
        PROVE  FilaSabe'
    <2>1. dia - linhas[id].criado > PrazoEspera
      BY <1>5 DEF VencerPrazo, FilaSabe, TypeOK, TypeOKFila, Fila, TypeOKTransacoes, Linha
    <2>2. QED
      BY <1>5, <2>1, FilaDescarta DEF VencerPrazo
  <1>6. ASSUME NEW id \in Ids, GravarReenvio(id)
        PROVE  FilaSabe'
    <2>1. CASE Seguir(id)
      BY <1>4, <2>1
    <2>2. CASE ~Seguir(id)
      <3>1. /\ fila.pc = "gravacao" /\ Primeira(id) /\ e_erro_definitivo(fila.cod)
            /\ fila' = [fila EXCEPT !.pc = "descarte"] /\ UNCHANGED <<lote, visto>>
        BY <1>6, <2>2 DEF GravarReenvio
      <3>2. id \in lote
        BY <3>1 DEF Primeira
      <3>3. hist[linhas[id].dono].recusada
        BY <3>1, <3>2, Zenon DEF FilaSabe, EnvioSabe
      <3>4. QED
        BY <3>1, <3>3, FilaDescarta
    <2>3. QED
      BY <2>1, <2>2
  <1>7. ASSUME NEW id \in Ids, Reenviar(id)
        PROVE  FilaSabe'
    <2>1. PICK cod \in Codigos, chegou \in BOOLEAN :
            /\ enviar(linhas[id].dono, cod, chegou)
            /\ fila' = [fila EXCEPT !.pc = "gravacao", !.cod = cod]
      BY <1>7 DEF Reenviar
    <2>2. /\ Primeira(id) /\ id \in lote /\ visto[id] < tentativas_max
          /\ UNCHANGED linhas /\ UNCHANGED lote /\ UNCHANGED visto /\ UNCHANGED dia
      BY <1>7 DEF Reenviar, Primeira
    <2>3. fila'.pc = "gravacao" /\ fila'.cod = cod /\ fila'.agora = fila.agora
      BY <2>1 DEF TypeOK, TypeOKFila, Fila
    <2>4. linhas[id].dono \in Envios
      BY <2>2, LinhaDoLote
    <2>5. /\ cod = "ok" => hist'[linhas[id].dono].recebidas > 0
          /\ e_erro_definitivo(cod) => hist'[linhas[id].dono].recusada
          /\ cod # "ok" /\ ~e_erro_sessao(cod)
               => hist'[linhas[id].dono].gastas = hist[linhas[id].dono].gastas + 1
      BY <2>1, <2>4, EfeitoEnviar
    <2>6. LoteSabe'
      BY <2>2, LoteEncolhe
    <2>7. DescarteSabe'
      BY <2>3 DEF DescarteSabe
    <2>8. EnvioSabe'
      <3>1. ~IdAlheio(id) /\ cod # "ok" /\ ~e_erro_sessao(cod)
              => visto[id] + 1 <= hist'[linhas[id].dono].gastas
        BY <2>2, <2>5, LinhaDoLote DEF FilaSabe, LoteSabe
      <3>2. IdAlheio(id)' <=> IdAlheio(id)
        BY DEF IdAlheio
      <3>3. \A j \in lote : Primeira(j) => j = id
        BY <2>2, PrimeiraUnica DEF TypeOK, TypeOKFila
      <3>4. SUFFICES ASSUME NEW j \in lote', Primeira(j)'
                     PROVE  /\ fila'.cod = "ok" => hist'[linhas'[j].dono].recebidas > 0
                            /\ e_erro_definitivo(fila'.cod)
                                 => hist'[linhas'[j].dono].recusada
                            /\ visto'[j] < tentativas_max
                            /\ ~IdAlheio(j)' /\ fila'.cod # "ok" /\ ~e_erro_sessao(fila'.cod)
                                 => visto'[j] + 1 <= hist'[linhas'[j].dono].gastas
        BY Zenon DEF EnvioSabe
      <3>5. j = id
        BY <2>2, <3>3, <3>4 DEF Primeira
      <3>6. QED
        BY <2>2, <2>3, <2>5, <3>1, <3>2, <3>5
    <2>9. fila'.agora <= dia'
      BY <2>2, <2>3 DEF FilaSabe
    <2>10. QED
      BY <2>3, <2>6, <2>7, <2>8, <2>9 DEF FilaSabe
  <1>8. QED
    BY <1>1, <1>2, <1>3, <1>4, <1>5, <1>6, <1>7 DEF PassoFila, Aguardar, Esgotar, Descartar

---------------------------------------------------------------------------
(* Every row tells the truth about its reply. *)

Justa(l, h, hoje) ==
  /\ l.estado = "entregue" => h.recebidas > 0
  /\ l.estado = "descartada" => \/ h.recusada
                                \/ h.gastas >= tentativas_max
                                \/ hoje - l.criado > PrazoEspera
  /\ l.tentativas <= tentativas_max
  /\ l.tentativas <= h.gastas

LinhasJustas ==
  \A id \in Ids : id < prox /\ ~IdAlheio(id) =>
    Justa(linhas[id], hist[linhas[id].dono], dia)

(* The three properties are one statement about each row. *)
LEMMA JustasSeETudo ==
  ASSUME TypeOK, DonosCertos
  PROVE  LinhasJustas <=> EntregueFoiRecebida /\ DescarteTemCausa /\ TentativasSaoFalhas
  <1>1. \A id \in Ids : /\ linhas[id].dono # Ninguem <=> id < prox
                        /\ linhas[id].estado # "ausente" => id < prox
    BY DEF DonosCertos, LinhasComDono, TypeOK, TypeOKTransacoes, Linha, Ids
  <1>2. ASSUME LinhasJustas
        PROVE  EntregueFoiRecebida /\ DescarteTemCausa /\ TentativasSaoFalhas
    BY <1>1, <1>2, Zenon
       DEF LinhasJustas, Justa, EntregueFoiRecebida, DescarteTemCausa, TentativasSaoFalhas
  <1>3. ASSUME EntregueFoiRecebida, DescarteTemCausa, TentativasSaoFalhas
        PROVE  LinhasJustas
    BY <1>1, <1>3, Zenon
       DEF LinhasJustas, Justa, EntregueFoiRecebida, DescarteTemCausa, TentativasSaoFalhas
  <1>4. QED
    BY <1>2, <1>3

(* What makes a row truthful stays; a deleted row claims nothing. *)
LEMMA JustaSempre ==
  ASSUME TypeOK, TypeOK', DonosCertos, Avanca, NEW id \in Ids, id < prox,
         Justa(linhas[id], hist[linhas[id].dono], dia)
  PROVE  /\ Justa(linhas[id], hist'[linhas[id].dono], dia')
         /\ \A l \in Linha : /\ l.estado \in {"ausente", "falha"}
                             /\ l.tentativas = linhas[id].tentativas
                             => Justa(l, hist'[linhas[id].dono], dia')
  <1>1. linhas[id].dono \in Envios
    BY DEF DonosCertos, LinhasComDono
  <1>2. /\ hist'[linhas[id].dono].recebidas >= hist[linhas[id].dono].recebidas
        /\ hist'[linhas[id].dono].gastas >= hist[linhas[id].dono].gastas
        /\ hist[linhas[id].dono].recebidas \in Nat /\ hist'[linhas[id].dono].recebidas \in Nat
        /\ hist[linhas[id].dono].gastas \in Nat /\ hist'[linhas[id].dono].gastas \in Nat
    BY <1>1 DEF Avanca, MesmaHistoria, TypeOK, TypeOKCanal, Historia
  <1>3. /\ dia \in Nat /\ dia' \in Nat /\ dia' >= dia
        /\ linhas[id].criado \in Nat /\ linhas[id].tentativas \in Nat
    BY DEF Avanca, TypeOK, TypeOKTransacoes, Linha
  <1>4. hist[linhas[id].dono].recusada => hist'[linhas[id].dono].recusada
    BY <1>1 DEF Avanca, MesmaHistoria
  <1>5. linhas[id].tentativas <= tentativas_max
        /\ linhas[id].tentativas <= hist[linhas[id].dono].gastas
    BY Zenon DEF Justa
  <1>6. linhas[id].tentativas <= hist'[linhas[id].dono].gastas
    BY <1>2, <1>3, <1>5
  <1>7. linhas[id].estado = "entregue" => hist'[linhas[id].dono].recebidas > 0
    <2>1. linhas[id].estado = "entregue" => hist[linhas[id].dono].recebidas > 0
      BY Zenon DEF Justa
    <2>2. QED
      BY <1>2, <2>1
  <1>8. /\ hist[linhas[id].dono].gastas >= tentativas_max
             => hist'[linhas[id].dono].gastas >= tentativas_max
        /\ dia - linhas[id].criado > PrazoEspera => dia' - linhas[id].criado > PrazoEspera
    BY <1>2, <1>3
  <1>9. Justa(linhas[id], hist'[linhas[id].dono], dia')
    BY <1>4, <1>5, <1>6, <1>7, <1>8, Zenon DEF Justa
  <1>10. ASSUME NEW l \in Linha, l.estado \in {"ausente", "falha"},
                l.tentativas = linhas[id].tentativas
         PROVE  Justa(l, hist'[linhas[id].dono], dia')
    <2>1. l.estado # "entregue" /\ l.estado # "descartada"
      BY <1>10
    <2>2. QED
      BY <1>5, <1>6, <1>10, <2>1, Zenon DEF Justa
  <1>11. QED
    BY <1>9, <1>10

(* A row that the step leaves as it was. *)
LEMMA JustaParada ==
  ASSUME TypeOK, TypeOK', DonosCertos, LinhasJustas, Avanca, NEW id \in Ids, id < prox,
         ~IdAlheio(id)', linhas'[id] = linhas[id]
  PROVE  Justa(linhas'[id], hist'[linhas'[id].dono], dia')
  <1>1. ~IdAlheio(id)
    BY DEF Avanca
  <1>2. Justa(linhas[id], hist[linhas[id].dono], dia)
    BY <1>1 DEF LinhasJustas
  <1>3. QED
    BY <1>2, JustaSempre

(* The two kinds of UPDATE and what makes each of them truthful. *)
LEMMA JustaComErro ==
  ASSUME NEW l \in Linha, NEW h \in Historia, NEW d, NEW n \in Nat,
         n <= tentativas_max, n <= h.gastas
  PROVE  Justa([l EXCEPT !.estado = "falha", !.tentativas = n], h, d)
  <1> DEFINE m == [l EXCEPT !.estado = "falha", !.tentativas = n]
  <1>1. m.estado = "falha" /\ m.tentativas = n
    BY DEF Linha
  <1>2. m.estado # "entregue" /\ m.estado # "descartada"
    BY <1>1
  <1> HIDE DEF m
  <1>3. Justa(m, h, d)
    BY <1>1, <1>2, Zenon DEF Justa
  <1>4. QED
    BY <1>3 DEF m

(* A new state of a row is just if its cause is there. *)
LEMMA JustaComEstado ==
  ASSUME NEW l \in Linha, NEW h, NEW d, NEW novo, Justa(l, h, d),
         novo = "entregue" => h.recebidas > 0,
         novo = "descartada" => \/ h.recusada
                                \/ h.gastas >= tentativas_max
                                \/ d - l.criado > PrazoEspera
  PROVE  Justa([l EXCEPT !.estado = novo], h, d)
  <1> DEFINE m == [l EXCEPT !.estado = novo]
  <1>1. m.estado = novo /\ m.tentativas = l.tentativas /\ m.criado = l.criado
    BY DEF Linha
  <1> HIDE DEF m
  <1>2. Justa(m, h, d)
    BY <1>1, Zenon DEF Justa
  <1>3. QED
    BY <1>2 DEF m

(* Every step of a handler keeps the rows just. *)
LEMMA JustasRemetente ==
  ASSUME TypeOK, TypeOK', DonosCertos, RemetenteSabe, LinhasJustas, Avanca,
         NEW e \in Envios, PassoRemetente(e) \/ MatarTratador(e)
  PROVE  LinhasJustas'
  <1>1. SUFFICES ASSUME NEW id \in Ids, id < prox', ~IdAlheio(id)'
                 PROVE  Justa(linhas'[id], hist'[linhas'[id].dono], dia')
    BY DEF LinhasJustas
  <1>2. CASE linhas'[id] = linhas[id] /\ id < prox
    BY <1>1, <1>2, JustaParada
  <1>3. CASE Inserir(e)
    <2>1. CASE id # prox
      <3>1. linhas'[id] = linhas[id]
        BY <1>3, <2>1 DEF Inserir, TypeOK, TypeOKTransacoes
      <3>2. id < prox
        BY <1>1, <1>3, <2>1 DEF Inserir, TypeOK, TypeOKTransacoes, Ids
      <3>3. QED
        BY <1>2, <3>1, <3>2
    <2>2. CASE id = prox
      <3>1. /\ linhas'[id].estado = "pendente" /\ linhas'[id].tentativas = 0
            /\ linhas'[id].dono = e
        BY <1>3, <2>2 DEF Inserir, TypeOK, TypeOKTransacoes
      <3>2. linhas'[id].estado # "entregue" /\ linhas'[id].estado # "descartada"
        BY <3>1
      <3>3. linhas'[id].tentativas <= tentativas_max
            /\ linhas'[id].tentativas <= hist'[linhas'[id].dono].gastas
        BY <3>1 DEF TypeOK, TypeOKCanal, Historia
      <3>4. QED
        BY <3>2, <3>3, Zenon DEF Justa
    <2>3. QED
      BY <2>1, <2>2
  <1>4. ASSUME UNCHANGED <<hist, dia, prox>>, rem[e].id = id, linhas'[id] # linhas[id],
               TabelaFica
        PROVE  /\ linhas[id] \in Linha /\ linhas'[id].dono = e
               /\ linhas[id].dono = e /\ hist[e] \in Historia /\ hist'[e] = hist[e]
               /\ Justa(linhas[id], hist[e], dia)
    <2>1. rem'[e].id = id /\ rem'[e].linha = rem[e].linha
      BY <1>4, RemetenteFica DEF Ids
    <2>2. rem[e].linha = id
      BY <1>1, <2>1 DEF IdAlheio
    <2>3. linhas[id].dono = e
      BY <2>2 DEF DonosCertos, ChamadasComLinha, Ids
    <2>4. Justa(linhas[id], hist[e], dia)
      BY <1>1, <1>4, <2>3 DEF LinhasJustas, Avanca
    <2>5. QED
      BY <1>4, <2>3, <2>4 DEF TabelaFica, TypeOK, TypeOKTransacoes, TypeOKCanal
  <1>5. CASE GravarResultado(e) /\ linhas'[id] # linhas[id]
    <2>1. TabelaFica /\ UNCHANGED <<hist, dia, prox>>
      <3>1. ~RegistrarInsert(e)
        BY <1>5 DEF GravarResultado, RegistrarInsert
      <3>2. QED
        BY <1>5, <3>1, TabelaRemetente DEF GravarResultado
    <2>2. rem[e].pc = "gravacao"
      BY <1>5 DEF GravarResultado
    <2>3. CASE rem[e].cod = "ok" /\ marcar_entregue(rem[e].id)
      <3>1. rem[e].id = id /\ linhas'[id] = [linhas[id] EXCEPT !.estado = "entregue"]
        BY <1>5, <2>3, EfeitoEstado DEF marcar_entregue, Estados, Fechadas
      <3>2. hist[e].recebidas > 0
        BY <2>2, <2>3, Zenon DEF RemetenteSabe
      <3>3. "entregue" # "descartada"
        OBVIOUS
      <3>4. /\ linhas[id] \in Linha /\ Justa(linhas[id], hist[e], dia)
            /\ hist'[linhas'[id].dono] = hist[e] /\ dia' = dia
        BY <1>4, <1>5, <2>1, <3>1
      <3>5. Justa([linhas[id] EXCEPT !.estado = "entregue"], hist[e], dia)
        BY <3>2, <3>3, <3>4, JustaComEstado
      <3>6. QED
        BY <3>1, <3>4, <3>5
    <2>4. ASSUME NEW n \in Nat, n <= tentativas_max, n <= hist[e].gastas,
                 atualizar_erro(rem[e].id, n)
          PROVE  Justa(linhas'[id], hist'[linhas'[id].dono], dia')
      <3>1. /\ rem[e].id = id
            /\ linhas'[id] = [linhas[id] EXCEPT !.estado = "falha", !.tentativas = n]
        <4>1. Gravar(ComErro(rem[e].id, n))
          BY <2>4 DEF atualizar_erro
        <4>2. \/ linhas'[id] = linhas[id]
              \/ id = rem[e].id /\ Existe(id)
                  /\ linhas'[id] = [linhas[id] EXCEPT !.estado = "falha", !.tentativas = n]
          BY <4>1, EfeitoErro, Zenon
        <4>3. QED
          BY <1>5, <4>2, Zenon
      <3>2. /\ linhas[id] \in Linha /\ hist[e] \in Historia
            /\ hist'[linhas'[id].dono] = hist[e]
        BY <1>4, <1>5, <2>1, <3>1
      <3>3. Justa([linhas[id] EXCEPT !.estado = "falha", !.tentativas = n], hist[e], dia')
        BY <2>4, <3>2, JustaComErro
      <3>4. QED
        BY <3>1, <3>2, <3>3
    <2>5. hist[e].gastas \in Nat
      BY DEF TypeOK, TypeOKCanal, Historia
    <2>6. CASE atualizar_erro(rem[e].id, 0)
      BY <2>4, <2>5, <2>6
    <2>7. CASE rem[e].cod # "ok" /\ ~e_erro_sessao(rem[e].cod) /\ atualizar_erro(rem[e].id, 1)
      <3>1. hist[e].gastas >= 1
        BY <2>2, <2>7, Zenon DEF RemetenteSabe
      <3>2. 1 \in Nat /\ 1 <= tentativas_max /\ 1 <= hist[e].gastas
        BY <2>5, <3>1
      <3>3. QED
        BY <2>4, <2>7, <3>2
    <2>8. rem[e].cod = "ok" => ~e_erro_definitivo(rem[e].cod)
      OBVIOUS
    <2>9. QED
      BY <1>5, <2>3, <2>6, <2>7, <2>8 DEF GravarResultado
  <1>6. CASE DescartarResposta(e) /\ linhas'[id] # linhas[id]
    <2>1. TabelaFica /\ UNCHANGED <<hist, dia, prox>>
      <3>1. ~RegistrarInsert(e)
        BY <1>6 DEF DescartarResposta, RegistrarInsert
      <3>2. QED
        BY <1>6, <3>1, TabelaRemetente DEF DescartarResposta
    <2>2. rem[e].id = id /\ linhas'[id] = [linhas[id] EXCEPT !.estado = "descartada"]
      BY <1>6, EfeitoEstado DEF DescartarResposta, atualizar_status, Estados, Fechadas
    <2>3. hist[e].recusada
      BY <1>6, Zenon DEF DescartarResposta, RemetenteSabe
    <2>4. "entregue" # "descartada"
      OBVIOUS
    <2>5. /\ linhas[id] \in Linha /\ Justa(linhas[id], hist[e], dia)
          /\ hist'[linhas'[id].dono] = hist[e] /\ dia' = dia
      BY <1>4, <1>6, <2>1, <2>2
    <2>6. Justa([linhas[id] EXCEPT !.estado = "descartada"], hist[e], dia)
      BY <2>3, <2>4, <2>5, JustaComEstado
    <2>7. QED
      BY <2>2, <2>5, <2>6
  <1>7. CASE linhas' = linhas /\ ~Inserir(e)
    <2>1. UNCHANGED prox
      BY <1>7, TabelaRemetente
    <2>2. QED
      BY <1>1, <1>2, <1>7, <2>1
  <1>8. CASE (GravarResultado(e) \/ DescartarResposta(e)) /\ linhas'[id] = linhas[id]
    BY <1>1, <1>2, <1>8 DEF GravarResultado, DescartarResposta
  <1>9. QED
    BY <1>3, <1>5, <1>6, <1>7, <1>8 DEF PassoRemetente, RegistrarInsert, RegistrarLerId,
       EnviarResposta, MatarTratador

(* Every step of the queue keeps the rows just. *)
LEMMA JustasFila ==
  ASSUME TypeOK, TypeOK', DonosCertos, FilaSabe, LinhasJustas, Avanca, PassoFila, UNCHANGED rem
  PROVE  LinhasJustas'
  <1>1. TabelaFica /\ UNCHANGED <<prox, dia>>
    BY TabelaFila
  <1>2. SUFFICES ASSUME NEW id \in Ids, id < prox, ~IdAlheio(id)'
                 PROVE  Justa(linhas'[id], hist'[linhas'[id].dono], dia')
    BY <1>1 DEF LinhasJustas
  <1>3. CASE linhas'[id] = linhas[id]
    BY <1>2, <1>3, JustaParada
  <1>4. ~IdAlheio(id)
    BY <1>2 DEF Avanca
  <1>5. /\ linhas[id] \in Linha /\ linhas[id].dono \in Envios
        /\ linhas'[id].dono = linhas[id].dono
        /\ hist[linhas[id].dono] \in Historia /\ visto[id] \in Nat
    BY <1>1, <1>2 DEF TabelaFica, DonosCertos, LinhasComDono, TypeOK, TypeOKTransacoes,
       TypeOKCanal, TypeOKFila
  <1>6. Justa(linhas[id], hist[linhas[id].dono], dia)
    BY <1>2, <1>4 DEF LinhasJustas
  <1>7. id \in lote => visto[id] <= tentativas_max /\ visto[id] <= hist[linhas[id].dono].gastas
    BY <1>4 DEF FilaSabe, LoteSabe
  <1>8. ASSUME NEW n \in Nat, n <= tentativas_max, n <= hist[linhas[id].dono].gastas,
               linhas'[id] = [linhas[id] EXCEPT !.estado = "falha", !.tentativas = n],
               UNCHANGED hist
        PROVE  Justa(linhas'[id], hist'[linhas'[id].dono], dia')
    <2>1. Justa([linhas[id] EXCEPT !.estado = "falha", !.tentativas = n],
                hist[linhas[id].dono], dia')
      BY <1>5, <1>8, JustaComErro
    <2>2. QED
      BY <1>5, <1>8, <2>1
  <1>9. ASSUME NEW novo \in Estados,
               novo = "entregue" => hist[linhas[id].dono].recebidas > 0,
               novo = "descartada" => \/ hist[linhas[id].dono].recusada
                                      \/ hist[linhas[id].dono].gastas >= tentativas_max
                                      \/ dia - linhas[id].criado > PrazoEspera,
               linhas'[id] = [linhas[id] EXCEPT !.estado = novo], UNCHANGED hist
        PROVE  Justa(linhas'[id], hist'[linhas'[id].dono], dia')
    <2>1. Justa([linhas[id] EXCEPT !.estado = novo], hist[linhas[id].dono], dia)
      BY <1>5, <1>6, <1>9, JustaComEstado
    <2>2. QED
      BY <1>1, <1>5, <1>9, <2>1
  <1>10. ASSUME NEW j \in Ids, NEW n \in Nat, j \in lote, UNCHANGED hist,
                atualizar_erro(j, n),
                ~IdAlheio(j) => n <= tentativas_max /\ n <= hist[linhas[j].dono].gastas
         PROVE  Justa(linhas'[id], hist'[linhas'[id].dono], dia')
    <2>1. Gravar(ComErro(j, n))
      BY <1>10 DEF atualizar_erro
    <2>2. \/ linhas'[id] = linhas[id]
          \/ id = j /\ Existe(id)
             /\ linhas'[id] = [linhas[id] EXCEPT !.estado = "falha", !.tentativas = n]
      BY <2>1, EfeitoErro, Zenon
    <2>3. CASE id = j /\ linhas'[id] = [linhas[id] EXCEPT !.estado = "falha", !.tentativas = n]
      BY <1>4, <1>8, <1>10, <2>3
    <2>4. QED
      BY <1>3, <2>2, <2>3, Zenon
  <1>11. ASSUME NEW j \in Ids, j \in lote, UNCHANGED hist, NEW novo \in Estados,
                Gravar(ComEstado(j, novo)),
                novo = "entregue" => hist[linhas[j].dono].recebidas > 0,
                novo = "descartada" /\ ~IdAlheio(j)
                  => \/ hist[linhas[j].dono].recusada
                     \/ hist[linhas[j].dono].gastas >= tentativas_max
                     \/ dia - linhas[j].criado > PrazoEspera
         PROVE  Justa(linhas'[id], hist'[linhas'[id].dono], dia')
    <2>1. \/ linhas'[id] = linhas[id]
          \/ id = j /\ Existe(id) /\ linhas'[id] = [linhas[id] EXCEPT !.estado = novo]
      BY <1>11, EfeitoEstado, Zenon
    <2>2. CASE id = j /\ linhas'[id] = [linhas[id] EXCEPT !.estado = novo]
      BY <1>4, <1>9, <1>11, <2>2, Zenon
    <2>3. QED
      BY <1>3, <2>1, <2>2, Zenon
  <1>12. ASSUME NEW j \in Ids, VencerPrazo(j)
         PROVE  Justa(linhas'[id], hist'[linhas'[id].dono], dia')
    <2>1. j \in lote /\ UNCHANGED hist /\ atualizar_erro(j, visto[j])
      BY <1>12 DEF VencerPrazo, Primeira
    <2>2. visto[j] \in Nat
      BY DEF TypeOK, TypeOKFila
    <2>3. ~IdAlheio(j) => visto[j] <= tentativas_max /\ visto[j] <= hist[linhas[j].dono].gastas
      BY <2>1 DEF FilaSabe, LoteSabe
    <2>4. QED
      BY <1>10, <2>1, <2>2, <2>3
  <1>13. ASSUME NEW j \in Ids, Esgotar(j)
         PROVE  Justa(linhas'[id], hist'[linhas'[id].dono], dia')
    <2>1. /\ j \in lote /\ UNCHANGED hist /\ visto[j] >= tentativas_max
          /\ Gravar(ComEstado(j, "descartada"))
      BY <1>13 DEF Esgotar, Primeira, atualizar_status
    <2>2. hist[linhas[j].dono].gastas \in Nat /\ visto[j] \in Nat
      BY <2>1, LinhaDoLote
    <2>3. ~IdAlheio(j) => hist[linhas[j].dono].gastas >= tentativas_max
      BY <2>1, <2>2 DEF FilaSabe, LoteSabe
    <2>4. QED
      BY <1>11, <2>1, <2>3 DEF Estados, Fechadas
  <1>14. ASSUME NEW j \in Ids, Descartar(j)
         PROVE  Justa(linhas'[id], hist'[linhas'[id].dono], dia')
    <2>1. /\ j \in lote /\ Primeira(j) /\ fila.pc = "descarte" /\ UNCHANGED hist
          /\ Gravar(ComEstado(j, "descartada"))
      BY <1>14 DEF Descartar, Primeira, atualizar_status
    <2>2. hist[linhas[j].dono].recusada \/ dia - linhas[j].criado > PrazoEspera
      BY <2>1, Zenon DEF FilaSabe, DescarteSabe
    <2>3. QED
      BY <1>11, <2>1, <2>2 DEF Estados, Fechadas
  <1>15. ASSUME NEW j \in Ids, GravarReenvio(j)
         PROVE  Justa(linhas'[id], hist'[linhas'[id].dono], dia')
    <2>1. j \in lote /\ Primeira(j) /\ fila.pc = "gravacao" /\ UNCHANGED hist
      BY <1>15 DEF GravarReenvio, Primeira
    <2>2. /\ visto[j] \in Nat /\ visto[j] + 1 \in Nat
          /\ hist[linhas[j].dono].gastas \in Nat
      BY <2>1, LinhaDoLote
    <2>3. /\ fila.cod = "ok" => hist[linhas[j].dono].recebidas > 0
          /\ visto[j] < tentativas_max
          /\ ~IdAlheio(j) /\ fila.cod # "ok" /\ ~e_erro_sessao(fila.cod)
               => visto[j] + 1 <= hist[linhas[j].dono].gastas
      BY <2>1, Zenon DEF FilaSabe, EnvioSabe
    <2>4. CASE fila.cod = "ok" /\ marcar_entregue(j)
      BY <1>11, <2>1, <2>3, <2>4 DEF marcar_entregue, Estados, Fechadas
    <2>5. CASE atualizar_erro(j, visto[j])
      <3>1. ~IdAlheio(j) => /\ visto[j] <= tentativas_max
                            /\ visto[j] <= hist[linhas[j].dono].gastas
        BY <2>1 DEF FilaSabe, LoteSabe
      <3>2. QED
        BY <1>10, <2>1, <2>2, <2>5, <3>1
    <2>6. CASE fila.cod # "ok" /\ ~e_erro_sessao(fila.cod) /\ atualizar_erro(j, visto[j] + 1)
      <3>1. ~IdAlheio(j) => /\ visto[j] + 1 <= tentativas_max
                            /\ visto[j] + 1 <= hist[linhas[j].dono].gastas
        BY <2>2, <2>3, <2>6
      <3>2. QED
        BY <1>10, <2>1, <2>2, <2>6, <3>1
    <2>7. fila.cod = "ok" => ~e_erro_definitivo(fila.cod)
      OBVIOUS
    <2>8. QED
      BY <1>15, <2>4, <2>5, <2>6, <2>7 DEF GravarReenvio
  <1>16. CASE UNCHANGED linhas
    BY <1>3, <1>16
  <1>17. QED
    BY <1>12, <1>13, <1>14, <1>15, <1>16 DEF PassoFila, IniciarCiclo, ConsultarPonte,
       TerminarCiclo, Aguardar, Reenviar

(* Every other step keeps the rows just. *)
LEMMA JustasResto ==
  ASSUME TypeOK, TypeOK', DonosCertos, LinhasJustas, Avanca,
         Manutencao \/ OutrasTabelas \/ Relogio \/ Ponte \/ Reiniciar \/ UNCHANGED vars
  PROVE  LinhasJustas'
  <1>1. SUFFICES ASSUME NEW id \in Ids, id < prox, ~IdAlheio(id)'
                 PROVE  Justa(linhas'[id], hist'[linhas'[id].dono], dia')
    BY TabelaResto DEF LinhasJustas
  <1>2. CASE linhas'[id] = linhas[id]
    BY <1>1, <1>2, JustaParada
  <1>3. CASE Manutencao /\ linhas'[id] # linhas[id]
    <2>1. /\ linhas'[id] \in Linha /\ linhas'[id].estado = "ausente"
          /\ linhas'[id].dono = linhas[id].dono
          /\ linhas'[id].tentativas = linhas[id].tentativas
      BY <1>3 DEF Manutencao, limpar_antigas, TypeOK, TypeOKTransacoes, Linha, Estados
    <2>2. Justa(linhas[id], hist[linhas[id].dono], dia)
      BY <1>1 DEF LinhasJustas, Avanca
    <2>3. QED
      BY <1>1, <2>1, <2>2, JustaSempre
  <1>4. QED
    BY <1>2, <1>3 DEF OutrasTabelas, InserirEmOutraTabela, Relogio, PassarDia, Ponte,
       Reiniciar, vars

---------------------------------------------------------------------------
(* The inductive invariant. *)

(* At the start nothing was sent or written. *)
LEMMA InvInicial == Init => IInv
  <1> SUFFICES ASSUME Init
               PROVE  IInv
    OBVIOUS
  <1>1. TypeOK
    BY TipoInicial
  <1>2. DonosCertos
    BY DEF Init, InitTransacoes, InitRemetente, DonosCertos, LinhasComDono,
       ChamadasComLinha, Ids
  <1>3. RemetenteSabe
    BY DEF Init, InitRemetente, RemetenteSabe
  <1>4. FilaSabe
    BY DEF Init, InitTransacoes, InitFila, FilaOciosa, FilaSabe, LoteSabe, EnvioSabe,
       DescarteSabe
  <1>5. EntregueFoiRecebida /\ DescarteTemCausa /\ TentativasSaoFalhas
    BY DEF Init, InitTransacoes, EntregueFoiRecebida, DescarteTemCausa, TentativasSaoFalhas
  <1>6. QED
    BY <1>1, <1>2, <1>3, <1>4, <1>5 DEF IInv

(* The invariant is inductive. *)
LEMMA InvPasso == IInv /\ [Next]_vars => IInv'
  <1> SUFFICES ASSUME IInv, [Next]_vars
               PROVE  IInv'
    OBVIOUS
  <1> USE DEF IInv
  <1>1. TypeOK'
    BY TipoPasso
  <1>2. DonosCertos'
    BY DonosPasso
  <1>3. RemetenteSabe'
    BY <1>1, RemetenteSabePasso
  <1>4. Avanca
    BY PassoAvanca
  <1>5. LinhasJustas
    BY JustasSeETudo
  <1>6. FilaSabe' /\ LinhasJustas'
    <2>1. CASE Remetentes
      BY <1>1, <1>4, <1>5, <2>1, FilaParada, JustasRemetente DEF Remetentes
    <2>2. CASE FilaAnda
      BY <1>1, <1>4, <1>5, <2>2, FilaSabePasso, JustasFila DEF FilaAnda
    <2>3. CASE Manutencao \/ OutrasTabelas \/ Relogio \/ Ponte \/ UNCHANGED vars
      <3>1. UNCHANGED varsFila
        BY <2>3 DEF Manutencao, OutrasTabelas, Relogio, Ponte, vars, varsFila
      <3>2. QED
        BY <1>1, <1>4, <1>5, <2>3, <3>1, FilaParada, JustasResto
    <2>4. CASE Reiniciar
      <3>1. lote' = {} /\ fila'.pc = "ociosa" /\ fila'.agora = 0
        BY <2>4 DEF Reiniciar, FilaOciosa
      <3>2. LoteSabe' /\ EnvioSabe' /\ DescarteSabe'
        BY <3>1 DEF LoteSabe, EnvioSabe, DescarteSabe
      <3>3. FilaSabe'
        BY <1>1, <3>1, <3>2 DEF FilaSabe, TypeOK, TypeOKTransacoes
      <3>4. QED
        BY <1>1, <1>4, <1>5, <2>4, <3>3, JustasResto
    <2>5. QED
      BY <2>1, <2>2, <2>3, <2>4 DEF Next
  <1>7. EntregueFoiRecebida' /\ DescarteTemCausa' /\ TentativasSaoFalhas'
    <2>1. TypeOK' /\ DonosCertos' =>
            (LinhasJustas' <=> EntregueFoiRecebida' /\ DescarteTemCausa' /\ TentativasSaoFalhas')
      BY JustasSeETudo, PTL
    <2>2. QED
      BY <1>1, <1>2, <1>6, <2>1
  <1>8. QED
    BY <1>1, <1>2, <1>3, <1>6, <1>7

(* The inductive invariant holds in every state. *)
THEOREM InvCorrect == Spec => []IInv
  <1>1. QED
    BY InvInicial, InvPasso, PTL DEF Spec

(* A row marked "entregue" is a reply its chat did receive. *)
THEOREM EntregueCorrect == Spec => []EntregueFoiRecebida
  <1>1. IInv => EntregueFoiRecebida
    BY DEF IInv
  <1>2. QED
    BY <1>1, InvCorrect, PTL

(* A reply is discarded only for a cause that the code names. *)
THEOREM DescarteCorrect == Spec => []DescarteTemCausa
  <1>1. IInv => DescarteTemCausa
    BY DEF IInv
  <1>2. QED
    BY <1>1, InvCorrect, PTL

(* The attempts a row counts happened, and never exceed the limit. *)
THEOREM TentativasCorrect == Spec => []TentativasSaoFalhas
  <1>1. IInv => TentativasSaoFalhas
    BY DEF IInv
  <1>2. QED
    BY <1>1, InvCorrect, PTL

---------------------------------------------------------------------------
(* How many times a reply is tried and received.  Its handler sends it at  *)
(* most once; the queue, only from a snapshot that had seen fewer than     *)
(* tentativas_max failures, or an open row.  What is counted is what the   *)
(* row says, what the handler did before its write, and what the queue has *)
(* sent and not written yet.                                               *)

Gasta(cod) == IF cod = "ok" \/ e_erro_sessao(cod) THEN 0 ELSE 1
Chega(cod) == IF cod = "ok" THEN 1 ELSE 0

AntesDoEnvio(r) == r.pc \in {"novo", "inserido", "envio"}

(* Failures of a handler that its row may not show: the one of its send    *)
(* until it writes; any number once its write put the counter back.        *)
FalhasProprias(r) ==
  IF AntesDoEnvio(r) THEN 0
  ELSE IF r.pc = "gravacao" THEN Gasta(r.cod) ELSE tentativas_max

(* Deliveries of a handler that leave its row open: that of its own send,  *)
(* or of the queue's send that its late write of an error overwrote.       *)
EntregasProprias(r) ==
  IF AntesDoEnvio(r) THEN 0
  ELSE IF r.pc = "gravacao" THEN Chega(r.cod) ELSE 1

(* The queue has row id at its step pc. *)
NaVez(pc, id) == fila.pc = pc /\ Primeira(id)

(* What the queue has sent of row id and not written. *)
EmVoo(id, n) == IF NaVez("gravacao", id) THEN n ELSE 0

Perdas == orcamento.avarias + orcamento.reinicios

FalhasDe(id) ==
  LET e == linhas[id].dono
      proprias == FalhasProprias(rem[e]) + Perdas
      voo == EmVoo(id, Gasta(fila.cod))
  IN /\ Existe(id) => hist[e].gastas <= proprias + linhas[id].tentativas + voo
     /\ id \in lote /\ ~NaVez("descarte", id) =>
          hist[e].gastas <= proprias + visto[id] + voo
     /\ hist[e].gastas <= proprias + tentativas_max

EntregasDe(id) ==
  LET e == linhas[id].dono
      proprias == EntregasProprias(rem[e]) + Perdas + orcamento.incertas
      voo == EmVoo(id, Chega(fila.cod))
  IN /\ linhas[id].estado \in Abertas => hist[e].recebidas <= proprias + voo
     /\ id \in lote => hist[e].recebidas <= proprias + voo
     /\ hist[e].recebidas <= proprias + 1

ContasDe(id) == FalhasDe(id) /\ EntregasDe(id)

Novas == \A e \in Envios :
           rem[e].pc = "novo" => hist[e].gastas = 0 /\ hist[e].recebidas = 0

Contas == Novas /\ \A id \in Ids : id < prox /\ ~IdAlheio(id) => ContasDe(id)

(* Every term of the accounts is a natural number. *)
LEMMA Parcelas ==
  ASSUME TypeOK, NEW id \in Ids, NEW e \in Envios
  PROVE  /\ hist[e].gastas \in Nat /\ hist[e].recebidas \in Nat
         /\ linhas[id].tentativas \in Nat /\ visto[id] \in Nat
         /\ FalhasProprias(rem[e]) \in Nat /\ EntregasProprias(rem[e]) \in Nat
         /\ Perdas \in Nat /\ orcamento.incertas \in Nat
         /\ Gasta(fila.cod) \in {0, 1} /\ Chega(fila.cod) \in {0, 1}
         /\ tentativas_max \in Nat /\ tentativas_max >= 1
  BY DEF TypeOK, TypeOKCanal, Historia, TypeOKTransacoes, Linha, TypeOKFila, FalhasProprias,
         EntregasProprias, Gasta, Chega, Perdas, Orcamento

(* A handler accounts for more as it goes on. *)
LEMMA ProprioCresce ==
  ASSUME NEW r, NEW s,
         \/ s = r
         \/ AntesDoEnvio(r)
         \/ ~AntesDoEnvio(s) /\ s.pc # "gravacao",
         FalhasProprias(s) \in Nat, EntregasProprias(s) \in Nat,
         FalhasProprias(r) \in Nat, EntregasProprias(r) \in Nat
  PROVE  FalhasProprias(s) >= FalhasProprias(r) /\ EntregasProprias(s) >= EntregasProprias(r)
  BY DEF FalhasProprias, EntregasProprias, Gasta, Chega

(* A step that neither sends reply e nor writes its counter nor takes its  *)
(* row into a snapshot.                                                    *)
Quieta(id, e) ==
  /\ hist'[e] = hist[e]
  /\ linhas'[id].dono = e /\ linhas'[id].tentativas = linhas[id].tentativas
  /\ Existe(id)' => Existe(id)
  /\ linhas'[id].estado \in Abertas => linhas[id].estado \in Abertas
  /\ \/ rem'[e] = rem[e]
     \/ AntesDoEnvio(rem[e])
     \/ ~AntesDoEnvio(rem'[e]) /\ rem'[e].pc # "gravacao"
  /\ Perdas' >= Perdas /\ orcamento'.incertas >= orcamento.incertas
  /\ id \in lote' => /\ id \in lote /\ visto'[id] = visto[id]
                     /\ NaVez("descarte", id) => NaVez("descarte", id)'
  /\ \/ /\ NaVez("gravacao", id)' <=> NaVez("gravacao", id)
        /\ NaVez("gravacao", id) => fila'.cod = fila.cod
     \/ ~NaVez("gravacao", id)' /\ Perdas' > Perdas

(* Such a step keeps the accounts of the row. *)
LEMMA ContasQuietas ==
  ASSUME TypeOK, TypeOK', NEW id \in Ids, NEW e \in Envios, linhas[id].dono = e,
         ContasDe(id), Quieta(id, e)
  PROVE  ContasDe(id)'
  <1> DEFINE g == hist[e].gastas
             r == hist[e].recebidas
             T == tentativas_max
             t == linhas[id].tentativas
             v == visto[id]
             b == FalhasProprias(rem[e])
             d == FalhasProprias(rem'[e])
             c == EntregasProprias(rem[e])
             q == EntregasProprias(rem'[e])
             m == EmVoo(id, Gasta(fila.cod))
             n == EmVoo(id, Gasta(fila.cod))'
             k == EmVoo(id, Chega(fila.cod))
             l == EmVoo(id, Chega(fila.cod))'
             F == Perdas
             G == Perdas'
             I == orcamento.incertas
             J == orcamento'.incertas
  <1>1. /\ g \in Nat /\ r \in Nat /\ T \in Nat /\ t \in Nat /\ v \in Nat /\ b \in Nat
        /\ c \in Nat /\ F \in Nat /\ I \in Nat /\ m \in {0, 1} /\ k \in {0, 1}
    BY Parcelas DEF EmVoo
  <1>2. d \in Nat /\ q \in Nat /\ G \in Nat /\ J \in Nat /\ n \in {0, 1} /\ l \in {0, 1}
    BY DEF TypeOK, TypeOKTransacoes, FalhasProprias, EntregasProprias, Gasta, Chega, Perdas,
           Orcamento, EmVoo
  <1>3. d >= b /\ q >= c /\ G >= F /\ J >= I
    BY <1>1, <1>2, ProprioCresce DEF Quieta
  <1>4. (n = m /\ l = k) \/ (n = 0 /\ l = 0 /\ G > F)
    BY DEF Quieta, EmVoo
  <1>5. /\ hist'[linhas'[id].dono].gastas = g /\ hist'[linhas'[id].dono].recebidas = r
        /\ linhas'[id].dono = e /\ linhas'[id].tentativas = t
    BY DEF Quieta
  <1>6. /\ Existe(id) => g <= b + F + t + m
        /\ id \in lote /\ ~NaVez("descarte", id) => g <= b + F + v + m
        /\ g <= b + F + T
        /\ linhas[id].estado \in Abertas => r <= c + F + I + k
        /\ id \in lote => r <= c + F + I + k
        /\ r <= c + F + I + 1
    BY DEF ContasDe, FalhasDe, EntregasDe
  <1>7. /\ Existe(id)' => Existe(id)
        /\ id \in lote' /\ ~NaVez("descarte", id)' => id \in lote /\ ~NaVez("descarte", id)
        /\ id \in lote' => id \in lote /\ visto'[id] = v
        /\ linhas'[id].estado \in Abertas => linhas[id].estado \in Abertas
    BY DEF Quieta
  <1> HIDE DEF g, r, T, t, v, b, d, c, q, m, n, k, l, F, G, I, J
  <1>8. /\ Existe(id)' => g <= d + G + t + n
        /\ id \in lote' /\ ~NaVez("descarte", id)' => g <= d + G + v + n
        /\ g <= d + G + T
    BY <1>1, <1>2, <1>3, <1>4, <1>6, <1>7
  <1>9. /\ linhas'[id].estado \in Abertas => r <= q + G + J + l
        /\ id \in lote' => r <= q + G + J + l
        /\ r <= q + G + J + 1
    BY <1>1, <1>2, <1>3, <1>4, <1>6, <1>7
  <1>10. FalhasDe(id)'
    BY <1>5, <1>7, <1>8 DEF FalhasDe, g, T, t, v, d, n, G
  <1>11. EntregasDe(id)'
    BY <1>5, <1>9 DEF EntregasDe, r, q, l, G, J
  <1>12. QED
    BY <1>10, <1>11 DEF ContasDe

(* A send of reply e adds to its accounts what the code it returns says,   *)
(* and a delivery without a code to the uncertain sends.                   *)
LEMMA EnviarConta ==
  ASSUME TypeOK, TypeOK', NEW e \in Envios, NEW cod \in Codigos, NEW chegou \in BOOLEAN,
         enviar(e, cod, chegou)
  PROVE  /\ hist'[e].gastas = hist[e].gastas + Gasta(cod)
         /\ Perdas' = Perdas
         /\ \E i \in {0, 1} : /\ hist'[e].recebidas = hist[e].recebidas + Chega(cod) + i
                              /\ orcamento'.incertas = orcamento.incertas + i
         /\ \A d \in Envios : d # e => hist'[d] = hist[d]
  <1>1. hist'[e] = [recebidas |-> IF chegou THEN hist[e].recebidas + 1 ELSE hist[e].recebidas,
                    gastas    |-> IF cod = "ok" \/ e_erro_sessao(cod)
                                  THEN hist[e].gastas ELSE hist[e].gastas + 1,
                    recusada  |-> hist[e].recusada \/ e_erro_definitivo(cod)]
    BY DEF enviar, TypeOK, TypeOKCanal
  <1>2. \A d \in Envios : d # e => hist'[d] = hist[d]
    BY DEF enviar, TypeOK, TypeOKCanal
  <1>3. /\ hist[e].recebidas \in Nat /\ hist[e].gastas \in Nat
        /\ orcamento \in Orcamento /\ orcamento.incertas \in Nat
    BY DEF TypeOK, TypeOKCanal, TypeOKTransacoes, Historia, Orcamento
  <1>4. hist'[e].gastas = hist[e].gastas + Gasta(cod)
    BY <1>1, <1>3 DEF Gasta
  <1>5. \/ cod = "ok" /\ chegou /\ UNCHANGED orcamento
        \/ cod # "ok" /\ Incerta(chegou)
    BY DEF enviar, Alcancavel, Incerta
  <1>6. \/ /\ UNCHANGED orcamento
           /\ IF chegou THEN cod = "ok" ELSE cod # "ok"
        \/ /\ chegou /\ cod # "ok"
           /\ orcamento' = [orcamento EXCEPT !.incertas = @ + 1]
    BY <1>5 DEF Incerta
  <1>7. CASE UNCHANGED orcamento /\ IF chegou THEN cod = "ok" ELSE cod # "ok"
    <2>1. hist'[e].recebidas = hist[e].recebidas + Chega(cod) + 0
      BY <1>1, <1>3, <1>7 DEF Chega
    <2>2. orcamento'.incertas = orcamento.incertas + 0 /\ Perdas' = Perdas
      BY <1>3, <1>7 DEF Perdas
    <2>3. QED
      BY <1>2, <1>4, <2>1, <2>2
  <1>8. CASE chegou /\ cod # "ok" /\ orcamento' = [orcamento EXCEPT !.incertas = @ + 1]
    <2>1. hist'[e].recebidas = hist[e].recebidas + Chega(cod) + 1
      BY <1>1, <1>3, <1>8 DEF Chega
    <2>2. orcamento'.incertas = orcamento.incertas + 1 /\ Perdas' = Perdas
      BY <1>3, <1>8 DEF Perdas, Orcamento
    <2>3. QED
      BY <1>2, <1>4, <2>1, <2>2
  <1>9. QED
    BY <1>6, <1>7, <1>8

(* atualizar_erro of row id: done, on a row that is gone, or failed. *)
LEMMA ErroGravado ==
  ASSUME TypeOK, NEW id \in Ids, NEW n \in Nat, Gravar(ComErro(id, n))
  PROVE  /\ \/ /\ Perdas' = Perdas
               /\ \/ ~Existe(id) /\ linhas'[id] = linhas[id]
                  \/ /\ linhas'[id].tentativas = n
                     /\ linhas'[id].dono = linhas[id].dono
            \/ Perdas' = Perdas + 1 /\ linhas'[id] = linhas[id]
         /\ linhas'[id].dono = linhas[id].dono
         /\ Existe(id)' => Existe(id)
         /\ orcamento'.incertas = orcamento.incertas
  <1>0. /\ linhas \in [Ids -> Linha] /\ linhas[id] \in Linha /\ orcamento \in Orcamento
        /\ Perdas \in Nat /\ orcamento.avarias \in Nat /\ orcamento.reinicios \in Nat
    BY DEF TypeOK, TypeOKTransacoes, Orcamento, Perdas
  <1>1. CASE linhas' = ComErro(id, n) /\ UNCHANGED orcamento
    BY <1>0, <1>1 DEF ComErro, Existe, Linha, Perdas
  <1>2. CASE Avaria /\ UNCHANGED linhas
    BY <1>0, <1>2 DEF Avaria, Existe, Orcamento, Perdas
  <1>3. QED
    BY <1>1, <1>2 DEF Gravar

(* An UPDATE of row id that closes it: done, on a row gone, or failed. *)
LEMMA FechoGravado ==
  ASSUME TypeOK, NEW id \in Ids, NEW novo \in Fechadas, Gravar(ComEstado(id, novo))
  PROVE  /\ \/ Perdas' = Perdas /\ linhas'[id].estado \notin Abertas
            \/ Perdas' = Perdas + 1 /\ linhas'[id] = linhas[id]
         /\ linhas'[id].dono = linhas[id].dono
         /\ linhas'[id].tentativas = linhas[id].tentativas
         /\ Existe(id)' => Existe(id)
         /\ orcamento'.incertas = orcamento.incertas
  <1>0. /\ linhas \in [Ids -> Linha] /\ linhas[id] \in Linha /\ orcamento \in Orcamento
        /\ Perdas \in Nat /\ orcamento.avarias \in Nat /\ orcamento.reinicios \in Nat
    BY DEF TypeOK, TypeOKTransacoes, Orcamento, Perdas
  <1>1. CASE linhas' = ComEstado(id, novo) /\ UNCHANGED orcamento
    BY <1>0, <1>1 DEF ComEstado, Existe, Linha, Perdas, Abertas, Fechadas
  <1>2. CASE Avaria /\ UNCHANGED linhas
    BY <1>0, <1>2 DEF Avaria, Existe, Orcamento, Perdas
  <1>3. QED
    BY <1>1, <1>2 DEF Gravar

(* An UPDATE of another row leaves row id alone. *)
LEMMA OutraGravada ==
  ASSUME TypeOK, NEW id \in Ids, NEW j, j # id,
         \/ \E novo \in Estados : Gravar(ComEstado(j, novo))
         \/ \E n \in Nat : Gravar(ComErro(j, n))
  PROVE  /\ linhas'[id] = linhas[id]
         /\ Perdas' >= Perdas /\ orcamento'.incertas = orcamento.incertas
  <1>0. /\ linhas \in [Ids -> Linha] /\ orcamento \in Orcamento
        /\ Perdas \in Nat /\ orcamento.avarias \in Nat /\ orcamento.reinicios \in Nat
    BY DEF TypeOK, TypeOKTransacoes, Orcamento, Perdas
  <1>1. linhas'[id] = linhas[id]
    BY <1>0 DEF Gravar, ComEstado, ComErro, Existe
  <1>2. UNCHANGED orcamento \/ Avaria
    BY DEF Gravar
  <1>3. Perdas' >= Perdas /\ orcamento'.incertas = orcamento.incertas
    BY <1>0, <1>2 DEF Avaria, Orcamento, Perdas
  <1>4. QED
    BY <1>1, <1>3

(* A row whose id only its own call has. *)
LEMMA LinhaPropria ==
  ASSUME TypeOK, DonosCertos, NEW id \in Ids, id < prox, ~IdAlheio(id)
  PROVE  /\ linhas[id].dono \in Envios /\ rem[linhas[id].dono].linha = id
         /\ rem[linhas[id].dono].pc # "novo"
         /\ \A f \in Envios : f # linhas[id].dono => rem[f].id # id
         /\ \A j \in Ids : j < prox /\ j # id => linhas[j].dono # linhas[id].dono
  <1>1. \A j \in Ids : j < prox => linhas[j].dono \in Envios /\ rem[linhas[j].dono].linha = j
    BY DEF DonosCertos, LinhasComDono
  <1>2. rem[linhas[id].dono].pc # "novo"
    BY <1>1 DEF DonosCertos, ChamadasComLinha, Ids
  <1>3. ASSUME NEW f \in Envios, f # linhas[id].dono  PROVE rem[f].id # id
    <2>1. rem[f].id = id => rem[f].linha = id
      BY DEF IdAlheio
    <2>2. rem[f].linha = id => linhas[id].dono = f
      BY DEF DonosCertos, ChamadasComLinha, Ids
    <2>3. QED
      BY <1>3, <2>1, <2>2
  <1>4. QED
    BY <1>1, <1>2, <1>3

(* A handler that writes its result is past its send for good. *)
LEMMA GravacaoAcaba ==
  ASSUME TypeOK, NEW e \in Envios, GravarResultado(e)
  PROVE  ~AntesDoEnvio(rem'[e]) /\ rem'[e].pc # "gravacao"
  <1>1. rem \in [Envios -> Remetente] /\ rem[e] \in Remetente
    BY DEF TypeOK, TypeOKRemetente
  <1>2. \/ rem' = [rem EXCEPT ![e] = Terminado(@)]
        \/ rem' = [rem EXCEPT ![e].pc = "descarte"]
    BY DEF GravarResultado
  <1>3. CASE rem' = [rem EXCEPT ![e] = Terminado(@)]
    BY <1>1, <1>3 DEF Terminado, Remetente, AntesDoEnvio
  <1>4. CASE rem' = [rem EXCEPT ![e].pc = "descarte"]
    BY <1>1, <1>4 DEF Remetente, AntesDoEnvio
  <1>5. QED
    BY <1>2, <1>3, <1>4

(* What the row's own handler does while it neither sends nor writes. *)
LEMMA ContasAtendente ==
  ASSUME TypeOK, TypeOK', DonosCertos, NEW id \in Ids, id < prox, ~IdAlheio(id),
         NEW e \in Envios, linhas[id].dono = e, ContasDe(id), UNCHANGED varsFila,
         \/ RegistrarLerId(e) \/ DescartarResposta(e) \/ MatarTratador(e)
         \/ GravarResultado(e) /\ (rem[e].id # id \/ rem[e].cod = "ok")
  PROVE  ContasDe(id)'
  <1>1. /\ rem \in [Envios -> Remetente] /\ rem[e] \in Remetente /\ linhas \in [Ids -> Linha]
        /\ orcamento \in Orcamento
        /\ Perdas \in Nat /\ orcamento.incertas \in Nat
    BY Parcelas DEF TypeOK, TypeOKRemetente, TypeOKTransacoes
  <1>2. UNCHANGED <<fila, lote, visto>>
    BY DEF varsFila
  <1>3. \/ AntesDoEnvio(rem[e])
        \/ ~AntesDoEnvio(rem'[e]) /\ rem'[e].pc # "gravacao"
    <2>1. CASE RegistrarLerId(e)
      BY <2>1 DEF RegistrarLerId, AntesDoEnvio
    <2>2. CASE GravarResultado(e)
      BY <2>2, GravacaoAcaba
    <2>3. CASE DescartarResposta(e) \/ MatarTratador(e)
      <3>1. rem' = [rem EXCEPT ![e] = Terminado(@)]
        BY <2>3 DEF DescartarResposta, MatarTratador
      <3>2. QED
        BY <1>1, <3>1 DEF AntesDoEnvio, Terminado, Remetente
    <2>4. QED
      BY <2>1, <2>2, <2>3
  <1>4. hist'[e] = hist[e]
    BY DEF RegistrarLerId, DescartarResposta, MatarTratador, GravarResultado
  <1>5. /\ linhas'[id].dono = e /\ linhas'[id].tentativas = linhas[id].tentativas
        /\ Existe(id)' => Existe(id)
        /\ linhas'[id].estado \in Abertas => linhas[id].estado \in Abertas
        /\ Perdas' >= Perdas /\ orcamento'.incertas >= orcamento.incertas
    <2>1. CASE UNCHANGED linhas /\ (UNCHANGED orcamento \/ Avaria)
      BY <1>1, <2>1 DEF Avaria, Perdas, Orcamento, Existe
    <2>2. CASE \E novo \in Fechadas : Gravar(ComEstado(id, novo))
      BY <1>1, <2>2, FechoGravado
    <2>3. CASE \E j : j # id /\ \/ \E novo \in Estados : Gravar(ComEstado(j, novo))
                                \/ \E n \in Nat : Gravar(ComErro(j, n))
      <3>1. /\ linhas'[id] = linhas[id]
            /\ Perdas' >= Perdas /\ orcamento'.incertas = orcamento.incertas
        BY <2>3, OutraGravada
      <3>2. QED
        BY <1>1, <3>1 DEF Existe
    <2>4. CASE RegistrarLerId(e) \/ MatarTratador(e)
      BY <2>1, <2>4 DEF RegistrarLerId, MatarTratador
    <2>5. CASE DescartarResposta(e)
      <3>1. Gravar(ComEstado(rem[e].id, "descartada"))
        BY <2>5 DEF DescartarResposta, atualizar_status
      <3>2. QED
        BY <2>2, <2>3, <3>1 DEF Fechadas, Estados
    <2>6. CASE GravarResultado(e) /\ rem[e].id # id
      <3>1. \/ Gravar(ComEstado(rem[e].id, "entregue"))
            \/ \E n \in Nat : Gravar(ComErro(rem[e].id, n))
        BY <2>6 DEF GravarResultado, marcar_entregue, atualizar_erro
      <3>2. QED
        BY <2>3, <2>6, <3>1 DEF Fechadas, Estados
    <2>7. CASE GravarResultado(e) /\ rem[e].id = id /\ rem[e].cod = "ok"
      <3>1. Gravar(ComEstado(id, "entregue"))
        BY <2>7 DEF GravarResultado, marcar_entregue
      <3>2. QED
        BY <2>2, <3>1 DEF Fechadas
    <2>8. QED
      BY <2>4, <2>5, <2>6, <2>7
  <1>6. Quieta(id, e)
    BY <1>2, <1>3, <1>4, <1>5 DEF Quieta, NaVez, Primeira
  <1>7. QED
    BY <1>6, ContasQuietas

(* The handler's send of the reply. *)
LEMMA ContasEnvio ==
  ASSUME TypeOK, TypeOK', DonosCertos, NEW id \in Ids, id < prox,
         NEW e \in Envios, linhas[id].dono = e, ContasDe(id), UNCHANGED varsFila,
         EnviarResposta(e)
  PROVE  ContasDe(id)'
  <1> DEFINE g == hist[e].gastas
             r == hist[e].recebidas
             T == tentativas_max
             t == linhas[id].tentativas
             v == visto[id]
             m == EmVoo(id, Gasta(fila.cod))
             k == EmVoo(id, Chega(fila.cod))
             F == Perdas
             I == orcamento.incertas
             J == orcamento'.incertas
             x == hist'[e].gastas
             y == hist'[e].recebidas
             d == FalhasProprias(rem'[e])
             q == EntregasProprias(rem'[e])
  <1>1. /\ g \in Nat /\ r \in Nat /\ T \in Nat /\ t \in Nat /\ v \in Nat
        /\ F \in Nat /\ I \in Nat /\ m \in {0, 1} /\ k \in {0, 1}
    BY Parcelas DEF EmVoo
  <1>2. PICK cod \in Codigos, chegou \in BOOLEAN :
          /\ enviar(e, cod, chegou)
          /\ rem' = [rem EXCEPT ![e].pc = "gravacao", ![e].cod = cod]
    BY DEF EnviarResposta
  <1>3. rem[e].pc = "envio" /\ rem'[e].pc = "gravacao" /\ rem'[e].cod = cod
    BY <1>2 DEF EnviarResposta, TypeOK, TypeOKRemetente, Remetente
  <1>4. /\ FalhasProprias(rem[e]) = 0 /\ EntregasProprias(rem[e]) = 0
        /\ d = Gasta(cod) /\ q = Chega(cod)
        /\ d \in {0, 1} /\ q \in {0, 1}
    BY <1>3 DEF FalhasProprias, EntregasProprias, AntesDoEnvio, Gasta, Chega
  <1>5. /\ x = g + Gasta(cod)
        /\ Perdas' = F
        /\ \E i \in {0, 1} : y = r + Chega(cod) + i /\ J = I + i
    BY <1>2, EnviarConta
  <1>6. /\ x = g + d
        /\ \E i \in {0, 1} : y = r + q + i /\ J = I + i
    BY <1>4, <1>5
  <1>7. /\ Existe(id) => g <= 0 + F + t + m
        /\ id \in lote /\ ~NaVez("descarte", id) => g <= 0 + F + v + m
        /\ g <= 0 + F + T
        /\ linhas[id].estado \in Abertas => r <= 0 + F + I + k
        /\ id \in lote => r <= 0 + F + I + k
        /\ r <= 0 + F + I + 1
    BY <1>4 DEF ContasDe, FalhasDe, EntregasDe
  <1>8. /\ UNCHANGED <<linhas, fila, lote, visto>>
        /\ (Existe(id)' <=> Existe(id)) /\ NaVez("descarte", id)' = NaVez("descarte", id)
        /\ EmVoo(id, Gasta(fila.cod))' = m /\ EmVoo(id, Chega(fila.cod))' = k
    BY DEF EnviarResposta, varsFila, Existe, NaVez, Primeira, EmVoo
  <1> HIDE DEF g, r, T, t, v, m, k, F, I, J, x, y, d, q
  <1>9. /\ Existe(id) => x <= d + F + t + m
        /\ id \in lote /\ ~NaVez("descarte", id) => x <= d + F + v + m
        /\ x <= d + F + T
    BY <1>1, <1>4, <1>6, <1>7
  <1>10. /\ linhas[id].estado \in Abertas => y <= q + F + J + k
         /\ id \in lote => y <= q + F + J + k
         /\ y <= q + F + J + 1
    BY <1>1, <1>4, <1>6, <1>7
  <1>11. FalhasDe(id)'
    BY <1>5, <1>8, <1>9 DEF FalhasDe, x, d, t, v, T
  <1>12. EntregasDe(id)'
    BY <1>5, <1>8, <1>10 DEF EntregasDe, y, q, J
  <1>13. QED
    BY <1>11, <1>12 DEF ContasDe

(* The handler's write of an error, on the row of its reply. *)
LEMMA ContasGravacao ==
  ASSUME TypeOK, TypeOK', DonosCertos, NEW id \in Ids, id < prox,
         NEW e \in Envios, linhas[id].dono = e, ContasDe(id), UNCHANGED varsFila,
         GravarResultado(e), rem[e].id = id, rem[e].cod # "ok"
  PROVE  ContasDe(id)'
  <1> DEFINE g == hist[e].gastas
             r == hist[e].recebidas
             T == tentativas_max
             t == linhas[id].tentativas
             s == linhas'[id].tentativas
             v == visto[id]
             m == EmVoo(id, Gasta(fila.cod))
             k == EmVoo(id, Chega(fila.cod))
             b == FalhasProprias(rem[e])
             F == Perdas
             G == Perdas'
             I == orcamento.incertas
  <1>1. /\ g \in Nat /\ r \in Nat /\ T \in Nat /\ T >= 1 /\ t \in Nat /\ v \in Nat
        /\ F \in Nat /\ I \in Nat /\ m \in {0, 1} /\ k \in {0, 1}
    BY Parcelas DEF EmVoo
  <1>2. rem[e] \in Remetente /\ rem[e].pc = "gravacao"
    BY DEF TypeOK, TypeOKRemetente, GravarResultado
  <1>3. ~AntesDoEnvio(rem'[e]) /\ rem'[e].pc # "gravacao"
    BY GravacaoAcaba
  <1>4. /\ FalhasProprias(rem'[e]) = T /\ EntregasProprias(rem'[e]) = 1
        /\ b = Gasta(rem[e].cod) /\ b \in {0, 1} /\ EntregasProprias(rem[e]) = 0
    BY <1>2, <1>3 DEF FalhasProprias, EntregasProprias, AntesDoEnvio, Gasta, Chega
  <1>5. Gravar(ComErro(id, b))
    BY <1>4 DEF GravarResultado, atualizar_erro, Gasta
  <1>6. /\ \/ G = F /\ (Existe(id) => s = b)
           \/ G = F + 1 /\ linhas'[id] = linhas[id]
        /\ linhas'[id].dono = e
        /\ Existe(id)' => Existe(id)
        /\ orcamento'.incertas = I
    <2>1. b \in Nat
      BY <1>4
    <2> HIDE DEF b
    <2>2. QED
      BY <1>5, <2>1, ErroGravado
  <1>7. /\ id \in lote /\ ~NaVez("descarte", id) => g <= b + F + v + m
        /\ Existe(id) => g <= b + F + t + m
        /\ g <= b + F + T
        /\ r <= 0 + F + I + 1
    BY <1>4 DEF ContasDe, FalhasDe, EntregasDe
  <1>8. /\ UNCHANGED <<hist, fila, lote, visto>>
        /\ NaVez("descarte", id)' = NaVez("descarte", id)
        /\ EmVoo(id, Gasta(fila.cod))' = m /\ EmVoo(id, Chega(fila.cod))' = k
    BY DEF GravarResultado, varsFila, NaVez, Primeira, EmVoo
  <1>9. G \in Nat /\ G >= F /\ s \in Nat /\ (G = F /\ Existe(id) => s = b)
    BY <1>1, <1>6 DEF TypeOK, TypeOKTransacoes, Linha
  <1>10. G = F \/ G = F + 1
    BY <1>6
  <1> HIDE DEF g, r, T, t, s, v, m, k, b, F, G, I
  <1>11. /\ Existe(id)' => g <= T + G + s + m
         /\ id \in lote /\ ~NaVez("descarte", id) => g <= T + G + v + m
         /\ g <= T + G + T
    BY <1>1, <1>4, <1>6, <1>7, <1>9, <1>10
  <1>12. /\ r <= 1 + G + I + k
         /\ r <= 1 + G + I + 1
    BY <1>1, <1>7, <1>9
  <1>13. FalhasDe(id)'
    BY <1>4, <1>6, <1>8, <1>11 DEF FalhasDe, g, T, s, v, G
  <1>14. EntregasDe(id)'
    BY <1>4, <1>6, <1>8, <1>12 DEF EntregasDe, r, G, I
  <1>15. QED
    BY <1>13, <1>14 DEF ContasDe

(* What the queue does with other rows, or with its snapshot. *)
LEMMA ContasFilaQuieta ==
  ASSUME TypeOK, TypeOK', DonosCertos, FilaSabe, NEW id \in Ids, id < prox, ~IdAlheio(id),
         NEW e \in Envios, linhas[id].dono = e, ContasDe(id), UNCHANGED rem,
         \/ ConsultarPonte \/ TerminarCiclo
         \/ Aguardar(id) \/ Esgotar(id) \/ Descartar(id)
         \/ \E j \in Ids \ {id} :
              \/ Aguardar(j) \/ VencerPrazo(j) \/ Esgotar(j)
              \/ Reenviar(j) \/ GravarReenvio(j) \/ Descartar(j)
  PROVE  ContasDe(id)'
  <1>0. /\ fila \in Fila /\ visto \in [Ids -> Nat] /\ lote \subseteq Ids
        /\ linhas \in [Ids -> Linha] /\ Perdas \in Nat /\ orcamento.incertas \in Nat
    BY Parcelas DEF TypeOK, TypeOKFila, TypeOKTransacoes
  <1> DEFINE Parada == /\ linhas'[id].dono = e
                       /\ linhas'[id].tentativas = linhas[id].tentativas
                       /\ Existe(id)' => Existe(id)
                       /\ linhas'[id].estado \in Abertas => linhas[id].estado \in Abertas
                       /\ Perdas' >= Perdas /\ orcamento'.incertas >= orcamento.incertas
             Passa == /\ id \in lote' => /\ id \in lote /\ visto'[id] = visto[id]
                                         /\ ~NaVez("descarte", id)
                      /\ ~NaVez("gravacao", id)' /\ ~NaVez("gravacao", id)
  <1>1. ASSUME hist'[e] = hist[e], Parada, Passa  PROVE ContasDe(id)'
    <2>1. Quieta(id, e)
      BY <1>1 DEF Quieta
    <2>2. QED
      BY <2>1, ContasQuietas
  <1>2. CASE ConsultarPonte \/ TerminarCiclo
    <2>1. /\ UNCHANGED <<linhas, orcamento, hist, lote, visto>>
          /\ fila.pc \in {"saude", "lote"} /\ fila'.pc \in {"ociosa", "lote"}
      <3>1. CASE ConsultarPonte
        BY <1>0, <3>1 DEF ConsultarPonte, Fila
      <3>2. CASE TerminarCiclo
        BY <3>2 DEF TerminarCiclo, FilaOciosa
      <3>3. QED
        BY <1>2, <3>1, <3>2
    <2>2. Parada
      BY <1>0, <2>1 DEF Existe, Perdas
    <2>3. Passa
      BY <2>1 DEF NaVez
    <2>4. QED
      BY <1>1, <2>1, <2>2, <2>3
  <1>3. CASE Aguardar(id) \/ Esgotar(id) \/ Descartar(id)
    <2>1. Parada
      <3>1. CASE UNCHANGED <<linhas, orcamento>>
        BY <1>0, <3>1 DEF Existe, Perdas
      <3>2. CASE Gravar(ComEstado(id, "descartada"))
        BY <1>0, <3>2, FechoGravado DEF Fechadas
      <3>3. QED
        BY <1>3, <3>1, <3>2 DEF Aguardar, Esgotar, Descartar, atualizar_status
    <2>2. Passa
      BY <1>0, <1>3 DEF Aguardar, Esgotar, Descartar, Seguir, NaVez, Fila
    <2>3. QED
      BY <1>1, <1>3, <2>1, <2>2 DEF Aguardar, Esgotar, Descartar
  <1>4. ASSUME NEW j \in Ids \ {id},
               \/ Aguardar(j) \/ VencerPrazo(j) \/ Esgotar(j)
               \/ Reenviar(j) \/ GravarReenvio(j) \/ Descartar(j)
        PROVE  ContasDe(id)'
    <2>0. Primeira(j) /\ ~Primeira(id) /\ j < prox
      <3>1. Primeira(j)
        BY <1>4 DEF Aguardar, VencerPrazo, Esgotar, Reenviar, GravarReenvio, Descartar
      <3>2. ~Primeira(id)
        BY <3>1 DEF Primeira, Ids
      <3>3. j < prox
        BY <3>1 DEF Primeira, FilaSabe, LoteSabe
      <3>4. QED
        BY <3>1, <3>2, <3>3
    <2>1. hist'[e] = hist[e] /\ Parada
      <3>1. CASE Reenviar(j)
        <4>1. PICK cod \in Codigos, chegou \in BOOLEAN : enviar(linhas[j].dono, cod, chegou)
          BY <3>1 DEF Reenviar
        <4>2. linhas[j].dono \in Envios /\ linhas[j].dono # e
          BY <2>0, LinhaPropria DEF DonosCertos, LinhasComDono
        <4>3. hist'[e] = hist[e] /\ Perdas' = Perdas /\ orcamento'.incertas >= orcamento.incertas
          <5>1. PICK i \in {0, 1} : orcamento'.incertas = orcamento.incertas + i
            BY <4>1, <4>2, EnviarConta
          <5>2. QED
            BY <1>0, <4>1, <4>2, <5>1, EnviarConta
        <4>4. UNCHANGED linhas
          BY <3>1 DEF Reenviar
        <4>5. QED
          BY <1>0, <4>3, <4>4 DEF Existe
      <3>2. CASE ~Reenviar(j)
        <4>1. UNCHANGED hist
          BY <1>4, <3>2 DEF Aguardar, VencerPrazo, Esgotar, GravarReenvio, Descartar
        <4>2. CASE UNCHANGED <<linhas, orcamento>>
          BY <1>0, <4>1, <4>2 DEF Existe, Perdas
        <4>3. CASE \/ \E novo \in Estados : Gravar(ComEstado(j, novo))
                   \/ \E n \in Nat : Gravar(ComErro(j, n))
          <5>1. /\ linhas'[id] = linhas[id]
                /\ Perdas' >= Perdas /\ orcamento'.incertas = orcamento.incertas
            BY <4>3, OutraGravada
          <5>2. QED
            BY <1>0, <4>1, <5>1 DEF Existe
        <4>4. visto[j] \in Nat /\ visto[j] + 1 \in Nat
          BY <1>0
        <4>5. QED
          BY <1>4, <3>2, <4>2, <4>3, <4>4
             DEF Aguardar, VencerPrazo, Esgotar, GravarReenvio, Descartar, marcar_entregue,
                 atualizar_status, atualizar_erro, Estados, Fechadas
      <3>3. QED
        BY <3>1, <3>2
    <2>2. Passa
      <3>1. CASE Seguir(j)
        BY <1>0, <2>0, <3>1 DEF Seguir, NaVez, Fila
      <3>2. CASE UNCHANGED <<lote, visto>>
        BY <2>0, <3>2 DEF NaVez, Primeira
      <3>3. QED
        BY <1>4, <3>1, <3>2
           DEF Aguardar, VencerPrazo, Esgotar, Reenviar, GravarReenvio, Descartar
    <2>3. QED
      BY <1>1, <2>1, <2>2
  <1>5. QED
    BY <1>2, <1>3, <1>4

(* A snapshot takes the counter of the row. *)
LEMMA ContasInicio ==
  ASSUME TypeOK, TypeOK', FilaSabe, NEW id \in Ids, NEW e \in Envios, linhas[id].dono = e,
         ContasDe(id), UNCHANGED rem, IniciarCiclo
  PROVE  ContasDe(id)'
  <1>1. /\ UNCHANGED <<linhas, orcamento, hist>> /\ (Existe(id)' <=> Existe(id))
        /\ Perdas' = Perdas
    BY DEF IniciarCiclo, Existe, Perdas
  <1>2. fila \in Fila /\ fila.pc = "ociosa" /\ fila'.pc = "saude"
    BY DEF IniciarCiclo, TypeOK, TypeOKFila, Fila
  <1>3. /\ EmVoo(id, Gasta(fila.cod)) = 0 /\ EmVoo(id, Chega(fila.cod)) = 0
        /\ EmVoo(id, Gasta(fila.cod))' = 0 /\ EmVoo(id, Chega(fila.cod))' = 0
    BY <1>2 DEF EmVoo, NaVez
  <1>4. id \in lote' => /\ visto'[id] = linhas[id].tentativas
                        /\ linhas[id].estado \in Abertas /\ Existe(id)
    BY DEF IniciarCiclo, Pendentes, Existe, Abertas
  <1>5. FalhasDe(id)'
    BY <1>1, <1>3, <1>4 DEF ContasDe, FalhasDe
  <1>6. EntregasDe(id)'
    BY <1>1, <1>3, <1>4 DEF ContasDe, EntregasDe
  <1>7. QED
    BY <1>5, <1>6 DEF ContasDe

(* The deadline of the row: the counter goes back to the snapshot's. *)
LEMMA ContasPrazo ==
  ASSUME TypeOK, TypeOK', NEW id \in Ids, NEW e \in Envios, linhas[id].dono = e,
         ContasDe(id), UNCHANGED rem, VencerPrazo(id)
  PROVE  ContasDe(id)'
  <1> DEFINE g == hist[e].gastas
             r == hist[e].recebidas
             t == linhas[id].tentativas
             s == linhas'[id].tentativas
             v == visto[id]
             b == FalhasProprias(rem[e])
             c == EntregasProprias(rem[e])
             F == Perdas
             G == Perdas'
             I == orcamento.incertas
             T == tentativas_max
  <1>1. /\ g \in Nat /\ r \in Nat /\ T \in Nat /\ t \in Nat /\ v \in Nat
        /\ b \in Nat /\ c \in Nat /\ F \in Nat /\ I \in Nat
    BY Parcelas
  <1>2. /\ fila.pc = "lote" /\ Primeira(id) /\ fila'.pc = "descarte"
        /\ UNCHANGED <<lote, visto, hist>>
    BY DEF VencerPrazo, TypeOK, TypeOKFila, Fila
  <1>3. /\ EmVoo(id, Gasta(fila.cod)) = 0 /\ EmVoo(id, Chega(fila.cod)) = 0
        /\ EmVoo(id, Gasta(fila.cod))' = 0 /\ EmVoo(id, Chega(fila.cod))' = 0
        /\ id \in lote /\ ~NaVez("descarte", id) /\ NaVez("descarte", id)'
    BY <1>2 DEF EmVoo, NaVez, Primeira
  <1>4. Gravar(ComErro(id, v))
    BY DEF VencerPrazo, atualizar_erro
  <1>5. /\ \/ G = F /\ (Existe(id) => s = v)
           \/ G = F + 1 /\ linhas'[id] = linhas[id]
        /\ linhas'[id].dono = e
        /\ Existe(id)' => Existe(id)
        /\ orcamento'.incertas = I
    <2>1. v \in Nat
      BY <1>1
    <2> HIDE DEF v
    <2>2. QED
      BY <1>4, <2>1, ErroGravado
  <1>6. /\ Existe(id) => g <= b + F + t + 0
        /\ g <= b + F + v + 0
        /\ g <= b + F + T
        /\ r <= c + F + I + 0
        /\ r <= c + F + I + 1
    BY <1>3 DEF ContasDe, FalhasDe, EntregasDe
  <1>7. /\ G \in Nat /\ G >= F /\ s \in Nat
        /\ Existe(id) => s = v \/ (G = F + 1 /\ s = t)
    BY <1>1, <1>5 DEF TypeOK, TypeOKTransacoes, Linha
  <1> HIDE DEF g, r, t, s, v, b, c, F, G, I, T
  <1>8. /\ Existe(id)' => g <= b + G + s + 0
        /\ g <= b + G + T
        /\ r <= c + G + I + 0
        /\ r <= c + G + I + 1
    BY <1>1, <1>5, <1>6, <1>7
  <1>9. FalhasDe(id)'
    BY <1>2, <1>3, <1>5, <1>8 DEF FalhasDe, g, s, b, G, T
  <1>10. EntregasDe(id)'
    BY <1>2, <1>3, <1>5, <1>8 DEF EntregasDe, r, c, G, I
  <1>11. QED
    BY <1>9, <1>10 DEF ContasDe

(* The queue's send of the row, whose snapshot is below the limit. *)
LEMMA ContasReenvio ==
  ASSUME TypeOK, TypeOK', NEW id \in Ids, NEW e \in Envios, linhas[id].dono = e,
         ContasDe(id), UNCHANGED rem, Reenviar(id)
  PROVE  ContasDe(id)'
  <1> DEFINE g == hist[e].gastas
             r == hist[e].recebidas
             t == linhas[id].tentativas
             v == visto[id]
             b == FalhasProprias(rem[e])
             c == EntregasProprias(rem[e])
             F == Perdas
             I == orcamento.incertas
             J == orcamento'.incertas
             T == tentativas_max
             x == hist'[e].gastas
             y == hist'[e].recebidas
             m == Gasta(fila'.cod)
             k == Chega(fila'.cod)
  <1>1. /\ g \in Nat /\ r \in Nat /\ T \in Nat /\ t \in Nat /\ v \in Nat
        /\ b \in Nat /\ c \in Nat /\ F \in Nat /\ I \in Nat
        /\ m \in {0, 1} /\ k \in {0, 1}
    BY Parcelas DEF Gasta, Chega
  <1>2. PICK cod \in Codigos, chegou \in BOOLEAN :
          /\ enviar(e, cod, chegou)
          /\ fila' = [fila EXCEPT !.pc = "gravacao", !.cod = cod]
    BY DEF Reenviar
  <1>3. /\ fila.pc = "lote" /\ Primeira(id) /\ v < T
        /\ UNCHANGED <<linhas, lote, visto>>
    BY DEF Reenviar
  <1>4. fila'.pc = "gravacao" /\ fila'.cod = cod
    BY <1>2 DEF TypeOK, TypeOKFila, Fila
  <1>5. /\ x = g + m
        /\ Perdas' = F
        /\ \E i \in {0, 1} : y = r + k + i /\ J = I + i
    BY <1>2, <1>4, EnviarConta
  <1>6. /\ EmVoo(id, Gasta(fila.cod)) = 0 /\ EmVoo(id, Chega(fila.cod)) = 0
        /\ EmVoo(id, Gasta(fila.cod))' = m /\ EmVoo(id, Chega(fila.cod))' = k
        /\ id \in lote /\ ~NaVez("descarte", id) /\ (Existe(id)' <=> Existe(id))
    BY <1>3, <1>4 DEF EmVoo, NaVez, Primeira, Existe
  <1>7. /\ Existe(id) => g <= b + F + t + 0
        /\ g <= b + F + v + 0
        /\ r <= c + F + I + 0
    BY <1>6 DEF ContasDe, FalhasDe, EntregasDe
  <1> HIDE DEF g, r, t, v, b, c, F, I, J, T, x, y, m, k
  <1>8. /\ Existe(id) => x <= b + F + t + m
        /\ x <= b + F + v + m
        /\ x <= b + F + T
    BY <1>1, <1>3, <1>5, <1>7
  <1>9. /\ y <= c + F + J + k
        /\ y <= c + F + J + 1
    BY <1>1, <1>5, <1>7
  <1>10. FalhasDe(id)'
    BY <1>3, <1>5, <1>6, <1>8 DEF FalhasDe, x, b, t, v, T
  <1>11. EntregasDe(id)'
    BY <1>3, <1>5, <1>6, <1>9 DEF EntregasDe, y, c, J
  <1>12. QED
    BY <1>10, <1>11 DEF ContasDe

(* The queue's write of what its send was told. *)
LEMMA ContasRegravacao ==
  ASSUME TypeOK, TypeOK', NEW id \in Ids, NEW e \in Envios, linhas[id].dono = e,
         ContasDe(id), UNCHANGED rem, GravarReenvio(id)
  PROVE  ContasDe(id)'
  <1> DEFINE g == hist[e].gastas
             r == hist[e].recebidas
             t == linhas[id].tentativas
             s == linhas'[id].tentativas
             v == visto[id]
             b == FalhasProprias(rem[e])
             c == EntregasProprias(rem[e])
             m == Gasta(fila.cod)
             k == Chega(fila.cod)
             F == Perdas
             G == Perdas'
             I == orcamento.incertas
             T == tentativas_max
  <1>1. /\ g \in Nat /\ r \in Nat /\ T \in Nat /\ t \in Nat /\ v \in Nat
        /\ b \in Nat /\ c \in Nat /\ F \in Nat /\ I \in Nat
        /\ m \in {0, 1} /\ k \in {0, 1}
    BY Parcelas
  <1>2. fila.pc = "gravacao" /\ Primeira(id) /\ UNCHANGED hist
    BY DEF GravarReenvio
  <1>3. /\ fila'.pc # "gravacao"
        /\ id \in lote' => NaVez("descarte", id)' /\ fila.cod # "ok"
    <2>1. fila \in Fila
      BY DEF TypeOK, TypeOKFila
    <2>2. CASE Seguir(id)
      BY <2>1, <2>2 DEF Seguir, Fila
    <2>3. CASE /\ e_erro_definitivo(fila.cod)
               /\ fila' = [fila EXCEPT !.pc = "descarte"] /\ UNCHANGED <<lote, visto>>
      BY <1>2, <2>1, <2>3 DEF NaVez, Primeira, Fila
    <2>4. QED
      BY <2>2, <2>3 DEF GravarReenvio
  <1>4. /\ EmVoo(id, Gasta(fila.cod)) = m /\ EmVoo(id, Chega(fila.cod)) = k
        /\ EmVoo(id, Gasta(fila.cod))' = 0 /\ EmVoo(id, Chega(fila.cod))' = 0
        /\ id \in lote /\ ~NaVez("descarte", id)
    BY <1>2, <1>3 DEF EmVoo, NaVez, Primeira
  <1>5. /\ Existe(id) => g <= b + F + t + m
        /\ g <= b + F + v + m
        /\ g <= b + F + T
        /\ r <= c + F + I + k
        /\ r <= c + F + I + 1
    BY <1>4 DEF ContasDe, FalhasDe, EntregasDe
  <1>6. /\ fila.cod = "ok" => m = 0 /\ k = 1
        /\ fila.cod # "ok" => k = 0
    BY DEF Gasta, Chega
  <1>7. /\ linhas'[id].dono = e /\ orcamento'.incertas = I
        /\ Existe(id)' => Existe(id)
        /\ G = F \/ G = F + 1
        /\ G = F /\ Existe(id) /\ fila.cod # "ok" => s = v + m
        /\ G = F /\ fila.cod = "ok" => s = t /\ linhas'[id].estado \notin Abertas
        /\ G = F + 1 => s = t
    <2>1. v + m \in Nat
      BY <1>1
    <2>2. CASE fila.cod = "ok"
      <3>1. Gravar(ComEstado(id, "entregue"))
        BY <2>2 DEF GravarReenvio, marcar_entregue
      <3>2. QED
        BY <1>1, <2>2, <3>1, FechoGravado DEF Fechadas
    <2>3. CASE fila.cod # "ok"
      <3>1. Gravar(ComErro(id, v + m))
        BY <1>1, <2>3 DEF GravarReenvio, atualizar_erro, Gasta
      <3> HIDE DEF v, m
      <3>2. QED
        BY <1>1, <2>1, <2>3, <3>1, ErroGravado
    <2>4. QED
      BY <2>2, <2>3
  <1>8. G \in Nat /\ G >= F /\ s \in Nat
    BY <1>1, <1>7 DEF TypeOK, TypeOKTransacoes, Linha
  <1> HIDE DEF g, r, t, s, v, b, c, m, k, F, G, I, T
  <1>9. /\ Existe(id)' => g <= b + G + s + 0
        /\ g <= b + G + T
    BY <1>1, <1>5, <1>6, <1>7, <1>8
  <1>10. /\ linhas'[id].estado \in Abertas => r <= c + G + I + 0
         /\ id \in lote' => r <= c + G + I + 0
         /\ r <= c + G + I + 1
    BY <1>1, <1>3, <1>5, <1>6, <1>7, <1>8
  <1>11. FalhasDe(id)'
    BY <1>2, <1>3, <1>4, <1>7, <1>9 DEF FalhasDe, g, s, b, G, T
  <1>12. EntregasDe(id)'
    BY <1>2, <1>4, <1>7, <1>10 DEF EntregasDe, r, c, G, I
  <1>13. QED
    BY <1>11, <1>12 DEF ContasDe

(* Maintenance, clock, bridge and restart. *)
LEMMA ContasResto ==
  ASSUME TypeOK, TypeOK', NEW id \in Ids, NEW e \in Envios, linhas[id].dono = e, ContasDe(id),
         Manutencao \/ OutrasTabelas \/ Relogio \/ Ponte \/ Reiniciar \/ UNCHANGED vars
  PROVE  ContasDe(id)'
  <1>0. /\ linhas \in [Ids -> Linha] /\ rem \in [Envios -> Remetente] /\ orcamento \in Orcamento
        /\ Perdas \in Nat /\ orcamento.incertas \in Nat
    BY Parcelas DEF TypeOK, TypeOKTransacoes, TypeOKRemetente
  <1>1. hist'[e] = hist[e]
    BY DEF Manutencao, OutrasTabelas, Relogio, Ponte, MudarSessao, Reiniciar, vars
  <1>2. /\ linhas'[id].dono = e /\ linhas'[id].tentativas = linhas[id].tentativas
        /\ Existe(id)' => Existe(id)
        /\ linhas'[id].estado \in Abertas => linhas[id].estado \in Abertas
    <2>1. CASE Manutencao
      BY <1>0, <2>1 DEF Manutencao, limpar_antigas, Existe, Linha, Abertas
    <2>2. CASE UNCHANGED linhas
      BY <2>2 DEF Existe
    <2>3. QED
      BY <2>1, <2>2 DEF OutrasTabelas, InserirEmOutraTabela, Relogio, PassarDia, Ponte,
                        Reiniciar, vars
  <1>3. CASE Reiniciar
    <2>1. /\ fila'.pc = "ociosa" /\ lote' = {}
          /\ rem'[e] = (IF EmCurso(e) THEN Terminado(rem[e]) ELSE rem[e])
          /\ orcamento' = [orcamento EXCEPT !.reinicios = @ + 1]
      BY <1>3 DEF Reiniciar, FilaOciosa
    <2>2. rem'[e] = rem[e] \/ (~AntesDoEnvio(rem'[e]) /\ rem'[e].pc # "gravacao")
      BY <1>0, <2>1 DEF Terminado, AntesDoEnvio, Remetente
    <2>3. Perdas' > Perdas /\ orcamento'.incertas = orcamento.incertas
      BY <1>0, <2>1 DEF Perdas, Orcamento
    <2>4. id \notin lote' /\ ~NaVez("gravacao", id)'
      BY <2>1 DEF NaVez
    <2>5. Perdas' >= Perdas /\ orcamento'.incertas >= orcamento.incertas
      <3>1. Perdas' \in Nat
        BY DEF TypeOK, TypeOKTransacoes, Orcamento, Perdas
      <3>2. QED
        BY <1>0, <2>3, <3>1
    <2>6. \/ rem'[e] = rem[e]
          \/ AntesDoEnvio(rem[e])
          \/ ~AntesDoEnvio(rem'[e]) /\ rem'[e].pc # "gravacao"
      BY <2>2
    <2>7. Quieta(id, e)
      BY <1>1, <1>2, <2>3, <2>4, <2>5, <2>6 DEF Quieta
    <2>8. QED
      BY <2>7, ContasQuietas
  <1>4. CASE UNCHANGED <<fila, lote, visto, rem, orcamento>>
    <2>1. Quieta(id, e)
      BY <1>0, <1>1, <1>2, <1>4 DEF Quieta, NaVez, Primeira, Perdas
    <2>2. QED
      BY <2>1, ContasQuietas
  <1>5. QED
    BY <1>3, <1>4 DEF Manutencao, limpar_antigas, OutrasTabelas, InserirEmOutraTabela, Relogio,
                      PassarDia, Ponte, varsFila, vars

(* A handler's step about another reply. *)
LEMMA ContasAlheias ==
  ASSUME TypeOK, TypeOK', DonosCertos, NEW id \in Ids, id < prox, ~IdAlheio(id),
         NEW e \in Envios, linhas[id].dono = e, ContasDe(id), UNCHANGED varsFila,
         NEW f \in Envios \ {e}, PassoRemetente(f) \/ MatarTratador(f)
  PROVE  ContasDe(id)'
  <1>0. /\ linhas \in [Ids -> Linha] /\ rem \in [Envios -> Remetente] /\ orcamento \in Orcamento
        /\ Perdas \in Nat /\ orcamento.incertas \in Nat
        /\ orcamento.avarias \in Nat /\ orcamento.reinicios \in Nat
    BY Parcelas DEF TypeOK, TypeOKTransacoes, TypeOKRemetente, Orcamento
  <1>1. rem'[e] = rem[e] /\ rem[f].id # id
    BY RemetenteFica, LinhaPropria
  <1>2. CASE EnviarResposta(f)
    <2>1. PICK cod \in Codigos, chegou \in BOOLEAN : enviar(f, cod, chegou)
      BY <1>2 DEF EnviarResposta
    <2>2. PICK i \in {0, 1} : orcamento'.incertas = orcamento.incertas + i
      BY <2>1, EnviarConta
    <2>3. hist'[e] = hist[e] /\ Perdas' = Perdas /\ orcamento'.incertas >= orcamento.incertas
      BY <1>0, <2>1, <2>2, EnviarConta
    <2>4. UNCHANGED <<linhas, fila, lote, visto>>
      BY <1>2 DEF EnviarResposta, varsFila
    <2>5. Quieta(id, e)
      BY <1>0, <1>1, <2>3, <2>4 DEF Quieta, NaVez, Primeira, Existe
    <2>6. QED
      BY <2>5, ContasQuietas
  <1>3. CASE ~EnviarResposta(f)
    <2>1. UNCHANGED <<hist, fila, lote, visto>>
      BY <1>3 DEF PassoRemetente, RegistrarInsert, RegistrarLerId, GravarResultado,
                  DescartarResposta, MatarTratador, varsFila
    <2>2. /\ linhas'[id] = linhas[id]
          /\ Perdas' >= Perdas /\ orcamento'.incertas >= orcamento.incertas
      <3>1. CASE UNCHANGED linhas /\ (UNCHANGED orcamento \/ Avaria)
        BY <1>0, <3>1 DEF Avaria, Perdas, Orcamento
      <3>2. CASE Inserir(f) /\ UNCHANGED orcamento
        BY <1>0, <3>2 DEF Inserir, Perdas, TypeOK, TypeOKTransacoes
      <3>3. CASE \/ \E novo \in Estados : Gravar(ComEstado(rem[f].id, novo))
                 \/ \E n \in Nat : Gravar(ComErro(rem[f].id, n))
        <4>1. /\ linhas'[id] = linhas[id]
              /\ Perdas' >= Perdas /\ orcamento'.incertas = orcamento.incertas
          BY <1>1, <3>3, OutraGravada
        <4>2. QED
          BY <1>0, <4>1
      <3>4. CASE RegistrarInsert(f) \/ RegistrarLerId(f) \/ MatarTratador(f)
        BY <3>1, <3>2, <3>4 DEF RegistrarInsert, RegistrarLerId, MatarTratador
      <3>5. CASE GravarResultado(f)
        BY <3>3, <3>5 DEF GravarResultado, marcar_entregue, atualizar_erro, Estados, Fechadas
      <3>6. CASE DescartarResposta(f)
        BY <3>3, <3>6 DEF DescartarResposta, atualizar_status, Estados, Fechadas
      <3>7. QED
        BY <1>3, <3>4, <3>5, <3>6 DEF PassoRemetente
    <2>3. Quieta(id, e)
      BY <1>0, <1>1, <2>1, <2>2 DEF Quieta, NaVez, Primeira, Existe
    <2>4. QED
      BY <2>3, ContasQuietas
  <1>4. QED
    BY <1>2, <1>3

(* The row of a reply that has just been registered owes nothing. *)
LEMMA ContasNovas ==
  ASSUME TypeOK, TypeOK', DonosCertos, FilaSabe, Novas, NEW e \in Envios,
         RegistrarInsert(e), Inserir(e), rem'[e].pc = "inserido",
         NEW id \in Ids, id = prox, UNCHANGED varsFila
  PROVE  ContasDe(id)'
  <1>1. hist[e].gastas = 0 /\ hist[e].recebidas = 0 /\ UNCHANGED hist
    BY DEF Novas, RegistrarInsert
  <1>2. linhas'[id].dono = e /\ linhas'[id].tentativas = 0
    BY DEF Inserir, TypeOK, TypeOKTransacoes
  <1>3. FalhasProprias(rem'[e]) = 0 /\ EntregasProprias(rem'[e]) = 0
    BY DEF FalhasProprias, EntregasProprias, AntesDoEnvio
  <1>4. id \notin lote /\ ~NaVez("gravacao", id)'
    <2>1. id \notin lote
      BY DEF FilaSabe, LoteSabe, TypeOK, TypeOKTransacoes
    <2>2. QED
      BY <2>1 DEF NaVez, Primeira, varsFila
  <1>5. Perdas' \in Nat /\ orcamento'.incertas \in Nat /\ tentativas_max \in Nat
    BY DEF TypeOK, TypeOKTransacoes, Orcamento, Perdas
  <1>6. EmVoo(id, Gasta(fila.cod))' = 0 /\ EmVoo(id, Chega(fila.cod))' = 0
    BY <1>4 DEF EmVoo
  <1>7. lote' = lote
    BY DEF varsFila
  <1>8. FalhasDe(id)'
    BY <1>1, <1>2, <1>3, <1>4, <1>5, <1>6, <1>7 DEF FalhasDe
  <1>9. EntregasDe(id)'
    BY <1>1, <1>2, <1>3, <1>4, <1>5, <1>6, <1>7 DEF EntregasDe
  <1>10. QED
    BY <1>8, <1>9 DEF ContasDe

(* A reply that has not begun was not sent. *)
LEMMA NovasPasso ==
  ASSUME TypeOK, TypeOK', DonosCertos, FilaSabe, Novas, [Next]_vars
  PROVE  Novas'
  <1>1. SUFFICES ASSUME NEW e \in Envios, rem'[e].pc = "novo"
                 PROVE  rem[e].pc = "novo" /\ hist'[e] = hist[e]
    BY DEF Novas
  <1>2. CASE Remetentes
    <2>1. PICK f \in Envios : PassoRemetente(f) \/ MatarTratador(f)
      BY <1>2 DEF Remetentes
    <2>2. CASE f # e
      <3>1. rem'[e] = rem[e]
        BY <2>1, <2>2, RemetenteFica
      <3>2. CASE EnviarResposta(f)
        <4>1. PICK cod \in Codigos, chegou \in BOOLEAN : enviar(f, cod, chegou)
          BY <3>2 DEF EnviarResposta
        <4>2. QED
          BY <1>1, <2>2, <3>1, <4>1, EnviarConta
      <3>3. CASE ~EnviarResposta(f)
        BY <1>1, <2>1, <3>1, <3>3
           DEF PassoRemetente, RegistrarInsert, RegistrarLerId, GravarResultado,
               DescartarResposta, MatarTratador
      <3>4. QED
        BY <3>2, <3>3
    <2>3. CASE f = e
      <3>1. rem[e] \in Remetente /\ rem \in [Envios -> Remetente]
        BY DEF TypeOK, TypeOKRemetente
      <3>2. rem'[e].pc # "novo"
        <4>1. CASE rem' = [rem EXCEPT ![e] = Terminado(@)]
          BY <3>1, <4>1 DEF Terminado, Remetente
        <4>2. CASE RegistrarInsert(e)
          BY <3>1, <4>2 DEF RegistrarInsert, Remetente
        <4>3. CASE RegistrarLerId(e)
          BY <3>1, <4>1, <4>3 DEF RegistrarLerId, Remetente
        <4>4. CASE EnviarResposta(e)
          <5>1. PICK cod \in Codigos : rem' = [rem EXCEPT ![e].pc = "gravacao", ![e].cod = cod]
            BY <4>4 DEF EnviarResposta
          <5>2. QED
            BY <3>1, <5>1 DEF Remetente
        <4>5. CASE GravarResultado(e)
          BY <4>5, GravacaoAcaba DEF AntesDoEnvio
        <4>6. QED
          BY <2>1, <2>3, <4>1, <4>2, <4>3, <4>4, <4>5
             DEF PassoRemetente, DescartarResposta, MatarTratador
      <3>3. QED
        BY <1>1, <3>2
    <2>4. QED
      BY <2>2, <2>3
  <1>3. CASE FilaAnda
    <2>1. UNCHANGED rem
      BY <1>3 DEF FilaAnda
    <2>2. CASE \E id \in Ids : Reenviar(id)
      <3>1. PICK id \in Ids : Reenviar(id)
        BY <2>2
      <3>2. PICK cod \in Codigos, chegou \in BOOLEAN : enviar(linhas[id].dono, cod, chegou)
        BY <3>1 DEF Reenviar
      <3>3. id < prox
        BY <3>1 DEF Reenviar, Primeira, FilaSabe, LoteSabe
      <3>4. linhas[id].dono \in Envios /\ linhas[id].dono # e
        BY <1>1, <2>1, <3>3 DEF DonosCertos, LinhasComDono, ChamadasComLinha, Ids
      <3>5. QED
        BY <1>1, <2>1, <3>2, <3>4, EnviarConta
    <2>3. CASE ~\E id \in Ids : Reenviar(id)
      <3>1. UNCHANGED hist
        BY <1>3, <2>3 DEF FilaAnda, PassoFila, IniciarCiclo, ConsultarPonte, TerminarCiclo,
           Aguardar, VencerPrazo, Esgotar, GravarReenvio, Descartar
      <3>2. QED
        BY <1>1, <2>1, <3>1
    <2>4. QED
      BY <2>2, <2>3
  <1>4. CASE Manutencao \/ OutrasTabelas \/ Relogio \/ Ponte \/ Reiniciar \/ UNCHANGED vars
    <2>1. UNCHANGED hist
      BY <1>4 DEF Manutencao, OutrasTabelas, Relogio, Ponte, MudarSessao, Reiniciar, vars
    <2>2. rem[e].pc = "novo"
      <3>1. CASE Reiniciar
        BY <1>1, <3>1 DEF Reiniciar, EmCurso, Terminado, TypeOK, TypeOKRemetente, Remetente
      <3>2. CASE UNCHANGED rem
        BY <1>1, <3>2
      <3>3. QED
        BY <1>4, <3>1, <3>2 DEF Manutencao, OutrasTabelas, Relogio, Ponte, vars
    <2>3. QED
      BY <2>1, <2>2
  <1>5. QED
    BY <1>2, <1>3, <1>4 DEF Next

(* A step of a handler keeps the accounts of a row registered before. *)
LEMMA ContasTratador ==
  ASSUME TypeOK, TypeOK', DonosCertos, NEW id \in Ids, id < prox, ~IdAlheio(id), ContasDe(id),
         Remetentes
  PROVE  ContasDe(id)'
  <1> DEFINE e == linhas[id].dono
  <1>1. e \in Envios /\ rem[e].pc # "novo"
    BY LinhaPropria
  <1>2. UNCHANGED varsFila
    BY DEF Remetentes
  <1>3. PICK f \in Envios : PassoRemetente(f) \/ MatarTratador(f)
    BY DEF Remetentes
  <1>4. CASE f # e
    BY <1>1, <1>2, <1>3, <1>4, ContasAlheias
  <1>5. CASE f = e
    <2>1. ~RegistrarInsert(e)
      BY <1>1 DEF RegistrarInsert
    <2>2. CASE EnviarResposta(e)
      BY <1>1, <1>2, <2>2, ContasEnvio
    <2>3. CASE GravarResultado(e) /\ rem[e].id = id /\ rem[e].cod # "ok"
      BY <1>1, <1>2, <2>3, ContasGravacao
    <2>4. CASE \/ RegistrarLerId(e) \/ DescartarResposta(e) \/ MatarTratador(e)
               \/ GravarResultado(e) /\ (rem[e].id # id \/ rem[e].cod = "ok")
      BY <1>1, <1>2, <2>4, ContasAtendente
    <2>5. QED
      BY <1>3, <1>5, <2>1, <2>2, <2>3, <2>4 DEF PassoRemetente
  <1>6. QED
    BY <1>4, <1>5

(* So does a step of the queue. *)
LEMMA ContasFila ==
  ASSUME TypeOK, TypeOK', DonosCertos, FilaSabe, NEW id \in Ids, id < prox, ~IdAlheio(id),
         ContasDe(id), FilaAnda
  PROVE  ContasDe(id)'
  <1> DEFINE e == linhas[id].dono
  <1>1. e \in Envios
    BY LinhaPropria
  <1>2. UNCHANGED rem
    BY DEF FilaAnda
  <1>3. CASE IniciarCiclo
    BY <1>1, <1>2, <1>3, ContasInicio
  <1>4. CASE VencerPrazo(id)
    BY <1>1, <1>2, <1>4, ContasPrazo
  <1>5. CASE Reenviar(id)
    BY <1>1, <1>2, <1>5, ContasReenvio
  <1>6. CASE GravarReenvio(id)
    BY <1>1, <1>2, <1>6, ContasRegravacao
  <1>7. CASE \/ ConsultarPonte \/ TerminarCiclo
             \/ Aguardar(id) \/ Esgotar(id) \/ Descartar(id)
             \/ \E j \in Ids \ {id} :
                  \/ Aguardar(j) \/ VencerPrazo(j) \/ Esgotar(j)
                  \/ Reenviar(j) \/ GravarReenvio(j) \/ Descartar(j)
    BY <1>1, <1>2, <1>7, ContasFilaQuieta
  <1>8. QED
    BY <1>3, <1>4, <1>5, <1>6, <1>7 DEF FilaAnda, PassoFila

(* Every step keeps the accounts. *)
LEMMA ContasPasso == IInv /\ Contas /\ [Next]_vars => Contas'
  <1> SUFFICES ASSUME IInv, Contas, [Next]_vars
               PROVE  Contas'
    OBVIOUS
  <1>1. TypeOK /\ TypeOK' /\ DonosCertos /\ FilaSabe
    BY TipoPasso DEF IInv
  <1>2. Novas'
    BY <1>1, NovasPasso DEF Contas
  <1>3. ASSUME NEW id \in Ids, id < prox', ~IdAlheio(id)'
        PROVE  ContasDe(id)'
    <2>1. ~IdAlheio(id)
      BY <1>1, <1>3, PassoAvanca DEF Avanca
    <2>2. CASE id < prox
      <3>1. ContasDe(id) /\ linhas[id].dono \in Envios
        BY <1>1, <2>1, <2>2, LinhaPropria DEF Contas
      <3>2. CASE Remetentes
        BY <1>1, <2>1, <2>2, <3>1, <3>2, ContasTratador
      <3>3. CASE FilaAnda
        BY <1>1, <2>1, <2>2, <3>1, <3>3, ContasFila
      <3>4. CASE Manutencao \/ OutrasTabelas \/ Relogio \/ Ponte \/ Reiniciar \/ UNCHANGED vars
        BY <1>1, <3>1, <3>4, ContasResto
      <3>5. QED
        BY <3>2, <3>3, <3>4 DEF Next
    <2>3. CASE ~(id < prox)
      <3>1. prox' # prox
        BY <1>3, <2>3
      <3>2. Remetentes
        BY <1>1, <3>1, TabelaFila, TabelaResto DEF Next, FilaAnda
      <3>3. PICK f \in Envios : RegistrarInsert(f) /\ Inserir(f)
        BY <1>1, <3>1, <3>2, TabelaRemetente DEF Remetentes
      <3>4. id = prox
        BY <1>1, <1>3, <2>3, <3>3 DEF Inserir, Ids, TypeOK, TypeOKTransacoes
      <3>5. rem'[f].pc = "inserido"
        BY <1>1, <3>3 DEF RegistrarInsert, TypeOK, TypeOKRemetente, Remetente
      <3>6. UNCHANGED varsFila
        BY <3>2 DEF Remetentes
      <3>7. QED
        BY <1>1, <3>3, <3>4, <3>5, <3>6, ContasNovas DEF Contas
    <2>4. QED
      BY <2>2, <2>3
  <1>4. QED
    BY <1>2, <1>3 DEF Contas

(* Nothing has been sent initially. *)
LEMMA ContasInicial == Init => Contas
  <1> SUFFICES ASSUME Init
               PROVE  Contas
    OBVIOUS
  <1>1. Novas
    BY DEF Init, InitCanal, InitRemetente, Novas
  <1>2. prox = 1
    BY DEF Init, InitTransacoes
  <1>3. QED
    BY <1>1, <1>2 DEF Contas, Ids

(* The accounts bound what a reader of the journal can be told. *)
LEMMA ContasLimitam ==
  ASSUME IInv, Contas, NEW id \in Ids, ~IdAlheio(id), linhas[id].dono # Ninguem
  PROVE  /\ hist[linhas[id].dono].gastas
              <= 2 * tentativas_max + orcamento.avarias + orcamento.reinicios
         /\ hist[linhas[id].dono].recebidas
              <= 2 + orcamento.incertas + orcamento.avarias + orcamento.reinicios
  <1> DEFINE e == linhas[id].dono
             g == hist[e].gastas
             r == hist[e].recebidas
             T == tentativas_max
             b == FalhasProprias(rem[e])
             c == EntregasProprias(rem[e])
             A == orcamento.avarias
             R == orcamento.reinicios
             I == orcamento.incertas
  <1>1. TypeOK /\ DonosCertos
    BY DEF IInv
  <1>2. e \in Envios /\ id < prox
    BY <1>1 DEF TypeOK, TypeOKTransacoes, Linha, DonosCertos, LinhasComDono
  <1>3. /\ g <= b + (A + R) + T
        /\ r <= c + (A + R) + I + 1
    BY <1>2 DEF Contas, ContasDe, FalhasDe, EntregasDe, Perdas
  <1>4. /\ g \in Nat /\ r \in Nat /\ T \in Nat /\ T >= 1 /\ I \in Nat
        /\ b \in Nat /\ c \in Nat
    BY <1>1, <1>2, Parcelas
  <1>5. A \in Nat /\ R \in Nat
    BY <1>1 DEF TypeOK, TypeOKTransacoes, Orcamento
  <1>6. b <= T /\ c <= 1
    BY <1>4 DEF FalhasProprias, EntregasProprias, Gasta, Chega
  <1> HIDE DEF g, r, T, b, c, A, R, I
  <1>7. g <= 2 * T + A + R /\ r <= 2 + I + A + R
    BY <1>3, <1>4, <1>5, <1>6
  <1>8. QED
    BY <1>7 DEF g, r, T, A, R, I

(* The accounts hold in every state. *)
LEMMA ContasCorrect == Spec => [](IInv /\ Contas)
  <1>1. Init => IInv /\ Contas
    BY InvInicial, ContasInicial
  <1>2. (IInv /\ Contas) /\ [Next]_vars => (IInv /\ Contas)'
    BY InvPasso, ContasPasso
  <1>3. QED
    BY <1>1, <1>2, PTL DEF Spec

(* However the writes of handler and queue cross, a reply is tried at most *)
(* twice tentativas_max times, plus one per failed statement or restart.   *)
THEOREM FalhasCorrect == Spec => []FalhasLimitadas
  <1>1. IInv /\ Contas => FalhasLimitadas
    BY ContasLimitam DEF FalhasLimitadas
  <1>2. QED
    BY <1>1, ContasCorrect, PTL

(* A chat gets a reply at most twice, plus once per delivery whose answer  *)
(* was lost, failed statement or restart.                                  *)
THEOREM RecebidasCorrect == Spec => []RecebidasLimitadas
  <1>1. IInv /\ Contas => RecebidasLimitadas
    BY ContasLimitam DEF RecebidasLimitadas
  <1>2. QED
    BY <1>1, ContasCorrect, PTL

---------------------------------------------------------------------------
(* Entrega implements Registro.                                            *)

(* The journal's verdicts, and who holds what, when nothing they read moves. *)
LEMMA SeguraMenos ==
  ASSUME lote' \subseteq lote,
         \A e \in Envios : /\ rem'[e].linha = rem[e].linha /\ rem'[e].id = rem[e].id
                           /\ EmCurso(e)' => EmCurso(e)
  PROVE  LivroEmMaos' \subseteq LivroEmMaos /\ LivroAlheias' = LivroAlheias
  BY DEF LivroEmMaos, LivroAlheias, Segura, IdAlheio

(* A call's row is one row of the table. *)
LEMMA LinhaDaChamada ==
  ASSUME TypeOK, DonosCertos, NEW e \in Envios, rem[e].linha # 0
  PROVE  /\ rem[e].linha \in Ids /\ linhas[rem[e].linha].dono = e /\ rem[e].linha < prox
         /\ linhas[rem[e].linha] \in Linha
         /\ \A d \in Envios : d # e => rem[d].linha # rem[e].linha
  BY DEF TypeOK, TypeOKRemetente, TypeOKTransacoes, Remetente, Ids, DonosCertos,
         ChamadasComLinha

(* Initially the abstract journal is empty. *)
LEMMA LivroInicial == Init => Livro!Init
  BY DEF Init, InitTransacoes, InitCanal, InitRemetente, InitFila, Livro!Init,
         LivroSituacao, Situacao, LivroRecebidas, LivroJustificadas, Justificada,
         LivroAlheias, LivroEmMaos, Segura, IdAlheio, EmCurso

(* Facts that move only what is known of the replies. *)
LEMMA LivroAcontece ==
  ASSUME TypeOK, TypeOK', DonosCertos, Avanca, UNCHANGED <<linhas, lote>>,
         \A e \in Envios : /\ rem'[e].linha = rem[e].linha /\ rem'[e].id = rem[e].id
                           /\ EmCurso(e)' <=> EmCurso(e)
  PROVE  Livro!Acontecer
  <1>1. LivroSituacao' = LivroSituacao
    BY DEF LivroSituacao, Situacao
  <1>2. LivroAlheias' = LivroAlheias
    BY DEF LivroAlheias, IdAlheio
  <1>3. LivroEmMaos' = LivroEmMaos
    BY DEF LivroEmMaos, Segura
  <1>4. LivroRecebidas \subseteq LivroRecebidas'
    BY DEF LivroRecebidas, Avanca, MesmaHistoria, TypeOK, TypeOKCanal, Historia
  <1>5. ASSUME NEW e \in Envios, Justificada(e)
        PROVE  Justificada(e)'
    <2>1. CASE hist[e].recusada
      BY <2>1 DEF Justificada, Avanca, MesmaHistoria
    <2>2. CASE hist[e].gastas >= tentativas_max
      BY <2>2 DEF Justificada, Avanca, MesmaHistoria, TypeOK, TypeOKCanal, Historia
    <2>3. CASE rem[e].linha # 0 /\ dia - linhas[rem[e].linha].criado > PrazoEspera
      BY <2>3, LinhaDaChamada DEF Justificada, Avanca, TypeOK, TypeOKTransacoes, Linha
    <2>4. QED
      BY <1>5, <2>1, <2>2, <2>3 DEF Justificada
  <1>6. LivroJustificadas \subseteq LivroJustificadas'
    BY <1>5 DEF LivroJustificadas
  <1>7. QED
    BY <1>1, <1>2, <1>3, <1>4, <1>6 DEF Livro!Acontecer

(* Steps that only give up what is held. *)
LEMMA LivroSolta ==
  ASSUME TypeOK, UNCHANGED <<linhas, hist, dia>>, lote' \subseteq lote,
         \A e \in Envios : /\ rem'[e].linha = rem[e].linha /\ rem'[e].id = rem[e].id
                           /\ EmCurso(e)' => EmCurso(e)
  PROVE  Livro!Soltar
  BY SeguraMenos DEF Livro!Soltar, LivroSituacao, Situacao, LivroRecebidas,
     LivroJustificadas, Justificada

---------------------------------------------------------------------------
(* A writer's step: one UPDATE of row id, by a process that held it. *)
EscritaEm(id) ==
  /\ UNCHANGED <<hist, dia>> /\ lote' \subseteq lote
  /\ \A e \in Envios : /\ rem'[e].linha = rem[e].linha /\ rem'[e].id = rem[e].id
                       /\ EmCurso(e)' => EmCurso(e)
  /\ \A j \in Ids : /\ linhas'[j].dono = linhas[j].dono
                    /\ linhas'[j].criado = linhas[j].criado
                    /\ linhas'[j].estado # linhas[j].estado
                         => /\ j = id /\ linhas[j].estado # "ausente"
                            /\ linhas'[j].estado # "ausente"
  /\ \A e \in Envios : rem[e].linha # 0 /\ rem[e].linha = id => Segura(e)

(* An UPDATE of one row is a write about its reply, or changes no verdict. *)
LEMMA LivroEscreve ==
  ASSUME IInv, IInv', NEW id, EscritaEm(id)
  PROVE  Livro!Next
  <1> USE DEF IInv
  <1>1. /\ LivroEmMaos' \subseteq LivroEmMaos
        /\ LivroAlheias' = LivroAlheias /\ LivroRecebidas' = LivroRecebidas
    BY SeguraMenos DEF EscritaEm, LivroRecebidas
  <1>2. LivroJustificadas' = LivroJustificadas
    <2>1. ASSUME NEW e \in Envios
          PROVE  Justificada(e)' <=> Justificada(e)
      <3>1. rem[e].linha # 0 => linhas'[rem[e].linha].criado = linhas[rem[e].linha].criado
        BY LinhaDaChamada DEF EscritaEm
      <3>2. QED
        BY <3>1 DEF EscritaEm, Justificada
    <2>2. QED
      BY <2>1 DEF LivroJustificadas
  <1>3. CASE \A e \in Envios : Situacao(e)' = Situacao(e)
    <2>1. LivroSituacao' = LivroSituacao
      BY <1>3 DEF LivroSituacao
    <2>2. QED
      BY <1>1, <1>2, <2>1 DEF Livro!Next, Livro!Soltar
  <1>4. CASE \E e \in Envios : Situacao(e)' # Situacao(e)
    <2>1. PICK e \in Envios : Situacao(e)' # Situacao(e)
      BY <1>4
    <2>2. rem[e].linha # 0 /\ rem'[e].linha = rem[e].linha
      BY <2>1 DEF EscritaEm, Situacao
    <2>3. /\ rem[e].linha \in Ids /\ linhas[rem[e].linha] \in Linha
          /\ linhas'[rem[e].linha] \in Linha
      BY <2>2, LinhaDaChamada DEF TypeOK, TypeOKTransacoes
    <2>4. linhas'[rem[e].linha].estado # linhas[rem[e].linha].estado
      BY <2>1, <2>2 DEF Situacao
    <2>5. /\ rem[e].linha = id
          /\ linhas[id].estado # "ausente" /\ linhas'[id].estado # "ausente"
      BY <2>3, <2>4 DEF EscritaEm
    <2>6. \A d \in Envios : d # e => Situacao(d)' = Situacao(d)
      <3>1. SUFFICES ASSUME NEW d \in Envios, d # e, rem[d].linha # 0
                     PROVE  Situacao(d)' = Situacao(d)
        BY DEF EscritaEm, Situacao
      <3>2. rem[d].linha # id /\ rem[d].linha \in Ids
        BY <2>2, <2>5, <3>1, LinhaDaChamada
      <3>3. linhas'[rem[d].linha].estado = linhas[rem[d].linha].estado
        BY <3>2 DEF EscritaEm
      <3>4. QED
        BY <3>3 DEF EscritaEm, Situacao
    <2>7. LivroSituacao' = [LivroSituacao EXCEPT ![e] = Situacao(e)']
      BY <2>6 DEF LivroSituacao
    <2>8. e \in LivroEmMaos
      BY <2>2, <2>5 DEF EscritaEm, LivroEmMaos
    <2>9. LivroSituacao[e] \notin {"fora", "esquecida"}
      BY <2>2, <2>3, <2>5 DEF LivroSituacao, Situacao, Linha, Estados, Abertas, Fechadas
    <2>10. Situacao(e)' \in {"entregue", "descartada", "aberta"}
      BY <2>2, <2>3, <2>5 DEF Situacao, Linha, Estados, Abertas, Fechadas
    <2>11. linhas'[id].dono = e /\ id \in Ids
      BY <2>2, <2>3, <2>5, LinhaDaChamada DEF EscritaEm
    <2>12. IdAlheio(id)' => e \in LivroAlheias
      BY <1>1, <2>2, <2>5 DEF LivroAlheias
    <2>13. Situacao(e)' = "entregue" => e \in LivroRecebidas \cup LivroAlheias
      <3>1. SUFFICES ASSUME Situacao(e)' = "entregue", ~IdAlheio(id)'
                     PROVE  e \in LivroRecebidas
        BY <2>12
      <3>2. linhas'[id].estado = "entregue"
        BY <2>2, <2>3, <2>5, <3>1 DEF Situacao, Linha, Estados, Abertas, Fechadas
      <3>3. hist'[e].recebidas > 0
        BY <2>11, <3>1, <3>2 DEF EntregueFoiRecebida
      <3>4. QED
        BY <1>1, <3>3 DEF LivroRecebidas
    <2>14. Situacao(e)' = "descartada" => e \in LivroJustificadas \cup LivroAlheias
      <3>1. SUFFICES ASSUME Situacao(e)' = "descartada", ~IdAlheio(id)'
                     PROVE  e \in LivroJustificadas
        BY <2>12
      <3>2. linhas'[id].estado = "descartada"
        BY <2>2, <2>3, <2>5, <3>1 DEF Situacao, Linha, Estados, Abertas, Fechadas
      <3>3. \/ hist'[e].recusada
            \/ hist'[e].gastas >= tentativas_max
            \/ dia' - linhas'[id].criado > PrazoEspera
        BY <2>11, <3>1, <3>2 DEF DescarteTemCausa
      <3>4. Justificada(e)'
        BY <2>2, <2>5, <3>3 DEF Justificada
      <3>5. QED
        BY <1>2, <3>4 DEF LivroJustificadas
    <2>15. Livro!Escrever(e, Situacao(e)')
      BY <1>1, <1>2, <2>7, <2>8, <2>9, <2>13, <2>14 DEF Livro!Escrever
    <2>16. QED
      BY <2>10, <2>15 DEF Livro!Next, Livro!Vereditos
  <1>5. QED
    BY <1>3, <1>4

(* The two UPDATEs as such writes. *)
LEMMA UmaEscrita ==
  ASSUME TypeOK, NEW id,
         \/ \E novo \in {"entregue", "descartada"} : Gravar(ComEstado(id, novo))
         \/ \E n \in Nat : Gravar(ComErro(id, n)),
         UNCHANGED <<hist, dia>>, lote' \subseteq lote,
         \A e \in Envios : /\ rem'[e].linha = rem[e].linha /\ rem'[e].id = rem[e].id
                           /\ EmCurso(e)' => EmCurso(e),
         \A e \in Envios : rem[e].linha # 0 /\ rem[e].linha = id => Segura(e)
  PROVE  EscritaEm(id)
  <1>1. SUFFICES ASSUME NEW j \in Ids
                 PROVE  /\ linhas'[j].dono = linhas[j].dono
                        /\ linhas'[j].criado = linhas[j].criado
                        /\ linhas'[j].estado # linhas[j].estado
                             => /\ j = id /\ linhas[j].estado # "ausente"
                                /\ linhas'[j].estado # "ausente"
    BY DEF EscritaEm
  <1>2. linhas[j] \in Linha
    BY DEF TypeOK, TypeOKTransacoes
  <1>3. CASE \E novo \in {"entregue", "descartada"} : Gravar(ComEstado(id, novo))
    <2>1. PICK novo \in {"entregue", "descartada"} : Gravar(ComEstado(id, novo))
      BY <1>3
    <2>2. \/ linhas'[j] = linhas[j]
          \/ j = id /\ Existe(j) /\ linhas'[j] = [linhas[j] EXCEPT !.estado = novo]
      BY <2>1, EfeitoEstado DEF Estados, Fechadas
    <2>3. QED
      BY <1>2, <2>2 DEF Linha, Existe
  <1>4. CASE \E n \in Nat : Gravar(ComErro(id, n))
    <2>1. PICK n \in Nat : Gravar(ComErro(id, n))
      BY <1>4
    <2>2. \/ linhas'[j] = linhas[j]
          \/ j = id /\ Existe(j)
             /\ linhas'[j] = [linhas[j] EXCEPT !.estado = "falha", !.tentativas = n]
      BY <2>1, EfeitoErro
    <2>3. QED
      BY <1>2, <2>2 DEF Linha, Existe
  <1>5. QED
    BY <1>3, <1>4

---------------------------------------------------------------------------
(* The steps of the handlers. *)

(* What holds of all calls when one handler's record loses nothing. *)
RemetentesMenos ==
  \A d \in Envios : /\ rem'[d].linha = rem[d].linha /\ rem'[d].id = rem[d].id
                    /\ EmCurso(d)' => EmCurso(d)

(* A call that ends keeps its row and id and holds nothing any more. *)
LEMMA RemetenteTermina ==
  ASSUME TypeOK, NEW e \in Envios, rem' = [rem EXCEPT ![e] = Terminado(@)]
  PROVE  RemetentesMenos
  BY DEF TypeOK, TypeOKRemetente, Remetente, Terminado, RemetentesMenos, EmCurso

(* A call that goes on with its row keeps what it holds. *)
LEMMA RemetenteSegue ==
  ASSUME TypeOK, NEW e \in Envios, EmCurso(e), NEW p, NEW c,
         \/ rem' = [rem EXCEPT ![e].pc = p]
         \/ rem' = [rem EXCEPT ![e].pc = p, ![e].cod = c]
  PROVE  RemetentesMenos
  BY DEF TypeOK, TypeOKRemetente, Remetente, RemetentesMenos, EmCurso

(* Whoever is in course may write about the row whose id it holds. *)
LEMMA SeguraQuemEscreve ==
  ASSUME NEW e \in Envios, EmCurso(e)
  PROVE  \A d \in Envios : rem[d].linha # 0 /\ rem[d].linha = rem[e].id => Segura(d)
  BY DEF Segura

(* registrar's INSERT puts the reply in the abstract journal. *)
LEMMA LivroRegistra ==
  ASSUME IInv, IInv', NEW e \in Envios, RegistrarInsert(e), UNCHANGED varsFila
  PROVE  Livro!Next \/ UNCHANGED Livro!varsRegistro
  <1> USE DEF IInv
  <1>1. /\ rem[e].pc = "novo" /\ rem[e].linha = 0 /\ rem[e].id = 0
        /\ rem[e] \in Remetente
    BY DEF RegistrarInsert, DonosCertos, ChamadasComLinha, TypeOK, TypeOKRemetente
  <1>2. \A d \in Envios : d # e => rem'[d] = rem[d]
    BY RemetenteFica DEF PassoRemetente
  <1>3. UNCHANGED <<hist, dia, lote>>
    BY DEF RegistrarInsert, varsFila
  <1>4. CASE Inserir(e) /\ rem' = [rem EXCEPT ![e].pc = "inserido", ![e].linha = prox]
    <2>1. prox \in Ids /\ prox \notin lote
      BY <1>4 DEF Inserir, Ids, TypeOK, TypeOKTransacoes, TypeOKFila, FilaSabe, LoteSabe
    <2>2. /\ rem'[e].linha = prox /\ rem'[e].id = 0 /\ rem'[e].pc = "inserido"
      BY <1>1, <1>4 DEF TypeOK, TypeOKRemetente, Remetente
    <2>3. /\ linhas'[prox].estado = "pendente" /\ linhas'[prox].criado = dia
          /\ \A j \in Ids : j # prox => linhas'[j] = linhas[j]
      BY <1>4, <2>1 DEF Inserir, TypeOK, TypeOKTransacoes
    <2>4. ASSUME NEW d \in Envios, d # e
          PROVE  /\ Situacao(d)' = Situacao(d) /\ Justificada(d)' = Justificada(d)
                 /\ Segura(d)' = Segura(d)
                 /\ (rem[d].linha # 0 /\ IdAlheio(rem[d].linha))'
                      = (rem[d].linha # 0 /\ IdAlheio(rem[d].linha))
      <3>1. rem'[d] = rem[d]
        BY <1>2, <2>4
      <3>2. rem[d].linha # 0 => rem[d].linha \in Ids /\ rem[d].linha # prox
        BY LinhaDaChamada DEF TypeOK, TypeOKTransacoes
      <3>3. rem[d].linha # 0 => linhas'[rem[d].linha] = linhas[rem[d].linha]
        BY <2>3, <3>2
      <3>4. \A f \in Envios : /\ rem'[f].id = rem[f].id
                              /\ rem[f].id # 0 => rem'[f] = rem[f]
        BY <1>1, <1>2, <2>2
      <3>5. Segura(d)' = Segura(d)
        <4>1. EmCurso(d)' = EmCurso(d)
          BY <3>1 DEF EmCurso
        <4>2. ASSUME rem[d].linha # 0, NEW f \in Envios
              PROVE  (EmCurso(f) /\ rem[f].id = rem[d].linha)'
                       = (EmCurso(f) /\ rem[f].id = rem[d].linha)
          BY <3>1, <3>4, <4>2 DEF EmCurso
        <4>3. QED
          BY <1>3, <3>1, <4>1, <4>2 DEF Segura
      <3>6. (rem[d].linha # 0 /\ IdAlheio(rem[d].linha))'
              = (rem[d].linha # 0 /\ IdAlheio(rem[d].linha))
        BY <3>1, <3>4 DEF IdAlheio
      <3>7. QED
        BY <1>3, <3>1, <3>3, <3>5, <3>6 DEF Situacao, Justificada
    <2>5. Situacao(e) = "fora" /\ Situacao(e)' = "aberta"
      BY <1>1, <2>1, <2>2, <2>3 DEF Situacao, Abertas, Ids
    <2>6. ~Segura(e) /\ Segura(e)'
      BY <1>1, <2>1, <2>2 DEF Segura, EmCurso, Ids
    <2>7. Justificada(e)' = Justificada(e)
      BY <1>1, <1>3, <2>2, <2>3 DEF Justificada, TypeOK, TypeOKTransacoes, TransacoesAssumption
    <2>8. LivroSituacao' = [LivroSituacao EXCEPT ![e] = "aberta"]
      BY <2>4, <2>5 DEF LivroSituacao
    <2>9. LivroEmMaos' = LivroEmMaos \cup {e}
      BY <2>4, <2>6 DEF LivroEmMaos
    <2>10. LivroJustificadas' = LivroJustificadas
      BY <2>4, <2>7 DEF LivroJustificadas
    <2>11. LivroAlheias' \in {LivroAlheias, LivroAlheias \cup {e}}
      <3>1. \A d \in Envios : d # e => (d \in LivroAlheias' <=> d \in LivroAlheias)
        BY <2>4 DEF LivroAlheias
      <3>2. e \notin LivroAlheias /\ LivroAlheias \subseteq Envios /\ LivroAlheias' \subseteq Envios
        BY <1>1 DEF LivroAlheias
      <3>3. QED
        BY <3>1, <3>2
    <2>12. LivroRecebidas' = LivroRecebidas
      BY <1>3 DEF LivroRecebidas
    <2>13. LivroSituacao[e] = "fora"
      BY <2>5 DEF LivroSituacao
    <2>14. QED
      BY <2>8, <2>9, <2>10, <2>11, <2>12, <2>13 DEF Livro!Next, Livro!Registrar
  <1>5. CASE rem' = [rem EXCEPT ![e].pc = "inserido"] /\ UNCHANGED linhas
    <2>1. \A d \in Envios : rem'[d].linha = rem[d].linha /\ rem'[d].id = rem[d].id
      BY <1>1, <1>2, <1>5 DEF TypeOK, TypeOKRemetente, Remetente
    <2>2. \A d \in Envios : rem[d].linha # 0 \/ rem[d].id # 0 => EmCurso(d)' = EmCurso(d)
      BY <1>1, <1>2 DEF EmCurso
    <2>3. ASSUME NEW d \in Envios
          PROVE  Segura(d)' = Segura(d)
      <3>1. \A f \in Envios : rem[d].linha # 0 =>
              ((EmCurso(f) /\ rem[f].id = rem[d].linha)' = (EmCurso(f) /\ rem[f].id = rem[d].linha))
        BY <2>1, <2>2
      <3>2. QED
        BY <1>3, <2>1, <2>2, <3>1 DEF Segura
    <2>4. LivroEmMaos' = LivroEmMaos
      BY <2>3 DEF LivroEmMaos
    <2>5. LivroSituacao' = LivroSituacao
      BY <1>5, <2>1 DEF LivroSituacao, Situacao
    <2>6. LivroAlheias' = LivroAlheias
      BY <2>1 DEF LivroAlheias, IdAlheio
    <2>7. LivroRecebidas' = LivroRecebidas /\ LivroJustificadas' = LivroJustificadas
      BY <1>3, <1>5, <2>1 DEF LivroRecebidas, LivroJustificadas, Justificada
    <2>8. QED
      BY <2>4, <2>5, <2>6, <2>7 DEF Livro!varsRegistro
  <1>6. QED
    BY <1>4, <1>5 DEF RegistrarInsert

(* Reading the rowid may put a foreign row in the handler's hands. *)
LEMMA LivroLeId ==
  ASSUME IInv, IInv', NEW e \in Envios, RegistrarLerId(e), UNCHANGED varsFila
  PROVE  Livro!Next
  <1> USE DEF IInv
  <1>1. rem[e].pc = "inserido" /\ rem[e].id = 0 /\ rem[e] \in Remetente
    BY DEF RegistrarLerId, DonosCertos, ChamadasComLinha, TypeOK, TypeOKRemetente
  <1>2. UNCHANGED <<linhas, hist, dia, lote>>
    BY DEF RegistrarLerId, varsFila
  <1>3. CASE rem' = [rem EXCEPT ![e].pc = "envio", ![e].id = ultimo]
    <2>1. /\ \A d \in Envios : d # e => rem'[d] = rem[d]
          /\ rem'[e].linha = rem[e].linha /\ rem'[e].pc = "envio" /\ rem'[e].id = ultimo
      BY <1>1, <1>3 DEF TypeOK, TypeOKRemetente, Remetente
    <2>2. \A d \in Envios : rem'[d].linha = rem[d].linha /\ EmCurso(d)' = EmCurso(d)
      BY <1>1, <2>1 DEF EmCurso
    <2>3. \A d \in Envios : rem[d].id # 0 => rem'[d].id = rem[d].id
      BY <1>1, <2>1
    <2>4. LivroEmMaos \subseteq LivroEmMaos' /\ LivroAlheias \subseteq LivroAlheias'
      BY <1>2, <2>2, <2>3 DEF LivroEmMaos, LivroAlheias, Segura, IdAlheio
    <2>5. ASSUME NEW d \in LivroEmMaos' \ LivroEmMaos
          PROVE  d \in LivroAlheias'
      <3>1. d \in Envios /\ Segura(d)' /\ ~Segura(d)
        BY <2>5 DEF LivroEmMaos
      <3>2. rem[d].linha # 0 /\ ~EmCurso(d) /\ rem[d].linha \notin lote
        BY <1>2, <2>2, <3>1 DEF Segura
      <3>3. PICK f \in Envios : EmCurso(f)' /\ rem'[f].id = rem'[d].linha
        BY <1>2, <2>2, <3>1, <3>2 DEF Segura
      <3>4. rem'[f].linha # rem'[d].linha
        BY <2>2, <3>1, <3>2, <3>3, LinhaDaChamada
      <3>5. QED
        BY <2>2, <3>1, <3>2, <3>3, <3>4 DEF LivroAlheias, IdAlheio
    <2>6. LivroSituacao' = LivroSituacao /\ LivroRecebidas' = LivroRecebidas
      BY <1>2, <2>2 DEF LivroSituacao, Situacao, LivroRecebidas
    <2>7. LivroJustificadas' = LivroJustificadas
      BY <1>2, <2>2 DEF LivroJustificadas, Justificada
    <2>8. Livro!Pegar
      BY <2>4, <2>5, <2>6, <2>7 DEF Livro!Pegar
    <2>9. QED
      BY <2>8 DEF Livro!Next
  <1>4. CASE rem' = [rem EXCEPT ![e] = Terminado(@)]
    BY <1>2, <1>4, RemetenteTermina, LivroSolta DEF Livro!Next, RemetentesMenos
  <1>5. QED
    BY <1>3, <1>4 DEF RegistrarLerId

(* Every step of a handler is one of the abstract journal. *)
LEMMA LivroRemetente ==
  ASSUME IInv, IInv', Avanca, NEW e \in Envios, PassoRemetente(e) \/ MatarTratador(e),
         UNCHANGED varsFila
  PROVE  Livro!Next \/ UNCHANGED Livro!varsRegistro
  <1> USE DEF IInv
  <1>0. UNCHANGED lote
    BY DEF varsFila
  <1>1. CASE EnviarResposta(e)
    <2>1. PICK cod \in Codigos, chegou \in BOOLEAN :
            /\ enviar(e, cod, chegou)
            /\ rem' = [rem EXCEPT ![e].pc = "gravacao", ![e].cod = cod]
      BY <1>1 DEF EnviarResposta
    <2>2. \A d \in Envios : /\ rem'[d].linha = rem[d].linha /\ rem'[d].id = rem[d].id
                            /\ EmCurso(d)' <=> EmCurso(d)
      BY <1>1, <2>1 DEF EnviarResposta, EmCurso, TypeOK, TypeOKRemetente, Remetente
    <2>3. UNCHANGED <<linhas, lote>>
      BY <1>0, <1>1 DEF EnviarResposta
    <2>4. QED
      BY <2>2, <2>3, LivroAcontece DEF Livro!Next
  <1>2. CASE GravarResultado(e)
    <2>1. EmCurso(e)
      BY <1>2 DEF GravarResultado, EmCurso
    <2>2. \/ rem' = [rem EXCEPT ![e] = Terminado(@)]
          \/ rem' = [rem EXCEPT ![e].pc = "descarte"]
      BY <1>2 DEF GravarResultado
    <2>3. RemetentesMenos
      BY <2>1, <2>2, RemetenteTermina, RemetenteSegue
    <2>4. \/ \E novo \in {"entregue", "descartada"} : Gravar(ComEstado(rem[e].id, novo))
          \/ \E n \in Nat : Gravar(ComErro(rem[e].id, n))
      BY <1>2 DEF GravarResultado, marcar_entregue, atualizar_erro
    <2>5. EscritaEm(rem[e].id)
      BY <1>0, <1>2, <2>1, <2>3, <2>4, UmaEscrita, SeguraQuemEscreve
         DEF GravarResultado, RemetentesMenos
    <2>6. QED
      BY <2>5, LivroEscreve
  <1>3. CASE DescartarResposta(e)
    <2>1. EmCurso(e)
      BY <1>3 DEF DescartarResposta, EmCurso
    <2>2. RemetentesMenos
      BY <1>3, RemetenteTermina DEF DescartarResposta
    <2>3. Gravar(ComEstado(rem[e].id, "descartada"))
      BY <1>3 DEF DescartarResposta, atualizar_status
    <2>4. EscritaEm(rem[e].id)
      BY <1>0, <1>3, <2>1, <2>2, <2>3, UmaEscrita, SeguraQuemEscreve
         DEF DescartarResposta, RemetentesMenos
    <2>5. QED
      BY <2>4, LivroEscreve
  <1>4. CASE MatarTratador(e)
    BY <1>0, <1>4, RemetenteTermina, LivroSolta
       DEF MatarTratador, Livro!Next, RemetentesMenos
  <1>5. QED
    BY <1>1, <1>2, <1>3, <1>4, LivroRegistra, LivroLeId DEF PassoRemetente

---------------------------------------------------------------------------
(* The steps of the queue. *)

(* The queue may write about the rows of its snapshot. *)
LEMMA FilaSegura ==
  ASSUME NEW id \in lote
  PROVE  \A d \in Envios : rem[d].linha # 0 /\ rem[d].linha = id => Segura(d)
  BY DEF Segura

(* A write of the queue is a write about the reply of its first row. *)
LEMMA LivroFilaEscreve ==
  ASSUME IInv, IInv', UNCHANGED rem, NEW id \in Ids,
         VencerPrazo(id) \/ Esgotar(id) \/ GravarReenvio(id) \/ Descartar(id)
  PROVE  Livro!Next
  <1> USE DEF IInv
  <1>1. id \in lote /\ visto[id] \in Nat /\ visto[id] + 1 \in Nat
    BY DEF VencerPrazo, Esgotar, GravarReenvio, Descartar, Primeira, TypeOK, TypeOKFila
  <1>2. \/ \E novo \in {"entregue", "descartada"} : Gravar(ComEstado(id, novo))
        \/ \E n \in Nat : Gravar(ComErro(id, n))
    BY <1>1 DEF VencerPrazo, Esgotar, GravarReenvio, Descartar, marcar_entregue,
       atualizar_status, atualizar_erro
  <1>3. UNCHANGED <<hist, dia>>
    BY DEF VencerPrazo, Esgotar, GravarReenvio, Descartar, Mantem
  <1>4. lote' \subseteq lote
    BY DEF VencerPrazo, Esgotar, GravarReenvio, Descartar, Seguir
  <1>5. \A d \in Envios : /\ rem'[d].linha = rem[d].linha /\ rem'[d].id = rem[d].id
                          /\ EmCurso(d)' => EmCurso(d)
    BY DEF EmCurso
  <1>6. EscritaEm(id)
    BY <1>1, <1>2, <1>3, <1>4, <1>5, UmaEscrita, FilaSegura
  <1>7. QED
    BY <1>6, LivroEscreve

(* A snapshot takes open replies only. *)
LEMMA LivroInicia ==
  ASSUME IInv, UNCHANGED rem, IniciarCiclo
  PROVE  Livro!Next
  <1> USE DEF IInv
  <1>1. UNCHANGED <<linhas, hist, dia>> /\ lote = {} /\ lote' = Pendentes
    BY DEF IniciarCiclo, Mantem, FilaSabe
  <1>2. /\ LivroSituacao' = LivroSituacao /\ LivroRecebidas' = LivroRecebidas
        /\ LivroJustificadas' = LivroJustificadas /\ LivroAlheias' = LivroAlheias
    BY <1>1 DEF LivroSituacao, Situacao, LivroRecebidas, LivroJustificadas, Justificada,
       LivroAlheias, IdAlheio
  <1>3. LivroEmMaos \subseteq LivroEmMaos'
    BY <1>1 DEF LivroEmMaos, Segura, EmCurso
  <1>4. \A d \in LivroEmMaos' \ LivroEmMaos : LivroSituacao[d] = "aberta"
    <2>1. SUFFICES ASSUME NEW d \in Envios, Segura(d)', ~Segura(d)
                   PROVE  Situacao(d) = "aberta"
      BY DEF LivroEmMaos, LivroSituacao
    <2>2. rem[d].linha # 0 /\ rem[d].linha \in Pendentes
      BY <1>1, <2>1 DEF Segura, EmCurso
    <2>3. QED
      BY <2>2 DEF Pendentes, Situacao
  <1>5. Livro!Pegar
    BY <1>2, <1>3, <1>4 DEF Livro!Pegar
  <1>6. QED
    BY <1>5 DEF Livro!Next

(* Every step of the queue is one of the abstract journal. *)
LEMMA LivroFila ==
  ASSUME IInv, IInv', Avanca, PassoFila, UNCHANGED rem
  PROVE  Livro!Next
  <1> USE DEF IInv
  <1>1. \A d \in Envios : /\ rem'[d].linha = rem[d].linha /\ rem'[d].id = rem[d].id
                          /\ (EmCurso(d)' <=> EmCurso(d))
    BY DEF EmCurso
  <1>2. CASE ConsultarPonte \/ TerminarCiclo
    <2>1. UNCHANGED <<linhas, hist, dia>> /\ lote' = lote
      BY <1>2 DEF ConsultarPonte, TerminarCiclo, Mantem
    <2>2. QED
      BY <1>1, <2>1, LivroSolta DEF Livro!Next
  <1>3. CASE \E id \in Ids : Aguardar(id)
    <2>1. UNCHANGED <<linhas, hist, dia>> /\ lote' \subseteq lote
      BY <1>3 DEF Aguardar, Mantem, Seguir
    <2>2. QED
      BY <1>1, <2>1, LivroSolta DEF Livro!Next
  <1>4. CASE \E id \in Ids : Reenviar(id)
    <2>1. UNCHANGED <<linhas, lote>>
      BY <1>4 DEF Reenviar
    <2>2. QED
      BY <1>1, <2>1, LivroAcontece DEF Livro!Next
  <1>5. QED
    BY <1>2, <1>3, <1>4, LivroInicia, LivroFilaEscreve DEF PassoFila

---------------------------------------------------------------------------
(* The other steps. *)

(* Maintenance forgets replies with a verdict. *)
LEMMA LivroManutencao ==
  ASSUME IInv, Manutencao
  PROVE  Livro!Next
  <1> USE DEF IInv
  <1> DEFINE S == {e \in Envios : Situacao(e)' # Situacao(e)}
  <1>1. /\ UNCHANGED <<hist, dia, rem, lote>>
        /\ linhas' = [i \in Ids |->
             IF linhas[i].estado \in Fechadas /\ dia - linhas[i].criado > Retencao
             THEN [linhas[i] EXCEPT !.estado = "ausente"] ELSE linhas[i]]
    BY DEF Manutencao, limpar_antigas, varsFila
  <1>2. ASSUME NEW e \in Envios, rem[e].linha # 0
        PROVE  /\ linhas'[rem[e].linha].criado = linhas[rem[e].linha].criado
               /\ \/ linhas'[rem[e].linha].estado = linhas[rem[e].linha].estado
                  \/ /\ linhas[rem[e].linha].estado \in Fechadas
                     /\ linhas'[rem[e].linha].estado = "ausente"
    BY <1>1, <1>2, LinhaDaChamada DEF Linha
  <1>3. \A e \in S : Situacao(e) \in {"entregue", "descartada"} /\ Situacao(e)' = "esquecida"
    BY <1>1, <1>2 DEF Situacao, Abertas, Fechadas
  <1>4. /\ LivroRecebidas' = LivroRecebidas /\ LivroAlheias' = LivroAlheias
        /\ LivroEmMaos' = LivroEmMaos
    BY <1>1 DEF LivroRecebidas, LivroAlheias, IdAlheio, LivroEmMaos, Segura, EmCurso
  <1>5. \A e \in Envios : Justificada(e)' <=> Justificada(e)
    BY <1>1, <1>2 DEF Justificada
  <1>6. LivroJustificadas' = LivroJustificadas
    BY <1>5 DEF LivroJustificadas
  <1>7. LivroSituacao' = [e \in Envios |-> IF e \in S THEN "esquecida" ELSE LivroSituacao[e]]
    BY <1>3 DEF LivroSituacao
  <1>8. \A e \in S : LivroSituacao[e] \in {"entregue", "descartada"}
    BY <1>3 DEF LivroSituacao
  <1>9. S \in SUBSET Envios
    OBVIOUS
  <1>10. Livro!Esquecer(S)
    BY <1>4, <1>6, <1>7, <1>8 DEF Livro!Esquecer, Livro!Vereditos
  <1>11. QED
    BY <1>9, <1>10 DEF Livro!Next

(* Every step of Entrega is a step of the abstract journal, or none. *)
LEMMA LivroPasso ==
  ASSUME IInv, IInv', [Next]_vars
  PROVE  [Livro!Next]_(Livro!varsRegistro)
  <1> USE DEF IInv
  <1>0. Avanca
    BY PassoAvanca
  <1>1. CASE Remetentes
    BY <1>0, <1>1, LivroRemetente DEF Remetentes
  <1>2. CASE FilaAnda
    BY <1>0, <1>2, LivroFila DEF FilaAnda
  <1>3. CASE Manutencao
    BY <1>3, LivroManutencao
  <1>4. CASE OutrasTabelas \/ Relogio \/ Ponte \/ UNCHANGED vars
    <2>1. UNCHANGED <<linhas, lote, rem>>
      BY <1>4 DEF OutrasTabelas, InserirEmOutraTabela, Relogio, PassarDia, Ponte, vars, varsFila
    <2>2. \A d \in Envios : /\ rem'[d].linha = rem[d].linha /\ rem'[d].id = rem[d].id
                            /\ (EmCurso(d)' <=> EmCurso(d))
      BY <2>1 DEF EmCurso
    <2>3. QED
      BY <1>0, <2>1, <2>2, LivroAcontece DEF Livro!Next
  <1>5. CASE Reiniciar
    <2>1. UNCHANGED <<linhas, hist, dia>> /\ lote' = {}
      BY <1>5 DEF Reiniciar
    <2>2. \A d \in Envios : /\ rem'[d].linha = rem[d].linha /\ rem'[d].id = rem[d].id
                            /\ (EmCurso(d)' => EmCurso(d))
      BY <1>5 DEF Reiniciar, Terminado, EmCurso, TypeOK, TypeOKRemetente, Remetente
    <2>3. QED
      BY <2>1, <2>2, LivroSolta DEF Livro!Next
  <1>6. QED
    BY <1>1, <1>2, <1>3, <1>4, <1>5 DEF Next

(* Entrega implements the abstract journal: nothing handlers, queue,       *)
(* failures and restarts do shows a reader of the journal more than the    *)
(* promises of Registro.                                                   *)
THEOREM RegistroCumprido == Spec => CumpreRegistro
  <1>1. IInv /\ IInv' /\ [Next]_vars => [Livro!Next]_(Livro!varsRegistro)
    BY LivroPasso
  <1>2. QED
    BY <1>1, LivroInicial, InvCorrect, PTL DEF Spec, CumpreRegistro, Livro!Spec

(* A verdict nobody can still write about is final: no interleaving of     *)
(* handler and queue, no restart and no failing statement reopens it.      *)
THEOREM VereditoCorrect == Spec => VereditoFinal
  <1>1. ASSUME [Livro!Next]_(Livro!varsRegistro), ~UNCHANGED Livro!varsRegistro, NEW e \in Envios,
               LivroSituacao[e] \in Livro!Vereditos, e \notin LivroEmMaos, e \notin LivroAlheias'
        PROVE  /\ LivroSituacao'[e] \in {LivroSituacao[e], "esquecida"}
               /\ e \notin LivroEmMaos'
    <2>0. e \in DOMAIN LivroSituacao /\ LivroSituacao = [d \in Envios |-> LivroSituacao[d]]
      BY DEF LivroSituacao
    <2>1. CASE \E d \in Envios : Livro!Registrar(d)
      BY <1>1, <2>0, <2>1 DEF Livro!Registrar, Livro!Vereditos
    <2>2. CASE Livro!Acontecer \/ Livro!Soltar
      BY <1>1, <2>2 DEF Livro!Acontecer, Livro!Soltar
    <2>3. CASE Livro!Pegar
      BY <1>1, <2>3 DEF Livro!Pegar, Livro!Vereditos
    <2>4. CASE \E d \in Envios, nova \in Livro!Vereditos \cup {"aberta"} : Livro!Escrever(d, nova)
      BY <1>1, <2>0, <2>4 DEF Livro!Escrever
    <2>5. CASE \E S \in SUBSET Envios : Livro!Esquecer(S)
      BY <1>1, <2>0, <2>5 DEF Livro!Esquecer
    <2>6. QED
      BY <1>1, <2>1, <2>2, <2>3, <2>4, <2>5 DEF Livro!Next
  <1>2. [Livro!Next]_(Livro!varsRegistro) => [Livro!NaoReabre]_(Livro!varsRegistro)
    BY <1>1 DEF Livro!NaoReabre
  <1>3. QED
    BY <1>2, RegistroCumprido, PTL DEF CumpreRegistro, Livro!Spec, VereditoFinal,
       Livro!VereditoFinal
=============================================================================
