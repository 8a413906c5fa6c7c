------------------------------ MODULE SacSano -------------------------------
(***************************************************************************)
(* What holds of the files of SAC on a sound disk, where each has the      *)
(* blocks that its size needs and no other, and no block is lost: the      *)
(* operations keep the disk sound but for a truncation to a multiple of    *)
(* the block or past the end and for a write without room (PasoSano), and  *)
(* a write inside one block of pointers is what is read after it           *)
(* (EscritoEntero).  Both rest on what one turn of the loops of            *)
(* escribir_final_archivo (Avance) and of escribir_dentro_archivo          *)
(* (EnDentro) keeps.                                                       *)
(***************************************************************************)
EXTENDS SacProofs

(***************************************************************************)
(* Sizes, data blocks and positions.                                       *)
(***************************************************************************)
Pos(i, j) == i * CANT_DIRECTOS + j

\* Rows of B before a row.
LEMMA Filas ==
  ASSUME NEW a \in Nat, NEW b \in Nat, NEW B \in Nat, a < b
  PROVE  a * B + B <= b * B /\ a * B \in Nat /\ b * B \in Nat
  <1>1. PICK y \in Nat : b = a + 1 + y
    OBVIOUS
  <1>2. b * B = a * B + B + y * B /\ y * B \in Nat /\ a * B \in Nat
    BY <1>1
  <1>3. QED
    BY <1>2

\* A number has one row and one column.
LEMMA DivUnico ==
  ASSUME NEW a \in Nat, NEW r \in Nat, NEW B \in Nat \ {0}, r < B, NEW k, k = a * B + r
  PROVE  k \div B = a /\ k % B = r
  <1>0. k \in Nat
    <2>1. a * B \in Nat
      OBVIOUS
    <2>2. QED
      BY <2>1
  <1>1. PICK q \in Nat, s \in Nat : q = k \div B /\ s = k % B /\ k = q * B + s /\ s < B
    BY <1>0, Entre
  <1>2. ASSUME q < a PROVE FALSE
    BY <1>1, <1>2, Filas
  <1>3. ASSUME a < q PROVE FALSE
    BY <1>1, <1>3, Filas
  <1>4. q = a
    BY <1>2, <1>3
  <1>5. QED
    BY <1>1, <1>4

\* The rows begin at the multiples.
LEMMA Multiplo ==
  ASSUME NEW a \in Nat, NEW B \in Nat \ {0}, NEW k, k = a * B
  PROVE  k % B = 0
  <1>1. k = a * B + 0
    <2>1. a * B \in Nat
      OBVIOUS
    <2>2. QED
      BY <2>1
  <1>2. 0 < B
    OBVIOUS
  <1>3. QED
    BY <1>1, <1>2, DivUnico

\* A data block and its place in the blocks of pointers.
LEMMA Posiciones ==
  /\ \A i \in Nat, j \in Nat : Pos(i, j) \in Nat /\ Pos(i, j) = Pos(i, 0) + j
  /\ \A i \in Nat : Pos(i + 1, 0) = Pos(i, 0) + CANT_DIRECTOS
  /\ \A i \in Nat, h \in Nat : i < h => Pos(i, 0) + CANT_DIRECTOS <= Pos(h, 0)
  /\ \A i \in Nat, j \in Directos : Indirecto(Pos(i, j)) = i /\ Directo(Pos(i, j)) = j
  /\ \A k \in Nat : /\ Pos(Indirecto(k), Directo(k)) = k
                    /\ Indirecto(k) \in Nat /\ Directo(k) \in Directos
  /\ Pos(0, 0) = 0
  <1>1. PICK C \in Nat \ {0} : C = CANT_DIRECTOS
    BY SacBloquesConstantes
  <1>2. \A i \in Nat, j \in Nat : Pos(i, j) \in Nat /\ Pos(i, j) = Pos(i, 0) + j
    <2>1. ASSUME NEW i \in Nat, NEW j \in Nat
          PROVE  Pos(i, j) \in Nat /\ Pos(i, j) = Pos(i, 0) + j
      <3>1. i * C \in Nat
        OBVIOUS
      <3>2. QED
        BY <1>1, <3>1 DEF Pos
    <2>2. QED
      BY <2>1
  <1>3. \A i \in Nat, h \in Nat : i < h => Pos(i, 0) + CANT_DIRECTOS <= Pos(h, 0)
    <2>1. ASSUME NEW i \in Nat, NEW h \in Nat, i < h
          PROVE  Pos(i, 0) + CANT_DIRECTOS <= Pos(h, 0)
      <3>1. i * C + C <= h * C /\ i * C \in Nat /\ h * C \in Nat
        BY <2>1, Filas
      <3>2. QED
        BY <1>1, <3>1 DEF Pos
    <2>2. QED
      BY <2>1
  <1>4. \A i \in Nat, j \in Directos : Indirecto(Pos(i, j)) = i /\ Directo(Pos(i, j)) = j
    <2>1. ASSUME NEW i \in Nat, NEW j \in Directos
          PROVE  Indirecto(Pos(i, j)) = i /\ Directo(Pos(i, j)) = j
      <3>1. j \in Nat /\ j < C
        BY <1>1 DEF Directos
      <3>2. PICK k : k = i * C + j
        OBVIOUS
      <3>3. k \div C = i /\ k % C = j
        BY <3>1, <3>2, DivUnico
      <3>4. QED
        BY <1>1, <3>2, <3>3 DEF Pos, Indirecto, Directo
    <2>2. QED
      BY <2>1
  <1>5. \A k \in Nat : /\ Pos(Indirecto(k), Directo(k)) = k
                       /\ Indirecto(k) \in Nat /\ Directo(k) \in Directos
    <2>1. ASSUME NEW k \in Nat
          PROVE  /\ Pos(Indirecto(k), Directo(k)) = k
                 /\ Indirecto(k) \in Nat /\ Directo(k) \in Directos
      <3>1. PICK q \in Nat, r \in Nat : q = k \div C /\ r = k % C /\ k = q * C + r /\ r < C
        BY Entre
      <3>2. QED
        BY <1>1, <3>1 DEF Pos, Indirecto, Directo, Directos
    <2>2. QED
      BY <2>1
  <1>6. \A i \in Nat : Pos(i + 1, 0) = Pos(i, 0) + CANT_DIRECTOS
    BY <1>1 DEF Pos
  <1>7. Pos(0, 0) = 0
    BY <1>1 DEF Pos
  <1>8. QED
    BY <1>2, <1>3, <1>4, <1>5, <1>6, <1>7

\* The positions of a file are those of its blocks of pointers.
LEMMA PosicionesDelArchivo ==
  /\ \A i \in Indirectos, j \in Directos : Pos(i, j) \in 0..CantDatos - 1
  /\ CantDatos = Pos(CANT_INDIR_SIMPLE, 0) /\ CantDatos \in Nat
  /\ CANT_INDIR_SIMPLE - 1 \in Indirectos
  <1>1. PICK C \in Nat \ {0}, I \in Nat \ {0} : C = CANT_DIRECTOS /\ I = CANT_INDIR_SIMPLE
    BY SacBloquesConstantes
  <1>2. CantDatos = Pos(CANT_INDIR_SIMPLE, 0) /\ CantDatos \in Nat
    <2>1. I * C \in Nat
      OBVIOUS
    <2>2. QED
      BY <1>1, <2>1 DEF CantDatos, Pos
  <1>3. ASSUME NEW i \in Indirectos, NEW j \in Directos
        PROVE  Pos(i, j) \in 0..CantDatos - 1
    <2>1. i \in Nat /\ i < I /\ j \in Nat /\ j < C /\ I \in Nat
      BY <1>1 DEF Indirectos, Directos
    <2>2. Pos(i, j) \in Nat /\ Pos(i, j) = Pos(i, 0) + j /\ Pos(i, 0) \in Nat
      BY <2>1, Posiciones
    <2>3. Pos(i, 0) + CANT_DIRECTOS <= Pos(I, 0)
      BY <2>1, Posiciones
    <2>4. QED
      BY <1>1, <1>2, <2>1, <2>2, <2>3
  <1>4. CANT_INDIR_SIMPLE - 1 \in Indirectos
    BY <1>1 DEF Indirectos
  <1>5. QED
    BY <1>2, <1>3, <1>4

\* The blocks of a size: as few as hold it.
LEMMA CuantosEs ==
  ASSUME NEW t \in Nat
  PROVE  LET Q == cant_bloques_necesaria(t) IN
         /\ Q \in Nat /\ t <= Q * BLOCK_SIZE
         /\ Q # 0 => (Q - 1) * BLOCK_SIZE < t
         /\ Q = 0 <=> t = 0
  <1>1. PICK B \in Nat \ {0} : B = BLOCK_SIZE
    BY SacBloquesConstantes
  <1>2. PICK x \in Nat : x = t + B - 1
    OBVIOUS
  <1>3. PICK q \in Nat, r \in Nat : q = x \div B /\ x = q * B + r /\ r < B
    BY Entre
  <1>4. cant_bloques_necesaria(t) = q
    BY <1>1, <1>2, <1>3 DEF cant_bloques_necesaria
  <1>5. PICK z \in Nat : z = q * B
    OBVIOUS
  <1>6. t <= z /\ z < t + B
    BY <1>2, <1>3, <1>5
  <1>7. (q - 1) * B = z - B
    BY <1>5
  <1>8. q = 0 <=> t = 0
    <2>1. q = 0 => z = 0
      BY <1>5
    <2>2. q # 0 => B <= z
      <3>1. q # 0 => 0 * B + B <= q * B
        BY Filas
      <3>2. QED
        BY <1>5, <3>1
    <2>3. QED
      BY <1>6, <2>1, <2>2
  <1>9. QED
    BY <1>1, <1>4, <1>5, <1>6, <1>7, <1>8

\* No other number of blocks is as few as hold a size.
LEMMA CuantosSon ==
  ASSUME NEW t \in Nat, NEW Q \in Nat, t <= Q * BLOCK_SIZE,
         Q # 0 => (Q - 1) * BLOCK_SIZE < t
  PROVE  cant_bloques_necesaria(t) = Q
  <1>1. PICK B \in Nat \ {0} : B = BLOCK_SIZE
    BY SacBloquesConstantes
  <1>2. PICK R \in Nat : /\ R = cant_bloques_necesaria(t) /\ t <= R * B
                         /\ R # 0 => (R - 1) * B < t
    BY <1>1, CuantosEs
  <1>3. ASSUME NEW a \in Nat, NEW b \in Nat, t <= a * B, b # 0 => (b - 1) * B < t
        PROVE  b <= a
    <2>1. ASSUME a < b PROVE FALSE
      <3>1. PICK m \in Nat : b = m + 1 /\ a <= m
        BY <2>1
      <3>2. m * B < t
        BY <1>3, <3>1
      <3>3. a = m \/ a < m
        BY <3>1
      <3>4. a * B <= m * B /\ a * B \in Nat /\ m * B \in Nat
        BY <3>3, Filas
      <3>5. QED
        BY <1>3, <3>2, <3>4
    <2>2. QED
      BY <2>1
  <1>4. R <= Q
    BY <1>1, <1>2, <1>3
  <1>5. Q <= R
    BY <1>1, <1>2, <1>3
  <1>6. QED
    BY <1>2, <1>4, <1>5

\* A greater size has as many blocks or more.
LEMMA CuantosCrecen ==
  ASSUME NEW s \in Nat, NEW t \in Nat, s <= t
  PROVE  cant_bloques_necesaria(s) <= cant_bloques_necesaria(t)
  <1>1. PICK B \in Nat \ {0} : B = BLOCK_SIZE
    BY SacBloquesConstantes
  <1>2. PICK Q \in Nat : Q = cant_bloques_necesaria(s) /\ (Q # 0 => (Q - 1) * B < s)
    BY <1>1, CuantosEs
  <1>3. PICK R \in Nat : R = cant_bloques_necesaria(t) /\ t <= R * B
    BY <1>1, CuantosEs
  <1>4. ASSUME R < Q PROVE FALSE
    <2>1. PICK m \in Nat : Q = m + 1 /\ R <= m
      BY <1>4
    <2>2. m * B < s
      BY <1>2, <2>1
    <2>3. R = m \/ R < m
      BY <2>1
    <2>4. R * B <= m * B /\ R * B \in Nat /\ m * B \in Nat
      BY <2>3, Filas
    <2>5. QED
      BY <1>3, <2>2, <2>4
  <1>5. QED
    BY <1>2, <1>3, <1>4

\* An offset and its block.
LEMMA OffsetEs ==
  ASSUME NEW x \in Nat
  PROVE  /\ NroBloque(x) \in Nat /\ EnBloque(x) \in Nat /\ EnBloque(x) < BLOCK_SIZE
         /\ NroBloque(x) * BLOCK_SIZE \in Nat
         /\ x = NroBloque(x) * BLOCK_SIZE + EnBloque(x)
  <1>1. PICK B \in Nat \ {0} : B = BLOCK_SIZE
    BY SacBloquesConstantes
  <1>2. PICK q \in Nat, r \in Nat : q = x \div B /\ r = x % B /\ x = q * B + r /\ r < B
    BY Entre
  <1>3. q * B \in Nat
    OBVIOUS
  <1>4. QED
    BY <1>1, <1>2, <1>3 DEF NroBloque, EnBloque

\* The blocks of a size, from the block of its end.
LEMMA CuantosDe ==
  ASSUME NEW t \in Nat
  PROVE  cant_bloques_necesaria(t) = IF EnBloque(t) = 0 THEN NroBloque(t) ELSE NroBloque(t) + 1
  <1>1. PICK B \in Nat \ {0} : B = BLOCK_SIZE
    BY SacBloquesConstantes
  <1>2. PICK q \in Nat, r \in Nat : /\ q = NroBloque(t) /\ r = EnBloque(t)
                                    /\ t = q * B + r /\ r < B /\ q * B \in Nat
    BY <1>1, OffsetEs
  <1>3. CASE r = 0
    <2>1. q # 0 => (q - 1) * B < q * B
      BY Filas
    <2>2. QED
      BY <1>1, <1>2, <1>3, <2>1, CuantosSon
  <1>4. CASE r # 0
    <2>1. (q + 1) * B = q * B + B /\ (q + 1 - 1) * B = q * B
      OBVIOUS
    <2>2. t <= (q + 1) * B /\ (q + 1 - 1) * B < t
      BY <1>2, <1>4, <2>1
    <2>3. cant_bloques_necesaria(t) = q + 1
      BY <1>1, <1>2, <2>2, CuantosSon
    <2>4. QED
      BY <1>2, <1>4, <2>3
  <1>5. QED
    BY <1>3, <1>4

\* The bytes of a size are in its blocks.
LEMMA BloqueDelByte ==
  ASSUME NEW t \in Nat, NEW x \in Nat, x < t
  PROVE  NroBloque(x) < cant_bloques_necesaria(t)
  <1>1. PICK B \in Nat \ {0} : B = BLOCK_SIZE
    BY SacBloquesConstantes
  <1>2. PICK q \in Nat : q = NroBloque(x) /\ q * B <= x /\ q * B \in Nat
    BY <1>1, OffsetEs
  <1>3. PICK Q \in Nat : Q = cant_bloques_necesaria(t) /\ t <= Q * B
    BY <1>1, CuantosEs
  <1>4. ASSUME Q <= q PROVE FALSE
    <2>1. Q * B <= q * B /\ Q * B \in Nat
      BY <1>4, Filas
    <2>2. QED
      BY <1>2, <1>3, <2>1
  <1>5. QED
    BY <1>2, <1>3, <1>4

\* The blocks of a file and the blocks of pointers that these need.
Peso(q) == q + (q + CANT_DIRECTOS - 1) \div CANT_DIRECTOS

\* The free blocks that the data block q takes: a block of pointers too at its start.
Falta(q) == IF Directo(q) = 0 THEN 2 ELSE 1

\* One block more needs that block, and a block of pointers at its start.
LEMMA PesoSigue ==
  ASSUME NEW q \in Nat
  PROVE  Peso(q) \in Nat /\ Peso(q + 1) = Peso(q) + Falta(q)
  <1>1. PICK C \in Nat \ {0} : C = CANT_DIRECTOS
    BY SacBloquesConstantes
  <1>2. PICK a \in Nat, r \in Nat : a = q \div C /\ r = q % C /\ q = a * C + r /\ r < C
    BY Entre
  <1>3. (q + 1 + C - 1) \div C = a + 1
    <2>1. (a + 1) * C = a * C + C /\ a * C \in Nat
      OBVIOUS
    <2>2. PICK b \in Nat, k \in Nat : b = a + 1 /\ k = q + 1 + C - 1 /\ k = b * C + r
      BY <1>2, <2>1
    <2>3. k \div C = b
      <3>1. k = b * C + r /\ r < C
        BY <1>2, <2>2
      <3>2. QED
        BY <3>1, DivUnico
    <2>4. (q + 1 + C - 1) \div C = k \div C
      BY <2>2, Zenon
    <2>5. QED
      BY <2>2, <2>3, <2>4, Zenon
  <1>4. CASE r = 0
    <2>1. q + C - 1 = a * C + (C - 1) /\ C - 1 \in Nat /\ C - 1 < C
      <3>1. a * C \in Nat
        OBVIOUS
      <3>2. QED
        BY <1>2, <1>4, <3>1
    <2>2. (q + C - 1) \div C = a
      BY <2>1, DivUnico
    <2>3. QED
      BY <1>1, <1>2, <1>3, <1>4, <2>2 DEF Peso, Falta, Directo
  <1>5. CASE r # 0
    <2>1. (a + 1) * C = a * C + C /\ a * C \in Nat
      OBVIOUS
    <2>2. PICK b \in Nat, k \in Nat, s \in Nat :
            b = a + 1 /\ k = q + C - 1 /\ s = r - 1 /\ s < C /\ k = b * C + s
      BY <1>2, <1>5, <2>1
    <2>3. (q + C - 1) \div C = a + 1
      <3>1. k \div C = b
        <4>1. k = b * C + s /\ s < C
          BY <2>2
        <4>2. QED
          BY <4>1, DivUnico
      <3>2. (q + C - 1) \div C = k \div C
        BY <2>2, Zenon
      <3>3. QED
        BY <2>2, <3>1, <3>2, Zenon
    <2>4. QED
      BY <1>1, <1>2, <1>3, <1>5, <2>3 DEF Peso, Falta, Directo
  <1>6. QED
    BY <1>4, <1>5

\* More data blocks need as many blocks or more.
LEMMA PesoCrece ==
  ASSUME NEW a \in Nat, NEW b \in Nat, a <= b
  PROVE  Peso(a) <= Peso(b)
  <1> DEFINE N == b - a
             S == {n \in 0..N : Peso(a) <= Peso(a + n)}
  <1>1. N \in Nat
    OBVIOUS
  <1>2. 0 \in S
    BY PesoSigue
  <1>3. \A n \in 0..N : n \in S /\ n # N => n + 1 \in S
    <2>1. ASSUME NEW n \in 0..N, n \in S, n # N PROVE n + 1 \in S
      <3>1. PICK m \in Nat : m = a + n /\ a + (n + 1) = m + 1
        OBVIOUS
      <3>2. Peso(m) \in Nat /\ Peso(m + 1) = Peso(m) + Falta(m) /\ Falta(m) \in {1, 2}
        BY PesoSigue DEF Falta
      <3>3. Peso(a) <= Peso(m) /\ Peso(a) \in Nat
        BY <2>1, <3>1, PesoSigue
      <3>4. QED
        BY <2>1, <3>1, <3>2, <3>3
    <2>2. QED
      BY <2>1
  <1> HIDE DEF S
  <1>4. 0..N \subseteq S
    BY <1>1, <1>2, <1>3, HastaN
  <1>5. N \in S
    BY <1>1, <1>4
  <1>6. a + N = b
    OBVIOUS
  <1> HIDE DEF N
  <1>7. QED
    BY <1>5, <1>6 DEF S

(***************************************************************************)
(* A file with a block in each of its first q places, and no more than the *)
(* blocks of pointers that these need.                                     *)
(***************************************************************************)
JustoDe(d, q) ==
    \A i \in Indirectos :
        /\ Sitio(d, i, -1) # 0 <=> Pos(i, 0) < q
        /\ \A j \in Directos :
              IF Pos(i, j) < q THEN Sitio(d, i, j) \in Bloques ELSE Sitio(d, i, j) = 0

\* The blocks that are marked, but for O, are the file's.
SinPerdidos(d, O) ==
    \A b \in d.usados \ O : \E i \in Indirectos, j \in Columnas : Sitio(d, i, j) = b

\* The places of a file, through its pointers.
LEMMA SitioEs ==
  ASSUME NEW d, NEW i \in Indirectos
  PROVE  /\ i \in Nat /\ -1 \in Columnas /\ Sitio(d, i, -1) = d.ind[i]
         /\ \A j \in Directos : /\ j \in Columnas /\ j \in Nat /\ j # -1 /\ j < CANT_DIRECTOS
                                /\ Sitio(d, i, j) = IF d.ind[i] = 0 THEN 0 ELSE d.ptr[d.ind[i]][j]
  BY SacBloquesConstantes DEF Indirectos, Columnas, Directos, Sitio

\* The data blocks of such a file, by their number.
LEMMA PunteroJusto ==
  ASSUME NEW d, NEW q \in Nat, JustoDe(d, q), q <= CantDatos, NEW k \in 0..q - 1
  PROVE  /\ Indirecto(k) \in Indirectos /\ Directo(k) \in Directos
         /\ d.ind[Indirecto(k)] # 0 /\ k \in Propios(d)
         /\ Puntero(d, k) = Sitio(d, Indirecto(k), Directo(k))
         /\ Puntero(d, k) \in Bloques
  <1>1. k \in 0..CantDatos - 1 /\ k \in Nat
    BY PosicionesDelArchivo
  <1>2. PICK i \in Indirectos, j \in Directos : i = Indirecto(k) /\ j = Directo(k)
    BY <1>1, PosicionEs
  <1>3. Pos(i, j) = k
    BY <1>1, <1>2, Posiciones
  <1>4. Sitio(d, i, j) \in Bloques
    BY <1>3 DEF JustoDe
  <1>5. d.ind[i] # 0 /\ Sitio(d, i, j) = d.ptr[d.ind[i]][j]
    BY <1>4, SitioEs, SinBloque
  <1>6. QED
    BY <1>1, <1>2, <1>4, <1>5 DEF Puntero, Propios

\* A double loop over such a file visits its blocks from the first one on.
LEMMA VisitadosJusto ==
  ASSUME NEW d, NEW q \in Nat, JustoDe(d, q), q <= CantDatos, NEW off \in Nat
  PROVE  Visitados(d, off) = {k \in 0..q - 1 : NroBloque(off) <= k}
  <1>1. PICK k0 \in Nat : k0 = NroBloque(off)
    BY OffsetEs
  <1>2. PICK i0 \in Nat, j0 \in Directos : /\ i0 = Indirecto(k0) /\ j0 = Directo(k0)
                                           /\ Pos(i0, j0) = k0
    BY Posiciones
  <1>3. j0 \in Nat /\ j0 < CANT_DIRECTOS /\ CANT_DIRECTOS \in Nat
    BY SacBloquesConstantes DEF Directos
  <1>4. ASSUME NEW k \in 0..CantDatos - 1
        PROVE  k \in Visitados(d, off) <=> k0 <= k /\ k < q
    <2>1. PICK i \in Indirectos, j \in Directos : i = Indirecto(k) /\ j = Directo(k)
      BY PosicionEs
    <2>2. /\ i \in Nat /\ j \in Nat /\ j < CANT_DIRECTOS /\ Pos(i, j) = k
      BY <2>1, Posiciones, SacBloquesConstantes DEF Indirectos, Directos
    <2>3. PICK s \in Nat : s = IF i = i0 THEN j0 ELSE 0
      BY <1>3
    <2>4. k \in Visitados(d, off)
            <=> /\ i >= i0 /\ \A h \in i0..i : d.ind[h] # 0
                /\ j >= s /\ \A h \in s..j : d.ptr[d.ind[i]][h] # 0
      BY <1>1, <1>2, <2>1, <2>3 DEF Visitados
    <2>5. k = Pos(i, 0) + j /\ k0 = Pos(i0, 0) + j0 /\ Pos(i, 0) \in Nat /\ Pos(i0, 0) \in Nat
      BY <1>2, <1>3, <2>2, Posiciones
    <2>6. i0 < i => Pos(i0, 0) + CANT_DIRECTOS <= Pos(i, 0)
      BY <2>2, Posiciones
    <2>7. i < i0 => Pos(i, 0) + CANT_DIRECTOS <= Pos(i0, 0)
      BY <2>2, Posiciones
    <2>8. ASSUME k \in Visitados(d, off) PROVE k0 <= k /\ k < q
      <3>1. i >= i0 /\ d.ind[i] # 0 /\ j >= s /\ d.ptr[d.ind[i]][j] # 0
        BY <2>2, <2>3, <2>4, <2>8
      <3>2. Sitio(d, i, j) # 0
        BY <3>1, SitioEs
      <3>3. k < q
        BY <2>2, <3>2 DEF JustoDe
      <3>4. k0 <= k
        <4>1. CASE i = i0
          BY <2>3, <2>5, <3>1, <4>1
        <4>2. CASE i # i0
          BY <1>3, <2>2, <2>5, <2>6, <3>1, <4>2
        <4>3. QED
          BY <4>1, <4>2
      <3>5. QED
        BY <3>3, <3>4
    <2>9. ASSUME k0 <= k, k < q PROVE k \in Visitados(d, off)
      <3>1. i >= i0
        BY <1>3, <2>2, <2>5, <2>7, <2>9
      <3>2. j >= s
        BY <2>2, <2>3, <2>5, <2>9
      <3>3. ASSUME NEW h \in i0..i PROVE d.ind[h] # 0
        <4>1. h \in Indirectos /\ h \in Nat
          BY <1>2, <2>2, SacBloquesConstantes DEF Indirectos
        <4>2. Pos(h, 0) <= Pos(i, 0) /\ Pos(h, 0) \in Nat
          <5>1. h = i \/ h < i
            BY <2>2, <3>3
          <5>2. h < i => Pos(h, 0) + CANT_DIRECTOS <= Pos(i, 0)
            BY <2>2, <4>1, Posiciones
          <5>3. Pos(h, 0) \in Nat
            BY <4>1, Posiciones
          <5>4. QED
            BY <1>3, <2>5, <5>1, <5>2, <5>3
        <4>3. Pos(h, 0) < q
          BY <2>2, <2>5, <2>9, <4>2
        <4>4. QED
          BY <4>1, <4>3, SitioEs DEF JustoDe
      <3>4. ASSUME NEW h \in s..j PROVE d.ptr[d.ind[i]][h] # 0
        <4>1. h \in Directos /\ h \in Nat /\ h <= j
          BY <2>2, <2>3, <3>4, SacBloquesConstantes DEF Directos
        <4>2. Pos(i, h) = Pos(i, 0) + h
          BY <2>2, <4>1, Posiciones
        <4>3. Pos(i, h) < q
          BY <2>2, <2>5, <2>9, <4>1, <4>2
        <4>4. Sitio(d, i, h) \in Bloques
          BY <4>1, <4>3 DEF JustoDe
        <4>5. QED
          BY <4>1, <4>4, SitioEs, SinBloque
      <3>5. QED
        BY <2>4, <3>1, <3>2, <3>3, <3>4
    <2>10. QED
      BY <2>8, <2>9
  <1>5. Visitados(d, off) \subseteq 0..CantDatos - 1
    BY DEF Visitados
  <1>6. 0..q - 1 \subseteq 0..CantDatos - 1
    BY PosicionesDelArchivo
  <1>7. QED
    BY <1>1, <1>4, <1>5, <1>6

\* A file leaves its last block of pointers empty: MaxTam is below it.
LEMMA SobraUno ==
  ASSUME NEW t \in Nat, t <= MaxTam
  PROVE  /\ cant_bloques_necesaria(t) \in Nat
         /\ cant_bloques_necesaria(t) <= Pos(CANT_INDIR_SIMPLE - 1, 0)
         /\ cant_bloques_necesaria(t) <= CantDatos
  <1>1. PICK B \in Nat \ {0}, C \in Nat \ {0}, I \in Nat :
          B = BLOCK_SIZE /\ C = CANT_DIRECTOS /\ I = CANT_INDIR_SIMPLE - 1
    BY SacBloquesConstantes
  <1>2. MaxTam \in Nat /\ MaxTam < I * C * B
    BY <1>1, SacDiscoConstantes
  <1>3. PICK x \in Nat : x = I * C /\ x = Pos(I, 0)
    BY <1>1, Posiciones DEF Pos
  <1>4. PICK Q \in Nat : Q = cant_bloques_necesaria(t) /\ (Q # 0 => (Q - 1) * B < t)
    BY <1>1, CuantosEs
  <1>5. ASSUME x < Q PROVE FALSE
    <2>1. PICK m \in Nat : Q = m + 1 /\ x <= m
      BY <1>5
    <2>2. m * B < t
      BY <1>4, <2>1
    <2>3. x = m \/ x < m
      BY <2>1
    <2>4. x * B <= m * B /\ x * B \in Nat /\ m * B \in Nat
      BY <2>3, Filas
    <2>5. MaxTam < x * B
      BY <1>2, <1>3
    <2>6. QED
      BY <1>2, <2>2, <2>4, <2>5
  <1>6. Pos(I, 0) <= CantDatos /\ CantDatos \in Nat
    <2>1. Pos(I + 1, 0) = Pos(I, 0) + CANT_DIRECTOS
      BY Posiciones
    <2>2. I + 1 = CANT_INDIR_SIMPLE
      BY <1>1, SacBloquesConstantes
    <2>3. CantDatos = Pos(I + 1, 0) /\ CantDatos \in Nat
      BY <2>2, PosicionesDelArchivo
    <2>4. QED
      BY <1>1, <1>3, <2>1, <2>3
  <1>7. Pos(CANT_INDIR_SIMPLE - 1, 0) = x
    BY <1>1, <1>3, Zenon
  <1>8. Q <= x
    BY <1>5
  <1>9. QED
    BY <1>3, <1>4, <1>6, <1>7, <1>8

\* The places that are in use.
LEMMA EnUsoEs ==
  /\ \A l \in EnUso : \E m \in Archivos, i \in Indirectos, j \in Columnas : l = <<m, i, j>>
  /\ \A m \in Archivos, i \in Indirectos, j \in Columnas :
        /\ BloqueEn(<<m, i, j>>) = EnSitio(tabla_nodos, ptr_direct, m, i, j)
        /\ <<m, i, j>> \in EnUso <=> EnSitio(tabla_nodos, ptr_direct, m, i, j) \in Bloques
  BY LugarEs DEF EnUso

\* The places of a file in the table are its places on its own.
LEMMA SitioDelNodo ==
  ASSUME NEW t, NEW us, NEW p, NEW D, NEW n, NEW i, NEW j
  PROVE  Sitio(ArchivoDe(t, us, p, D, n), i, j) = EnSitio(t, p, n, i, j)
  BY DEF Sitio, ArchivoDe, EnSitio

\* Sano says of a file that it has a block in each place that its size needs.
LEMMA SanoEs ==
  ASSUME TipoOK, NEW n \in Archivos
  PROVE  Sano(n) <=> JustoDe(Archivo(n), cant_bloques_necesaria(tabla_nodos[n].tam_archivo))
  <1>1. PICK d : d = Archivo(n) /\ d = ArchivoDe(tabla_nodos, bitmap, ptr_direct, datos, n)
    BY TiposDelDisco
  <1>2. tabla_nodos[n].tam_archivo \in 0..MaxTam
    BY TiposDelDisco DEF TipoNodo
  <1>3. PICK q \in Nat : /\ q = cant_bloques_necesaria(tabla_nodos[n].tam_archivo)
                         /\ q <= CantDatos
    BY <1>2, SobraUno, TamanioAcotado
  <1>4. \A i \in Indirectos, j \in Columnas :
          /\ BloqueEn(<<n, i, j>>) = Sitio(d, i, j)
          /\ <<n, i, j>> \in EnUso <=> Sitio(d, i, j) \in Bloques
    BY <1>1, EnUsoEs, SitioDelNodo
  <1>5. /\ \A i \in Indirectos : d.ind[i] \in {0} \cup Bloques
        /\ \A b \in Bloques, j \in Directos :
              d.ptr[b][j] \in Punteros /\ (d.ptr[b][j] = -1 => j = 0)
    <2>1. TipoBloques(tabla_nodos, bitmap, ptr_direct, datos)
      BY TiposDelDisco
    <2>2. n \in Nodos /\ d.ind = tabla_nodos[n].simple_indirect /\ d.ptr = ptr_direct
      BY <1>1, TiposDelDisco DEF ArchivoDe
    <2>3. \A i \in Indirectos : d.ind[i] \in {0} \cup Bloques
      BY <2>1, <2>2 DEF TipoBloques
    <2>4. d.ptr \in [Bloques -> [Directos -> Punteros]]
      BY <2>1, <2>2, Zenon DEF TipoBloques
    <2>5. \A b \in Bloques, j \in Directos : d.ptr[b][j] = -1 => j = 0
      BY <2>1, <2>2, Zenon DEF TipoBloques
    <2>6. QED
      BY <2>3, <2>4, <2>5
  <1>6. Sano(n) <=> /\ Visitados(d, 0) = 0..q - 1
                    /\ \A l \in EnUso : l[1] = n => /\ l[2] * CANT_DIRECTOS < q
                                                     /\ l[2] * CANT_DIRECTOS + l[3] < q
                    /\ \A k \in 0..q - 1 : Puntero(d, k) \in Bloques
    BY <1>1, <1>3 DEF Sano
  <1>7. NroBloque(0) = 0
    BY OffsetEs, SacBloquesConstantes DEF NroBloque
  <1>8. ASSUME JustoDe(d, q) PROVE Sano(n)
    <2>1. Visitados(d, 0) = 0..q - 1
      <3>1. Visitados(d, 0) = {k \in 0..q - 1 : NroBloque(0) <= k}
        BY <1>3, <1>8, VisitadosJusto
      <3>2. \A k \in 0..q - 1 : NroBloque(0) <= k
        BY <1>7
      <3>3. QED
        BY <3>1, <3>2
    <2>2. \A k \in 0..q - 1 : Puntero(d, k) \in Bloques
      BY <1>3, <1>8, PunteroJusto
    <2>3. ASSUME NEW l \in EnUso, l[1] = n
          PROVE  l[2] * CANT_DIRECTOS < q /\ l[2] * CANT_DIRECTOS + l[3] < q
      <3>1. PICK i \in Indirectos, j \in Columnas : l = <<n, i, j>>
        BY <2>3, EnUsoEs
      <3>2. Sitio(d, i, j) \in Bloques
        BY <1>4, <2>3, <3>1
      <3>3. i \in Nat /\ Pos(i, 0) \in Nat
        BY SitioEs, Posiciones
      <3>4. j \in Nat => Pos(i, j) = Pos(i, 0) + j
        BY <3>3, Posiciones
      <3>5. CASE j = -1
        <4>1. Pos(i, 0) < q
          BY <1>8, <3>2, <3>5, SinBloque DEF JustoDe
        <4>2. Pos(i, 0) = i * CANT_DIRECTOS
          BY <3>3, SacBloquesConstantes DEF Pos
        <4>3. QED
          BY <3>1, <3>3, <3>5, <4>1, <4>2
      <3>6. CASE j # -1
        <4>1. j \in Directos /\ j \in Nat
          BY <3>6 DEF Columnas, Directos
        <4>2. Pos(i, j) < q
          BY <1>8, <3>2, <4>1, SinBloque DEF JustoDe
        <4>3. Pos(i, 0) = i * CANT_DIRECTOS
          BY <3>3, SacBloquesConstantes DEF Pos
        <4>4. QED
          BY <3>1, <3>3, <3>4, <4>1, <4>2, <4>3
      <3>7. QED
        BY <3>5, <3>6
    <2>4. QED
      BY <1>6, <2>1, <2>2, <2>3
  <1>9. ASSUME Sano(n) PROVE JustoDe(d, q)
    <2>1. \A k \in 0..q - 1 : k \in Propios(d) /\ Puntero(d, k) \in Bloques
      BY <1>6, <1>9, VisitadosPropios
    <2>2. ASSUME NEW i \in Indirectos, NEW j \in Columnas, Sitio(d, i, j) \in Bloques
          PROVE  Pos(i, 0) < q /\ (j # -1 => Pos(i, j) < q)
      <3>1. <<n, i, j>> \in EnUso
        BY <1>4, <2>2
      <3>2. i * CANT_DIRECTOS < q /\ i * CANT_DIRECTOS + j < q
        BY <1>6, <1>9, <3>1
      <3>3. Pos(i, 0) = i * CANT_DIRECTOS
        BY SacBloquesConstantes DEF Pos, Indirectos
      <3>4. Pos(i, j) = i * CANT_DIRECTOS + j
        BY DEF Pos
      <3>5. QED
        BY <3>2, <3>3, <3>4
    <2>3. ASSUME NEW i \in Indirectos, NEW j \in Directos, Pos(i, j) < q
          PROVE  Sitio(d, i, j) \in Bloques /\ d.ind[i] # 0
      <3>1. i \in Nat /\ j \in Nat
        BY SitioEs
      <3>2. PICK k \in Nat : k = Pos(i, j)
        BY <3>1, Posiciones
      <3>3. k \in 0..q - 1 /\ Indirecto(k) = i /\ Directo(k) = j
        BY <2>3, <3>1, <3>2, Posiciones
      <3>4. d.ind[i] # 0 /\ d.ptr[d.ind[i]][j] \in Bloques
        BY <2>1, <3>3 DEF Propios, Puntero
      <3>5. QED
        BY <3>4, SitioEs
    <2>4. ASSUME NEW i \in Indirectos
          PROVE  Sitio(d, i, -1) # 0 <=> Pos(i, 0) < q
      <3>1. Sitio(d, i, -1) = d.ind[i] /\ -1 \in Columnas
        BY SitioEs
      <3>2. QED
        BY <1>5, <2>2, <2>3, <3>1, SinBloque
    <2>5. ASSUME NEW i \in Indirectos, NEW j \in Directos, ~(Pos(i, j) < q)
          PROVE  Sitio(d, i, j) = 0
      <3>1. ASSUME d.ind[i] # 0, Sitio(d, i, j) # 0 PROVE FALSE
        <4>1. /\ Sitio(d, i, j) = d.ptr[d.ind[i]][j] /\ d.ind[i] \in Bloques
              /\ j \in Columnas /\ j # -1
          BY <1>5, <3>1, SitioEs
        <4>2. Sitio(d, i, j) \notin Bloques
          BY <2>2, <2>5, <4>1
        <4>3. Sitio(d, i, j) = -1 /\ j = 0
          BY <1>5, <3>1, <4>1, <4>2 DEF Punteros
        <4>4. Pos(i, 0) < q
          BY <2>4, <3>1, SitioEs
        <4>5. QED
          BY <2>5, <4>3, <4>4
      <3>2. QED
        BY <3>1, SitioEs
    <2>6. QED
      BY <2>3, <2>4, <2>5 DEF JustoDe
  <1>10. QED
    BY <1>1, <1>3, <1>8, <1>9

(***************************************************************************)
(* The disk as a whole: the files A have the blocks that their sizes need, *)
(* and no block is marked that none of them has.                           *)
(***************************************************************************)
DiscoJusto(A, t, us, p, D) ==
    /\ \A n \in A : JustoDe(ArchivoDe(t, us, p, D, n), cant_bloques_necesaria(t[n].tam_archivo))
    /\ \A b \in us : \E m \in A, i \in Indirectos, j \in Columnas : EnSitio(t, p, m, i, j) = b

\* DiscoSano, on the table and the disk as they are.
LEMMA DiscoSanoEs ==
  TipoOK /\ BloqueDeUno =>
    (DiscoSano <=> DiscoJusto(Archivos, tabla_nodos, bitmap, ptr_direct, datos))
  <1> SUFFICES ASSUME TipoOK, BloqueDeUno
               PROVE  DiscoSano <=> DiscoJusto(Archivos, tabla_nodos, bitmap, ptr_direct, datos)
    OBVIOUS
  <1>1. \A n \in Archivos :
          Sano(n) <=> JustoDe(ArchivoDe(tabla_nodos, bitmap, ptr_direct, datos, n),
                              cant_bloques_necesaria(tabla_nodos[n].tam_archivo))
    BY SanoEs, TiposDelDisco
  <1>2. \A l \in EnUso : BloqueEn(l) \in bitmap
    BY DEF BloqueDeUno
  <1>3. bitmap \subseteq Bloques
    BY TiposDelDisco DEF TipoBloques
  <1>4. bitmap = {BloqueEn(l) : l \in EnUso}
          <=> \A b \in bitmap : \E l \in EnUso : BloqueEn(l) = b
    BY <1>2
  <1>5. \A b \in bitmap : (\E l \in EnUso : BloqueEn(l) = b)
          <=> \E m \in Archivos, i \in Indirectos, j \in Columnas :
                 EnSitio(tabla_nodos, ptr_direct, m, i, j) = b
    <2>1. ASSUME NEW b \in bitmap, NEW l \in EnUso, BloqueEn(l) = b
          PROVE  \E m \in Archivos, i \in Indirectos, j \in Columnas :
                    EnSitio(tabla_nodos, ptr_direct, m, i, j) = b
      <3>1. PICK m \in Archivos, i \in Indirectos, j \in Columnas : l = <<m, i, j>>
        BY EnUsoEs
      <3>2. EnSitio(tabla_nodos, ptr_direct, m, i, j) = b
        BY <2>1, <3>1, EnUsoEs
      <3>3. QED
        BY <3>2
    <2>2. ASSUME NEW b \in bitmap, NEW m \in Archivos, NEW i \in Indirectos,
                 NEW j \in Columnas, EnSitio(tabla_nodos, ptr_direct, m, i, j) = b
          PROVE  \E l \in EnUso : BloqueEn(l) = b
      <3>1. <<m, i, j>> \in EnUso /\ BloqueEn(<<m, i, j>>) = b
        BY <1>3, <2>2, EnUsoEs
      <3>2. QED
        BY <3>1
    <2>3. QED
      BY <2>1, <2>2
  <1>6. QED
    BY <1>1, <1>4, <1>5 DEF DiscoSano, DiscoJusto

\* DiscoSano, on the table and the disk as a step leaves them.
LEMMA DiscoSanoSera ==
  ASSUME TipoOK', BloqueDeUno'
  PROVE  DiscoSano' <=> DiscoJusto(Archivos', tabla_nodos', bitmap', ptr_direct', datos')
  <1>1. (TipoOK /\ BloqueDeUno =>
          (DiscoSano <=> DiscoJusto(Archivos, tabla_nodos, bitmap, ptr_direct, datos)))'
    BY DiscoSanoEs, PTL
  <1>2. QED
    BY <1>1 DEF DiscoJusto, JustoDe, ArchivoDe, EnSitio, Sitio

\* Only the places of a file matter.
LEMMA JustoIgual ==
  ASSUME NEW d, NEW e, NEW q, JustoDe(d, q),
         \A i \in Indirectos, j \in Columnas : Sitio(e, i, j) = Sitio(d, i, j)
  PROVE  JustoDe(e, q)
  <1>1. -1 \in Columnas /\ Directos \subseteq Columnas
    BY DEF Columnas
  <1>2. QED
    BY <1>1 DEF JustoDe

\* A disk stays sound when the files Z keep their blocks, the other files are
\* sound, and what is marked is of one of them.
LEMMA SanoTras ==
  ASSUME NEW t, NEW us, NEW p, NEW D, NEW u, NEW vs, NEW q, NEW E, NEW A, NEW B,
         NEW Z \in SUBSET A, Z \subseteq B, Iguales(Z, t, p, D, u, q, E),
         DiscoJusto(A, t, us, p, D),
         \A m \in B \ Z :
            JustoDe(ArchivoDe(u, vs, q, E, m), cant_bloques_necesaria(u[m].tam_archivo)),
         \A b \in vs : \/ \E m \in Z, i \in Indirectos, j \in Columnas : EnSitio(t, p, m, i, j) = b
                       \/ \E m \in B \ Z, i \in Indirectos, j \in Columnas :
                             EnSitio(u, q, m, i, j) = b
  PROVE  DiscoJusto(B, u, vs, q, E)
  <1>1. ASSUME NEW m \in Z
        PROVE  JustoDe(ArchivoDe(u, vs, q, E, m), cant_bloques_necesaria(u[m].tam_archivo))
    <2>1. JustoDe(ArchivoDe(t, us, p, D, m), cant_bloques_necesaria(t[m].tam_archivo))
      BY DEF DiscoJusto
    <2>2. \A i \in Indirectos, j \in Columnas :
            Sitio(ArchivoDe(u, vs, q, E, m), i, j) = Sitio(ArchivoDe(t, us, p, D, m), i, j)
      BY SitioDelNodo DEF Iguales
    <2>3. JustoDe(ArchivoDe(u, vs, q, E, m), cant_bloques_necesaria(t[m].tam_archivo))
      BY <2>1, <2>2, JustoIgual
    <2>4. QED
      BY <2>3 DEF Iguales
  <1>2. ASSUME NEW b \in vs
        PROVE  \E m \in B, i \in Indirectos, j \in Columnas : EnSitio(u, q, m, i, j) = b
    <2>1. CASE \E m \in Z, i \in Indirectos, j \in Columnas : EnSitio(t, p, m, i, j) = b
      BY <2>1 DEF Iguales
    <2>2. CASE \E m \in B \ Z, i \in Indirectos, j \in Columnas : EnSitio(u, q, m, i, j) = b
      BY <2>2
    <2>3. QED
      BY <2>1, <2>2
  <1>3. QED
    BY <1>1, <1>2 DEF DiscoJusto

\* A step that leaves the disk and its files as they were.
LEMMA SanoQuieto ==
  ASSUME TipoOK, BloqueDeUno, TipoOK', BloqueDeUno', DiscoSano, Archivos' = Archivos,
         bitmap' = bitmap,
         Iguales(Archivos, tabla_nodos, ptr_direct, datos, tabla_nodos', ptr_direct', datos')
  PROVE  DiscoSano'
  <1>1. DiscoJusto(Archivos, tabla_nodos, bitmap, ptr_direct, datos)
    BY DiscoSanoEs
  <1>2. DiscoJusto(Archivos', tabla_nodos', bitmap', ptr_direct', datos')
    <2>1. \A b \in bitmap' : \E m \in Archivos, i \in Indirectos, j \in Columnas :
             EnSitio(tabla_nodos, ptr_direct, m, i, j) = b
      BY <1>1 DEF DiscoJusto
    <2>2. Archivos' \ Archivos = {}
      OBVIOUS
    <2>3. QED
      BY <1>1, <2>1, <2>2, SanoTras
  <1>3. QED
    BY <1>2, DiscoSanoSera

\* Whatever a sound operation leaves of file n, the disk is sound.
LEMMA DejarSano ==
  ASSUME TipoOK, BloqueDeUno, TipoOK', BloqueDeUno', DiscoSano,
         NEW n \in Archivos, NEW d, Dejar(n, d), Pedido,
         NEW O, O = Otros(Archivos, tabla_nodos, ptr_direct, n),
         Sigue(Archivo(n), d, O), d.tam \in 0..MaxTam,
         d.ok => JustoDe(d, cant_bloques_necesaria(d.tam)) /\ SinPerdidos(d, O)
  PROVE  DiscoSano'
  <1>1. CASE UNCHANGED <<tabla_nodos, disco>>
    <2>1. Archivos' = Archivos /\ bitmap' = bitmap
      BY <1>1 DEF Archivos, Estado, disco
    <2>2. Iguales(Archivos, tabla_nodos, ptr_direct, datos, tabla_nodos', ptr_direct', datos')
      BY <1>1 DEF disco, Iguales, EnSitio
    <2>3. QED
      BY <2>1, <2>2, SanoQuieto
  <1>2. CASE /\ Archivos' = Archivos /\ d.ok
             /\ tabla_nodos'[n].tam_archivo = d.tam /\ tabla_nodos'[n].simple_indirect = d.ind
             /\ bitmap' = d.usados /\ ptr_direct' = d.ptr /\ datos' = d.datos
             /\ Iguales(Archivos \ {n}, tabla_nodos, ptr_direct, datos,
                        tabla_nodos', d.ptr, d.datos)
    <2>1. DiscoJusto(Archivos, tabla_nodos, bitmap, ptr_direct, datos)
      BY DiscoSanoEs
    <2>2. \A i, j : /\ EnSitio(tabla_nodos', d.ptr, n, i, j) = Sitio(d, i, j)
                    /\ Sitio(ArchivoDe(tabla_nodos', d.usados, d.ptr, d.datos, n), i, j)
                         = Sitio(d, i, j)
      BY <1>2 DEF EnSitio, Sitio, ArchivoDe
    <2>3. JustoDe(ArchivoDe(tabla_nodos', d.usados, d.ptr, d.datos, n),
                  cant_bloques_necesaria(tabla_nodos'[n].tam_archivo))
      BY <1>2, <2>2, JustoIgual
    <2>4. ASSUME NEW b \in d.usados
          PROVE  \/ \E m \in Archivos \ {n}, i \in Indirectos, j \in Columnas :
                       EnSitio(tabla_nodos, ptr_direct, m, i, j) = b
                 \/ \E i \in Indirectos, j \in Columnas :
                       EnSitio(tabla_nodos', d.ptr, n, i, j) = b
      <3>1. CASE b \in O
        BY <3>1 DEF Otros
      <3>2. CASE b \notin O
        BY <1>2, <2>2, <3>2 DEF SinPerdidos
      <3>3. QED
        BY <3>1, <3>2
    <2>5. Archivos \ (Archivos \ {n}) = {n}
      OBVIOUS
    <2>6. DiscoJusto(Archivos, tabla_nodos', d.usados, d.ptr, d.datos)
      BY <1>2, <2>1, <2>3, <2>4, <2>5, SanoTras
    <2>7. QED
      BY <1>2, <2>6, DiscoSanoSera
  <1>3. QED
    BY <1>1, <1>2, LoDejado

(***************************************************************************)
(* Truncating and erasing a file that has the blocks of its size.          *)
(***************************************************************************)

\* From d to e, the data blocks ks and the blocks of pointers is are free.
Sueltos(d, e, ks, is) ==
    /\ \A b : b \in e.usados <=> /\ b \in d.usados /\ \A k \in ks : Puntero(d, k) # b
                                /\ \A i \in is : d.ind[i] # b
    /\ \A i \in Indirectos :
          /\ Sitio(e, i, -1) = IF i \in is THEN 0 ELSE Sitio(d, i, -1)
          /\ \A j \in Directos :
                Sitio(e, i, j) = IF i \in is \/ Pos(i, j) \in ks THEN 0 ELSE Sitio(d, i, j)

\* The places of a file after some of its blocks are free.
LEMMA SoltadoSitios ==
  ASSUME NEW d, NEW O, Bien(d, O), NEW ks, ks \subseteq Propios(d),
         NEW is, is \subseteq {i \in Indirectos : d.ind[i] # 0},
         NEW e, e = Soltar(d, ks, is)
  PROVE  Sueltos(d, e, ks, is)
  <1>0. TipoDe(d) /\ SitiosUnicos(d)
    BY DEF Bien
  <1> DEFINE Nuevo(b, j) == \E k \in ks : b = d.ind[Indirecto(k)] /\ j = Directo(k)
  <1>1. /\ e.ind = [i \in Indirectos |-> IF i \in is THEN 0 ELSE d.ind[i]]
        /\ e.usados = d.usados \ ({Puntero(d, k) : k \in ks} \cup {d.ind[i] : i \in is})
        /\ e.ptr = [b \in Bloques |-> [j \in Directos |->
                       IF Nuevo(b, j) THEN 0 ELSE d.ptr[b][j]]]
    BY <1>0 DEF Soltar, TipoDe, CamposDisco
  <1>2. \A i \in Indirectos : Sitio(e, i, -1) = IF i \in is THEN 0 ELSE Sitio(d, i, -1)
    BY <1>1, SitioEs
  <1>3. ASSUME NEW i \in Indirectos, NEW j \in Directos
        PROVE  Sitio(e, i, j) = IF i \in is \/ Pos(i, j) \in ks THEN 0 ELSE Sitio(d, i, j)
    <2>1. CASE i \in is \/ d.ind[i] = 0
      BY <1>1, <2>1, SitioEs
    <2>2. CASE i \notin is /\ d.ind[i] # 0
      <3>1. d.ind[i] \in Bloques /\ Sitio(d, i, -1) = d.ind[i]
        BY <2>2, SitioPropio
      <3>2. Nuevo(d.ind[i], j) <=> Pos(i, j) \in ks
        <4>1. ASSUME NEW k \in ks, d.ind[i] = d.ind[Indirecto(k)], j = Directo(k)
              PROVE  Pos(i, j) = k
          <5>1. k \in 0..CantDatos - 1 /\ k \in Nat
            BY PosicionesDelArchivo DEF Propios
          <5>2. Indirecto(k) \in Indirectos
            BY <5>1, PosicionEs
          <5>3. Sitio(d, i, -1) = Sitio(d, Indirecto(k), -1) /\ -1 \in Columnas
            BY <4>1, <5>2, SitioEs
          <5>4. i = Indirecto(k)
            BY <1>0, <3>1, <5>2, <5>3 DEF SitiosUnicos
          <5>5. QED
            BY <4>1, <5>1, <5>4, Posiciones
        <4>2. ASSUME Pos(i, j) \in ks PROVE Nuevo(d.ind[i], j)
          <5>1. Indirecto(Pos(i, j)) = i /\ Directo(Pos(i, j)) = j
            BY SitioEs, Posiciones
          <5>2. QED
            BY <4>2, <5>1
        <4>3. QED
          BY <4>1, <4>2
      <3> HIDE DEF Nuevo
      <3>3. e.ind[i] = d.ind[i] /\ e.ptr[d.ind[i]][j] = IF Nuevo(d.ind[i], j) THEN 0
                                                       ELSE d.ptr[d.ind[i]][j]
        BY <1>1, <2>2, <3>1
      <3>4. QED
        BY <2>2, <3>2, <3>3, SitioEs
    <2>3. QED
      BY <2>1, <2>2
  <1>4. QED
    BY <1>1, <1>2, <1>3 DEF Sueltos

\* Freeing the data blocks from q1 on, with the blocks of pointers that begin
\* there, leaves a file of q1 blocks and loses none.
LEMMA SoltadoJusto ==
  ASSUME NEW d, NEW O, Bien(d, O), NEW q \in Nat, q <= CantDatos, JustoDe(d, q),
         SinPerdidos(d, O), NEW q1 \in Nat, q1 <= q,
         NEW ks, \A k : k \in ks <=> k \in 0..q - 1 /\ q1 <= k,
         NEW is, \A i : i \in is <=> i \in Indirectos /\ q1 <= Pos(i, 0) /\ Pos(i, 0) < q,
         NEW e, e = Soltar(d, ks, is)
  PROVE  JustoDe(e, q1) /\ SinPerdidos(e, O)
  <1>0. CANT_DIRECTOS \in Nat /\ CantDatos \in Nat
    BY SacBloquesConstantes, PosicionesDelArchivo
  <1>1. ks \subseteq Propios(d) /\ ks \subseteq 0..q - 1
    <2>1. \A k \in 0..q - 1 : k \in Propios(d)
      BY PunteroJusto
    <2>2. QED
      BY <2>1
  <1>2. is \subseteq {i \in Indirectos : d.ind[i] # 0}
    <2>1. \A i \in Indirectos : Pos(i, 0) < q => d.ind[i] # 0
      BY SitioEs DEF JustoDe
    <2>2. QED
      BY <2>1
  <1>3. /\ \A b : b \in e.usados <=> /\ b \in d.usados /\ \A k \in ks : Puntero(d, k) # b
                                    /\ \A i \in is : d.ind[i] # b
        /\ \A i \in Indirectos :
              /\ Sitio(e, i, -1) = IF i \in is THEN 0 ELSE Sitio(d, i, -1)
              /\ \A j \in Directos :
                    Sitio(e, i, j) = IF i \in is \/ Pos(i, j) \in ks THEN 0 ELSE Sitio(d, i, j)
    <2>1. Sueltos(d, e, ks, is)
      BY <1>1, <1>2, SoltadoSitios
    <2>2. QED
      BY <2>1, Zenon DEF Sueltos
  <1>4. ASSUME NEW i \in Indirectos, NEW j \in Directos
        PROVE  /\ Pos(i, j) \in Nat /\ Pos(i, 0) \in Nat /\ Pos(i, 0) <= Pos(i, j)
               /\ Pos(i, j) \in ks <=> q1 <= Pos(i, j) /\ Pos(i, j) < q
               /\ i \in is <=> q1 <= Pos(i, 0) /\ Pos(i, 0) < q
    <2>1. i \in Nat /\ j \in Nat /\ 0 \in Nat
      BY SitioEs
    <2>2. Pos(i, j) \in Nat /\ Pos(i, 0) \in Nat /\ Pos(i, j) = Pos(i, 0) + j
      BY <2>1, Posiciones
    <2>3. QED
      BY <2>1, <2>2
  <1>5. ASSUME NEW i \in Indirectos, NEW j \in Directos
        PROVE  IF Pos(i, j) < q1 THEN Sitio(e, i, j) \in Bloques ELSE Sitio(e, i, j) = 0
    <2>1. CASE Pos(i, j) < q1
      <3>1. Pos(i, j) < q /\ i \notin is /\ Pos(i, j) \notin ks
        BY <1>4, <2>1
      <3>2. QED
        BY <1>3, <2>1, <3>1 DEF JustoDe
    <2>2. CASE ~(Pos(i, j) < q1) /\ Pos(i, j) < q
      <3>1. Pos(i, j) \in ks
        BY <1>4, <2>2
      <3>2. Sitio(e, i, j) = 0
        BY <1>3, <3>1
      <3>3. QED
        BY <2>2, <3>2
    <2>3. CASE ~(Pos(i, j) < q1) /\ ~(Pos(i, j) < q)
      BY <1>3, <2>3 DEF JustoDe
    <2>4. QED
      BY <2>1, <2>2, <2>3
  <1>6. ASSUME NEW i \in Indirectos
        PROVE  Sitio(e, i, -1) # 0 <=> Pos(i, 0) < q1
    <2>1. Sitio(d, i, -1) # 0 <=> Pos(i, 0) < q
      BY DEF JustoDe
    <2>2. QED
      BY <1>3, <1>4, <2>1, SinBloque
  <1>7. JustoDe(e, q1)
    BY <1>5, <1>6 DEF JustoDe
  <1>8. ASSUME NEW b \in e.usados \ O
        PROVE  \E i \in Indirectos, j \in Columnas : Sitio(e, i, j) = b
    <2>1. /\ b \in d.usados \ O /\ \A k \in ks : Puntero(d, k) # b
          /\ \A i \in is : d.ind[i] # b
      BY <1>3
    <2>2. PICK i \in Indirectos, j \in Columnas : Sitio(d, i, j) = b
      BY <2>1 DEF SinPerdidos
    <2>3. b # 0
      BY <2>1, SinBloque DEF Bien, TipoDe
    <2>4. CASE j = -1
      BY <1>3, <2>1, <2>2, <2>4, SitioEs
    <2>5. CASE j # -1
      <3>1. j \in Directos
        BY <2>5 DEF Columnas
      <3>2. PICK k : k = Pos(i, j)
        OBVIOUS
      <3>3. k < q
        BY <2>2, <2>3, <3>1, <3>2 DEF JustoDe
      <3>4. Puntero(d, k) = b /\ d.ind[i] # 0
        <4>1. Indirecto(k) = i /\ Directo(k) = j
          BY <3>1, <3>2, SitioEs, Posiciones
        <4>2. k \in 0..q - 1
          BY <1>4, <3>1, <3>2, <3>3
        <4>3. QED
          BY <2>2, <4>1, <4>2, PunteroJusto
      <3>5. k \notin ks
        BY <2>1, <3>4
      <3>6. i \notin is
        BY <1>4, <3>1, <3>2, <3>3, <3>5
      <3>7. QED
        BY <1>3, <2>2, <3>1, <3>2, <3>5, <3>6
    <2>6. QED
      BY <2>4, <2>5
  <1>9. QED
    BY <1>7, <1>8 DEF SinPerdidos

\* Cutting a file inside a block leaves it with the blocks of its new size.
LEMMA AcortaJusto ==
  ASSUME NEW d, NEW O, Bien(d, O), d.tam \in Nat,
         NEW q, q = cant_bloques_necesaria(d.tam), q <= CantDatos, JustoDe(d, q),
         SinPerdidos(d, O), NEW off \in Nat, off <= d.tam, EnBloque(off) # 0,
         NEW e, e = Acortar(d, off), e.ok
  PROVE  JustoDe(e, cant_bloques_necesaria(e.tam)) /\ SinPerdidos(e, O)
  <1> DEFINE i0 == Indirecto(NroBloque(off))
             j0 == Directo(NroBloque(off))
             a_truncar == cant_bloques_necesaria(d.tam) - cant_bloques_necesaria(off)
             todos == Visitados(d, off)
             visitados == {k \in todos : Cardinality({h \in todos : h < k}) <= a_truncar}
             primeros == {k \in visitados : Directo(k) = j0}
             quedan == {k \in primeros : \A h \in primeros : h >= k}
             borrados == visitados \ quedan
             Antes(i) == Cardinality({k \in todos : Indirecto(k) < i})
             indBorrados == {i \in Indirectos : /\ i > i0 /\ Antes(i) <= a_truncar
                                                /\ \A h \in i0..i : d.ind[h] # 0}
             soltado == Soltar(d, borrados, indBorrados)
             corto == [soltado EXCEPT !.tam = off, !.ret = 0]
  <1>0. DOMAIN d = CamposDisco
    BY DEF Bien, TipoDe
  <1>1. \/ e = Caida(d)
        \/ quedan = {} /\ e = corto
        \/ e = Copiar(corto, Puntero(d, Min(quedan)), EnBloque(off), <<0>>)
    BY DEF Acortar
  <1>2. Caida(d).ok = FALSE
    BY <1>0 DEF Caida, CamposDisco
  <1>3. PICK k0 \in Nat : k0 = NroBloque(off) /\ cant_bloques_necesaria(off) = k0 + 1
    BY OffsetEs, CuantosDe
  <1>4. q \in Nat /\ k0 + 1 <= q /\ a_truncar = q - (k0 + 1)
    BY <1>3, CuantosEs, CuantosCrecen
  <1>5. PICK x \in Nat, y \in Directos : x = i0 /\ y = j0 /\ Pos(x, y) = k0
    BY <1>3, Posiciones
  <1>6. todos = k0..q - 1
    <2>1. todos = {k \in 0..q - 1 : k0 <= k}
      BY <1>3, <1>4, VisitadosJusto
    <2>2. QED
      BY <1>4, <2>1
  <1> HIDE DEF todos, a_truncar
  <1>7. visitados = k0..q - 1
    <2>1. ASSUME NEW k \in k0..q - 1
          PROVE  Cardinality({h \in todos : h < k}) <= a_truncar
      <3>1. {h \in todos : h < k} = k0..k - 1
        BY <1>4, <1>6
      <3>2. k \in Nat /\ k0 \in Int /\ k - 1 \in Int /\ (k0 <= k - 1 \/ k = k0) /\ k <= q - 1
        BY <1>4
      <3>3. Cardinality(k0..k - 1) = IF k0 > k - 1 THEN 0 ELSE (k - 1) - k0 + 1
        BY <3>2, FS_Interval
      <3>4. Cardinality(k0..k - 1) = k - k0
        BY <3>2, <3>3
      <3>5. k - k0 <= q - (k0 + 1)
        BY <1>4, <3>2
      <3>6. QED
        BY <1>4, <3>1, <3>4, <3>5
    <2>2. QED
      BY <1>6, <2>1
  <1> HIDE DEF visitados
  <1>8. quedan = {k0}
    <2>1. k0 \in primeros /\ \A h \in primeros : h >= k0
      BY <1>3, <1>4, <1>7
    <2>2. primeros \subseteq Nat
      BY <1>4, <1>7
    <2> HIDE DEF primeros
    <2>3. k0 \in quedan
      BY <2>1
    <2>4. ASSUME NEW k \in quedan PROVE k = k0
      <3>1. k \in primeros /\ k0 >= k
        BY <2>1
      <3>2. QED
        BY <2>1, <2>2, <3>1
    <2> HIDE DEF quedan
    <2>5. QED
      BY <2>3, <2>4
  <1> HIDE DEF quedan
  <1>9. borrados = {k \in 0..q - 1 : k0 + 1 <= k}
    BY <1>4, <1>7, <1>8
  <1>10. indBorrados = {i \in Indirectos : k0 + 1 <= Pos(i, 0) /\ Pos(i, 0) < q}
    <2>1. ASSUME NEW i \in Indirectos
          PROVE  i \in indBorrados <=> k0 + 1 <= Pos(i, 0) /\ Pos(i, 0) < q
      <3>1. i \in Nat /\ y \in Nat /\ y < CANT_DIRECTOS /\ CANT_DIRECTOS \in Nat
        BY SitioEs, SacBloquesConstantes
      <3>2. /\ k0 = Pos(x, 0) + y /\ Pos(x, 0) \in Nat /\ Pos(i, 0) \in Nat
            /\ i > x => Pos(x, 0) + CANT_DIRECTOS <= Pos(i, 0)
            /\ x > i => Pos(i, 0) + CANT_DIRECTOS <= Pos(x, 0)
        <4>1. Pos(x, y) = Pos(x, 0) + y /\ Pos(x, 0) \in Nat /\ Pos(i, 0) \in Nat
          BY <3>1, Posiciones
        <4>2. \A u, w \in Nat : u < w => Pos(u, 0) + CANT_DIRECTOS <= Pos(w, 0)
          BY Posiciones, Zenon
        <4>3. /\ x < i => Pos(x, 0) + CANT_DIRECTOS <= Pos(i, 0)
              /\ i < x => Pos(i, 0) + CANT_DIRECTOS <= Pos(x, 0)
          BY <3>1, <4>2
        <4>4. (i > x => x < i) /\ (x > i => i < x)
          BY <3>1
        <4>5. QED
          BY <1>5, <4>1, <4>3, <4>4
      <3>3. i > x <=> k0 + 1 <= Pos(i, 0)
        <4>1. i = x \/ i > x \/ x > i
          BY <3>1
        <4>2. QED
          BY <3>1, <3>2, <4>1
      <3>4. ASSUME i > x, \A h \in x..i : d.ind[h] # 0 PROVE Pos(i, 0) < q
        <4>1. d.ind[i] # 0
          BY <3>1, <3>4
        <4>2. QED
          BY <4>1, SitioEs DEF JustoDe
      <3>5. ASSUME i > x, Pos(i, 0) < q, NEW h \in x..i PROVE d.ind[h] # 0
        <4>1. h \in Indirectos /\ h \in Nat /\ (h = i \/ h < i)
          BY <3>1, SacBloquesConstantes DEF Indirectos
        <4>2. Pos(h, 0) < q
          <5>1. h < i => Pos(h, 0) + CANT_DIRECTOS <= Pos(i, 0) /\ Pos(h, 0) \in Nat
            BY <3>1, <4>1, Posiciones
          <5>2. QED
            BY <1>4, <3>1, <3>2, <3>5, <4>1, <5>1
        <4>3. QED
          BY <4>1, <4>2, SitioEs DEF JustoDe
      <3>6. ASSUME i > x, Pos(i, 0) < q PROVE Antes(i) <= a_truncar
        <4>1. {k \in todos : Indirecto(k) < i} \subseteq k0..q - 2
          <5>1. ASSUME NEW k \in k0..q - 1, Indirecto(k) < i PROVE k # q - 1
            <6>1. k \in Nat /\ q \in Nat
              BY <1>4
            <6>2. PICK a \in Nat, c \in Directos : a = Indirecto(k) /\ Pos(a, c) = k
              BY <6>1, Posiciones
            <6>3. c \in Nat /\ c < CANT_DIRECTOS
              BY SacBloquesConstantes DEF Directos
            <6>4. k = Pos(a, 0) + c /\ Pos(a, 0) \in Nat
                  /\ Pos(a, 0) + CANT_DIRECTOS <= Pos(i, 0)
              BY <3>1, <5>1, <6>2, <6>3, Posiciones
            <6>5. QED
              BY <3>1, <3>2, <3>6, <6>1, <6>3, <6>4
          <5>2. QED
            BY <1>4, <1>6, <5>1
        <4>2. IsFiniteSet(k0..q - 2) /\ Cardinality(k0..q - 2) = a_truncar
          <5>1. k0 \in Int /\ q - 2 \in Int
            BY <1>4
          <5>2. k0 <= q - 2 \/ k0 = q - 1
            BY <1>4
          <5>3. IsFiniteSet(k0..q - 2) /\ Cardinality(k0..q - 2) = IF k0 > q - 2 THEN 0 ELSE (q - 2) - k0 + 1
            BY <5>1, FS_Interval
          <5>4. QED
            BY <1>4, <5>2, <5>3
        <4>3. QED
          BY <4>1, <4>2, FS_Subset
      <3> HIDE DEF Antes
      <3>7. i \in indBorrados <=> /\ i > x /\ Antes(i) <= a_truncar
                                  /\ \A h \in x..i : d.ind[h] # 0
        BY <1>5
      <3>8. QED
        BY <3>3, <3>4, <3>5, <3>6, <3>7
    <2>2. indBorrados \subseteq Indirectos
      OBVIOUS
    <2> HIDE DEF indBorrados
    <2>3. QED
      BY <2>1, <2>2
  <1> HIDE DEF borrados, indBorrados
  <1>11. JustoDe(soltado, k0 + 1) /\ SinPerdidos(soltado, O)
    BY <1>4, <1>9, <1>10, SoltadoJusto
  <1>12. Sigue(d, soltado, O) /\ DOMAIN soltado = CamposDisco /\ soltado.tam = d.tam
    <2>1. borrados \subseteq Propios(d)
      <3>1. \A k \in 0..q - 1 : k \in Propios(d)
        BY <1>4, PunteroJusto
      <3>2. QED
        BY <1>9, <3>1
    <2>2. indBorrados \subseteq {i \in Indirectos : d.ind[i] # 0}
      <3>1. \A i \in Indirectos : Pos(i, 0) < q => d.ind[i] # 0
        BY SitioEs DEF JustoDe
      <3>2. QED
        BY <1>10, <3>1
    <2>3. QED
      BY <2>1, <2>2, Soltado DEF Sigue
  <1> HIDE DEF soltado
  <1>13. /\ DOMAIN corto = CamposDisco /\ corto.ind = soltado.ind /\ corto.ptr = soltado.ptr
         /\ corto.datos = soltado.datos /\ corto.usados = soltado.usados /\ corto.tam = off
    BY <1>12 DEF CamposDisco
  <1> HIDE DEF corto
  <1>14. e = Copiar(corto, Puntero(d, k0), EnBloque(off), <<0>>)
    <2>1. Min({k0}) = k0
      BY DEF Min
    <2>2. QED
      BY <1>1, <1>2, <1>8, <2>1
  <1>15. e.ind = soltado.ind /\ e.ptr = soltado.ptr /\ e.usados = soltado.usados /\ e.tam = off
    <2>1. PICK b \in Bloques : b = Puntero(d, k0)
      BY <1>4, PunteroJusto
    <2>2. e.ind = corto.ind /\ e.ptr = corto.ptr /\ e.usados = corto.usados /\ e.tam = corto.tam
      <3>1. b \notin O
        BY <1>4, <2>1, PunteroJusto, PunteroPropio
      <3>2. Bien(corto, O)
        BY <1>12, <1>13, SigueIgual DEF Sigue
      <3>3. e = Copiar(corto, b, EnBloque(off), <<0>>)
        BY <1>14, <2>1
      <3>4. QED
        BY <3>1, <3>2, <3>3, Copiado
    <2>3. QED
      BY <1>13, <2>2
  <1>16. \A i, j : Sitio(e, i, j) = Sitio(soltado, i, j)
    BY <1>15 DEF Sitio
  <1>17. JustoDe(e, k0 + 1) /\ SinPerdidos(e, O)
    BY <1>11, <1>15, <1>16, JustoIgual DEF SinPerdidos
  <1>18. QED
    BY <1>3, <1>15, <1>17

\* Erasing a file that has the blocks of its size leaves none of them marked.
LEMMA BorraJusto ==
  ASSUME NEW d, NEW O, Bien(d, O), NEW q \in Nat, q <= CantDatos, JustoDe(d, q),
         SinPerdidos(d, O), NEW e, e = borrar_archivo_por_nodo(d)
  PROVE  e.usados \subseteq O
  <1> DEFINE bloques == {i \in Indirectos : \A h \in 0..i : d.ind[h] # 0}
  <1>1. PICK f : f = Soltar(d, Visitados(d, 0), bloques)
    OBVIOUS
  <1>2. e = [f EXCEPT !.tam = 0]
    BY <1>1 DEF borrar_archivo_por_nodo
  <1>3. Visitados(d, 0) = {k \in 0..q - 1 : 0 <= k}
    <2>1. NroBloque(0) = 0
      BY SacBloquesConstantes DEF NroBloque
    <2>2. Visitados(d, 0) = {k \in 0..q - 1 : NroBloque(0) <= k}
      BY VisitadosJusto
    <2>3. QED
      BY <2>1, <2>2
  <1>4. bloques = {i \in Indirectos : 0 <= Pos(i, 0) /\ Pos(i, 0) < q}
    <2>1. ASSUME NEW i \in Indirectos
          PROVE  (\A h \in 0..i : d.ind[h] # 0) <=> 0 <= Pos(i, 0) /\ Pos(i, 0) < q
      <3>1. i \in Nat /\ Pos(i, 0) \in Nat /\ CANT_DIRECTOS \in Nat
        BY SitioEs, Posiciones, SacBloquesConstantes
      <3>2. ASSUME \A h \in 0..i : d.ind[h] # 0 PROVE Pos(i, 0) < q
        BY <3>1, <3>2, SitioEs DEF JustoDe
      <3>3. ASSUME Pos(i, 0) < q, NEW h \in 0..i PROVE d.ind[h] # 0
        <4>1. h \in Indirectos /\ h \in Nat /\ (h = i \/ h < i)
          BY <3>1, SacBloquesConstantes DEF Indirectos
        <4>2. Pos(h, 0) < q
          <5>1. h < i => Pos(h, 0) + CANT_DIRECTOS <= Pos(i, 0) /\ Pos(h, 0) \in Nat
            BY <3>1, <4>1, Posiciones
          <5>2. QED
            BY <3>1, <3>3, <4>1, <5>1
        <4>3. QED
          BY <4>1, <4>2, SitioEs DEF JustoDe
      <3>4. QED
        BY <3>1, <3>2, <3>3
    <2>2. QED
      BY <2>1
  <1> HIDE DEF bloques
  <1>5. JustoDe(f, 0) /\ SinPerdidos(f, O)
    BY <1>1, <1>3, <1>4, SoltadoJusto
  <1>6. f.usados \subseteq d.usados /\ DOMAIN f = CamposDisco
    BY <1>1 DEF Soltar, Bien, TipoDe, CamposDisco
  <1>7. e.usados = f.usados
    BY <1>2, <1>6 DEF CamposDisco
  <1>8. ASSUME NEW i \in Indirectos, NEW j \in Columnas PROVE Sitio(f, i, j) = 0
    <2>1. Pos(i, 0) \in Nat
      BY SitioEs, Posiciones
    <2>2. CASE j = -1
      BY <1>5, <2>1, <2>2 DEF JustoDe
    <2>3. CASE j # -1
      <3>1. j \in Directos /\ Pos(i, j) \in Nat
        BY <2>3, SitioEs, Posiciones DEF Columnas
      <3>2. QED
        BY <1>5, <3>1 DEF JustoDe
    <2>4. QED
      BY <2>2, <2>3
  <1>9. ASSUME NEW b \in e.usados PROVE b \in O
    <2>1. b \in f.usados /\ b # 0
      BY <1>6, <1>7, SinBloque DEF Bien, TipoDe
    <2>2. QED
      BY <1>5, <1>8, <2>1 DEF SinPerdidos
  <1>10. QED
    BY <1>9

(***************************************************************************)
(* The steps on a sound disk.                                              *)
(***************************************************************************)

\* A file of a sound disk, on its own.
LEMMA ArchivoJusto ==
  ASSUME TipoOK, BloqueDeUno, DiscoSano, NEW n \in Archivos, NEW d, d = Archivo(n),
         NEW O, O = Otros(Archivos, tabla_nodos, ptr_direct, n)
  PROVE  /\ Bien(d, O) /\ d.tam \in 0..MaxTam /\ d.tam = tabla_nodos[n].tam_archivo /\ d.ok
         /\ JustoDe(d, cant_bloques_necesaria(d.tam)) /\ SinPerdidos(d, O)
         /\ cant_bloques_necesaria(d.tam) \in Nat
         /\ cant_bloques_necesaria(d.tam) <= CantDatos
  <1>1. DiscoJusto(Archivos, tabla_nodos, bitmap, ptr_direct, datos)
    BY DiscoSanoEs
  <1>2. /\ d = ArchivoDe(tabla_nodos, bitmap, ptr_direct, datos, n)
        /\ d.tam = tabla_nodos[n].tam_archivo /\ d.usados = bitmap /\ d.ok
    BY TiposDelDisco DEF ArchivoDe
  <1>3. d.tam \in 0..MaxTam
    BY <1>2, TiposDelDisco DEF TipoNodo
  <1>4. Bien(d, O)
    BY ArchivoBien
  <1>5. JustoDe(d, cant_bloques_necesaria(d.tam))
    BY <1>1, <1>2 DEF DiscoJusto
  <1>6. ASSUME NEW b \in d.usados \ O
        PROVE  \E i \in Indirectos, j \in Columnas : Sitio(d, i, j) = b
    <2>1. PICK m \in Archivos, i \in Indirectos, j \in Columnas :
            EnSitio(tabla_nodos, ptr_direct, m, i, j) = b
      BY <1>1, <1>2 DEF DiscoJusto
    <2>2. b \in Bloques
      BY <1>4 DEF Bien, TipoDe
    <2>3. m = n
      BY <2>1, <2>2 DEF Otros
    <2>4. Sitio(d, i, j) = b
      BY <1>2, <2>1, <2>3, SitioDelNodo
    <2>5. QED
      BY <2>4
  <1>7. /\ cant_bloques_necesaria(d.tam) \in Nat
        /\ cant_bloques_necesaria(d.tam) <= CantDatos
    <2>1. d.tam \in Nat /\ d.tam <= MaxTam
      BY <1>3, TamanioAcotado
    <2>2. QED
      BY <2>1, SobraUno
  <1>8. QED
    BY <1>2, <1>3, <1>4, <1>5, <1>6, <1>7 DEF SinPerdidos

\* A new file is empty, and has no blocks.
LEMMA CrearSano ==
  ASSUME TipoOK, BloqueDeUno, BloqueDeUno', DiscoSano, NEW p \in Caminos,
         NEW e \in {"OCUPADO", "DIRECTORIO"}, CrearElemento(p, e)
  PROVE  DiscoSano'
  <1>1. /\ TipoOK' /\ bitmap' = bitmap
        /\ Iguales(Archivos, tabla_nodos, ptr_direct, datos, tabla_nodos', ptr_direct', datos')
        /\ Archivos \subseteq Archivos'
        /\ \A m \in Archivos' \ Archivos :
             /\ tabla_nodos'[m].tam_archivo = 0
             /\ \A i \in Indirectos : tabla_nodos'[m].simple_indirect[i] = 0
    BY LoCreado
  <1>2. DiscoJusto(Archivos, tabla_nodos, bitmap, ptr_direct, datos)
    BY DiscoSanoEs
  <1>3. ASSUME NEW m \in Archivos' \ Archivos
        PROVE  JustoDe(ArchivoDe(tabla_nodos', bitmap', ptr_direct', datos', m),
                       cant_bloques_necesaria(tabla_nodos'[m].tam_archivo))
    <2>1. cant_bloques_necesaria(tabla_nodos'[m].tam_archivo) = 0
      BY <1>1, CuantosEs
    <2>2. PICK d : d = ArchivoDe(tabla_nodos', bitmap', ptr_direct', datos', m)
      OBVIOUS
    <2>3. \A i \in Indirectos : d.ind[i] = 0
      BY <1>1, <2>2 DEF ArchivoDe
    <2>4. ASSUME NEW i \in Indirectos
          PROVE  /\ Sitio(d, i, -1) = 0 /\ ~(Pos(i, 0) < 0)
                 /\ \A j \in Directos : Sitio(d, i, j) = 0 /\ ~(Pos(i, j) < 0)
      <3>1. \A j \in Directos : Pos(i, j) \in Nat
        BY SitioEs, Posiciones
      <3>2. Pos(i, 0) \in Nat
        BY SitioEs, Posiciones
      <3>3. QED
        BY <2>3, <3>1, <3>2 DEF Sitio
    <2>5. JustoDe(d, 0)
      BY <2>4 DEF JustoDe
    <2>6. QED
      BY <2>1, <2>2, <2>5
  <1>4. \A b \in bitmap' : \E m \in Archivos, i \in Indirectos, j \in Columnas :
           EnSitio(tabla_nodos, ptr_direct, m, i, j) = b
    BY <1>1, <1>2 DEF DiscoJusto
  <1>5. DiscoJusto(Archivos', tabla_nodos', bitmap', ptr_direct', datos')
    BY <1>1, <1>2, <1>3, <1>4, SanoTras
  <1>6. QED
    BY <1>1, <1>5, DiscoSanoSera

\* Erasing a file frees all its blocks.
LEMMA BorrarSano ==
  ASSUME TipoOK, BloqueDeUno, BloqueDeUno', DiscoSano, NEW p \in Caminos, BorrarArchivo(p)
  PROVE  DiscoSano'
  <1>1. PICK n : n = buscar_archivo(p)
    OBVIOUS
  <1>2. PICK a : a = Archivo(n)
    OBVIOUS
  <1>3. PICK d : d = borrar_archivo_por_nodo(a)
    OBVIOUS
  <1>4. PICK O : O = Otros(Archivos, tabla_nodos, ptr_direct, n)
    OBVIOUS
  <1>5. /\ TipoOK' /\ n \in Archivos /\ Archivos' = Archivos \ {n} /\ bitmap' = d.usados
        /\ Iguales(Archivos', tabla_nodos, ptr_direct, datos, tabla_nodos', ptr_direct', datos')
    BY <1>1, <1>2, <1>3, LoBorrado
  <1>6. DiscoJusto(Archivos, tabla_nodos, bitmap, ptr_direct, datos)
    BY DiscoSanoEs
  <1>7. d.usados \subseteq O
    <2>1. PICK q : q = cant_bloques_necesaria(a.tam)
      OBVIOUS
    <2>2. /\ Bien(a, O) /\ q \in Nat /\ q <= CantDatos /\ JustoDe(a, q) /\ SinPerdidos(a, O)
      BY <1>2, <1>4, <1>5, <2>1, ArchivoJusto
    <2>3. QED
      BY <1>3, <2>2, BorraJusto
  <1>8. \A b \in bitmap' : \E m \in Archivos', i \in Indirectos, j \in Columnas :
           EnSitio(tabla_nodos, ptr_direct, m, i, j) = b
    BY <1>4, <1>5, <1>7 DEF Otros
  <1>9. Archivos' \ Archivos' = {}
    OBVIOUS
  <1>10. DiscoJusto(Archivos', tabla_nodos', bitmap', ptr_direct', datos')
    BY <1>5, <1>6, <1>8, <1>9, SanoTras
  <1>11. QED
    BY <1>5, <1>10, DiscoSanoSera

\* Erasing a directory frees all the blocks of its files.
LEMMA BorrarDirSano ==
  ASSUME TipoOK, BloqueDeUno, BloqueDeUno', DiscoSano, NEW p \in Caminos, BorrarDirectorio(p)
  PROVE  DiscoSano'
  <1>1. /\ TipoOK' /\ Archivos' \subseteq Archivos /\ bitmap' \subseteq bitmap
        /\ Iguales(Archivos', tabla_nodos, ptr_direct, datos, tabla_nodos', ptr_direct', datos')
        /\ \A m \in Archivos \ Archivos' :
              bitmap' \ borrar_archivo_por_nodo(Archivo(m)).usados = {}
    BY LoBorradoDir
  <1>2. DiscoJusto(Archivos, tabla_nodos, bitmap, ptr_direct, datos)
    BY DiscoSanoEs
  <1>3. ASSUME NEW b \in bitmap', NEW m \in Archivos \ Archivos', NEW i \in Indirectos,
               NEW j \in Columnas, EnSitio(tabla_nodos, ptr_direct, m, i, j) = b
        PROVE  FALSE
    <2>1. PICK a : a = Archivo(m)
      OBVIOUS
    <2>2. PICK O : O = Otros(Archivos, tabla_nodos, ptr_direct, m)
      OBVIOUS
    <2>3. PICK q : q = cant_bloques_necesaria(a.tam)
      OBVIOUS
    <2>4. /\ Bien(a, O) /\ q \in Nat /\ q <= CantDatos /\ JustoDe(a, q) /\ SinPerdidos(a, O)
      BY <2>1, <2>2, <2>3, ArchivoJusto
    <2>5. PICK d : d = borrar_archivo_por_nodo(a)
      OBVIOUS
    <2>6. d.usados \subseteq O
      BY <2>4, <2>5, BorraJusto
    <2>7. b \in O
      BY <1>1, <1>3, <2>1, <2>5, <2>6
    <2>8. Sitio(a, i, j) = b
      BY <1>3, <2>1, TiposDelDisco, SitioDelNodo
    <2>9. b \in Bloques
      BY <2>4, <2>7 DEF Bien, TipoDe
    <2>10. QED
      BY <2>4, <2>7, <2>8, <2>9 DEF Bien
  <1>4. \A b \in bitmap' : \E m \in Archivos', i \in Indirectos, j \in Columnas :
           EnSitio(tabla_nodos, ptr_direct, m, i, j) = b
    <2>1. ASSUME NEW b \in bitmap'
          PROVE  \E m \in Archivos', i \in Indirectos, j \in Columnas :
                    EnSitio(tabla_nodos, ptr_direct, m, i, j) = b
      <3>1. PICK m \in Archivos, i \in Indirectos, j \in Columnas :
              EnSitio(tabla_nodos, ptr_direct, m, i, j) = b
        BY <1>1, <1>2 DEF DiscoJusto
      <3>2. m \in Archivos'
        BY <1>3, <3>1
      <3>3. QED
        BY <3>1, <3>2
    <2>2. QED
      BY <2>1
  <1>5. Archivos' \ Archivos' = {}
    OBVIOUS
  <1>6. DiscoJusto(Archivos', tabla_nodos', bitmap', ptr_direct', datos')
    BY <1>1, <1>2, <1>4, <1>5, SanoTras
  <1>7. QED
    BY <1>1, <1>6, DiscoSanoSera

\* Cutting a file inside a block frees the blocks after it.
LEMMA TruncarSano ==
  ASSUME TipoOK, BloqueDeUno, TipoOK', BloqueDeUno', DiscoSano, NEW p \in Caminos,
         NEW off \in Tamanios, TruncarArchivo(p, off),
         ~(off > tabla_nodos[buscar_archivo(p)].tam_archivo \/ EnBloque(off) = 0)
  PROVE  DiscoSano'
  <1>1. PICK n : n = buscar_archivo(p)
    OBVIOUS
  <1>2. PICK a : a = Archivo(n)
    OBVIOUS
  <1>3. PICK d : d = truncar_archivo_por_nodo(a, off)
    OBVIOUS
  <1>4. PICK O : O = Otros(Archivos, tabla_nodos, ptr_direct, n)
    OBVIOUS
  <1>5. PICK q : q = cant_bloques_necesaria(a.tam)
    OBVIOUS
  <1>6. /\ Pedido /\ Dejar(n, d) /\ n \in Archivos /\ off \in Nat /\ Sigue(a, d, O)
        /\ d.tam \in 0..MaxTam /\ a.tam = tabla_nodos[n].tam_archivo /\ a.tam \in 0..MaxTam
    BY <1>1, <1>2, <1>3, <1>4, LoTruncado
  <1>7. Bien(a, O) /\ q \in Nat /\ q <= CantDatos /\ JustoDe(a, q) /\ SinPerdidos(a, O)
    BY <1>2, <1>4, <1>5, <1>6, ArchivoJusto
  <1>8. a.tam \in Nat /\ off <= a.tam /\ EnBloque(off) # 0
    BY <1>1, <1>6
  <1>9. d = Acortar(a, off)
    BY <1>3, <1>6, <1>8 DEF truncar_archivo_por_nodo
  <1>10. d.ok => JustoDe(d, cant_bloques_necesaria(d.tam)) /\ SinPerdidos(d, O)
    BY <1>5, <1>6, <1>7, <1>8, <1>9, AcortaJusto
  <1>11. QED
    BY <1>2, <1>4, <1>6, <1>10, DejarSano

(***************************************************************************)
(* A new block for a file that has the blocks of its size.                 *)
(***************************************************************************)
Libres(d) == Bloques \ d.usados

\* From d to m, block b is the data block q of the file, under the block of
\* pointers c if it begins one; c is b if not.
Crecido(d, m, q, b, c) ==
    /\ b \in Libres(d) /\ c \in Libres(d) /\ (b = c <=> Directo(q) # 0)
    /\ m.usados = d.usados \cup {b, c}
    /\ \A i \in Indirectos :
          /\ Sitio(m, i, -1) = IF Pos(i, 0) = q THEN c ELSE Sitio(d, i, -1)
          /\ \A j \in Directos : Sitio(m, i, j) = IF Pos(i, j) = q THEN b ELSE Sitio(d, i, j)
    /\ \A x \in d.usados : m.datos[x] = d.datos[x]

\* The free blocks are finitely many, and a search finds one of them.
LEMMA LibresSon ==
  ASSUME NEW d
  PROVE  /\ IsFiniteSet(Libres(d)) /\ Cardinality(Libres(d)) \in Nat
         /\ Cardinality(Libres(d)) > 0 => buscar_bloque_libre(d) \in Libres(d)
  <1>1. IsFiniteSet(Libres(d)) /\ Cardinality(Libres(d)) \in Nat
    <2>1. IsFiniteSet(Bloques)
      BY SacBloquesConstantes, FS_Interval DEF Bloques
    <2>2. Libres(d) \subseteq Bloques
      BY DEF Libres
    <2>3. QED
      BY <2>1, <2>2, FS_Subset, FS_CardinalityType
  <1>2. ASSUME Cardinality(Libres(d)) > 0 PROVE buscar_bloque_libre(d) \in Libres(d)
    <2>1. Libres(d) # {}
      BY <1>1, <1>2, FS_EmptySet
    <2>2. Libres(d) \in SUBSET Nat
      BY DEF Libres, Bloques
    <2>3. Min(Libres(d)) \in Libres(d)
      BY <2>1, <2>2, PrimeroEsta
    <2>4. QED
      BY <2>1, <2>3 DEF Libres, buscar_bloque_libre
  <1>3. QED
    BY <1>1, <1>2

\* The file with one block more has the blocks of that size, and lost none.
LEMMA CrecidoJusto ==
  ASSUME NEW d, NEW O, Bien(d, O), NEW q \in Nat, q < CantDatos, JustoDe(d, q),
         SinPerdidos(d, O), NEW m, NEW b, NEW c, Crecido(d, m, q, b, c)
  PROVE  /\ JustoDe(m, q + 1) /\ SinPerdidos(m, O)
         /\ Puntero(m, q) = b
         /\ \A k \in 0..q - 1 : /\ Puntero(m, k) = Puntero(d, k) /\ Puntero(d, k) \in Bloques
                                /\ Puntero(d, k) # b
                                /\ m.datos[Puntero(d, k)] = d.datos[Puntero(d, k)]
         /\ Cardinality(Libres(m)) = Cardinality(Libres(d)) - Falta(q)
  <1>0. CantDatos \in Nat
    BY PosicionesDelArchivo
  <1>1. PICK i1 \in Indirectos, j1 \in Directos :
          i1 = Indirecto(q) /\ j1 = Directo(q) /\ Pos(i1, j1) = q
    <2>1. q \in 0..CantDatos - 1
      BY <1>0
    <2>2. QED
      BY <2>1, PosicionEs, Posiciones
  <1>2. /\ b \in Libres(d) /\ c \in Libres(d) /\ (b = c <=> j1 # 0)
        /\ m.usados = d.usados \cup {b, c}
        /\ \A i \in Indirectos :
              /\ Sitio(m, i, -1) = IF Pos(i, 0) = q THEN c ELSE Sitio(d, i, -1)
              /\ \A j \in Directos :
                    Sitio(m, i, j) = IF Pos(i, j) = q THEN b ELSE Sitio(d, i, j)
        /\ \A x \in d.usados : m.datos[x] = d.datos[x]
    BY <1>1, Zenon DEF Crecido
  <1>3. b \in Bloques /\ c \in Bloques /\ b \notin d.usados /\ c \notin d.usados
    BY <1>2 DEF Libres
  <1>4. \A i \in Indirectos : /\ Pos(i, 0) \in Nat /\ \A j \in Directos : Pos(i, j) \in Nat
    BY SitioEs, Posiciones
  <1>5. ASSUME NEW i \in Indirectos
        PROVE  Sitio(m, i, -1) # 0 <=> Pos(i, 0) < q + 1
    <2>1. Sitio(d, i, -1) # 0 <=> Pos(i, 0) < q
      BY DEF JustoDe
    <2>2. QED
      BY <1>2, <1>3, <1>4, <2>1, SinBloque
  <1>6. ASSUME NEW i \in Indirectos, NEW j \in Directos
        PROVE  IF Pos(i, j) < q + 1 THEN Sitio(m, i, j) \in Bloques ELSE Sitio(m, i, j) = 0
    <2>1. IF Pos(i, j) < q THEN Sitio(d, i, j) \in Bloques ELSE Sitio(d, i, j) = 0
      BY DEF JustoDe
    <2>2. Pos(i, j) \in Nat
      BY <1>4
    <2>3. CASE Pos(i, j) = q
      BY <1>2, <1>3, <2>2, <2>3
    <2>4. CASE Pos(i, j) # q
      <3>1. Sitio(m, i, j) = Sitio(d, i, j) /\ (Pos(i, j) < q + 1 <=> Pos(i, j) < q)
        BY <1>2, <2>2, <2>4
      <3>2. QED
        BY <2>1, <3>1
    <2>5. QED
      BY <2>3, <2>4
  <1>7. JustoDe(m, q + 1)
    BY <1>5, <1>6 DEF JustoDe
  <1>8. ASSUME NEW x \in m.usados \ O
        PROVE  \E i \in Indirectos, j \in Columnas : Sitio(m, i, j) = x
    <2>1. CASE x = b
      <3>1. Sitio(m, i1, j1) = b /\ j1 \in Columnas
        BY <1>1, <1>2, SitioEs
      <3>2. QED
        BY <2>1, <3>1
    <2>2. CASE x = c /\ x # b
      <3>1. Pos(i1, 0) = q
        BY <1>1, <1>2, <2>2
      <3>2. Sitio(m, i1, -1) = c /\ -1 \in Columnas
        BY <1>2, <3>1, SitioEs
      <3>3. QED
        BY <2>2, <3>2
    <2>3. CASE x # b /\ x # c
      <3>1. x \in d.usados \ O /\ x # 0
        BY <1>2, <2>3, SinBloque DEF Bien, TipoDe
      <3>2. PICK i \in Indirectos, j \in Columnas : Sitio(d, i, j) = x
        BY <3>1 DEF SinPerdidos
      <3>3. Sitio(m, i, j) = x
        <4>1. CASE j = -1
          BY <1>2, <1>4, <3>1, <3>2, <4>1 DEF JustoDe
        <4>2. CASE j # -1
          <5>1. j \in Directos
            BY <4>2 DEF Columnas
          <5>2. Pos(i, j) < q
            BY <3>1, <3>2, <5>1 DEF JustoDe
          <5>3. QED
            BY <1>2, <1>4, <3>2, <5>1, <5>2
        <4>3. QED
          BY <4>1, <4>2
      <3>4. QED
        BY <3>3
    <2>4. QED
      BY <2>1, <2>2, <2>3
  <1>9. Puntero(m, q) = b
    <2>1. q \in 0..(q + 1) - 1 /\ q + 1 \in Nat /\ q + 1 <= CantDatos
      BY <1>0
    <2>2. Puntero(m, q) = Sitio(m, i1, j1)
      BY <1>1, <1>7, <2>1, PunteroJusto
    <2>3. QED
      BY <1>1, <1>2, <2>2
  <1>10. ASSUME NEW k \in 0..q - 1
         PROVE  /\ Puntero(m, k) = Puntero(d, k) /\ Puntero(d, k) \in Bloques
                /\ Puntero(d, k) # b
                /\ m.datos[Puntero(d, k)] = d.datos[Puntero(d, k)]
    <2>1. k \in 0..(q + 1) - 1 /\ q + 1 \in Nat /\ q + 1 <= CantDatos /\ q <= CantDatos /\ k \in Nat
      BY <1>0
    <2>2. PICK i \in Indirectos, j \in Directos : i = Indirecto(k) /\ j = Directo(k)
      BY <2>1, PunteroJusto
    <2>3. Pos(i, j) = k /\ k # q
      BY <2>1, <2>2, Posiciones
    <2>4. Puntero(d, k) = Sitio(d, i, j) /\ Puntero(d, k) \in Bloques
      BY <2>1, <2>2, PunteroJusto
    <2>5. Puntero(m, k) = Sitio(m, i, j)
      BY <1>7, <2>1, <2>2, PunteroJusto
    <2>6. Sitio(m, i, j) = Sitio(d, i, j)
      BY <1>2, <2>3
    <2>7. Sitio(d, i, j) \in d.usados
      BY <2>4, SitioEs DEF Bien
    <2>8. QED
      BY <1>2, <1>3, <2>4, <2>5, <2>6, <2>7
  <1>11. Cardinality(Libres(m)) = Cardinality(Libres(d)) - Falta(q)
    <2>1. IsFiniteSet(Libres(d)) /\ Cardinality(Libres(d)) \in Nat
      BY LibresSon
    <2>2. PICK S : S = Libres(d) \ {b}
      OBVIOUS
    <2>3. IsFiniteSet(S) /\ Cardinality(S) = Cardinality(Libres(d)) - 1
      BY <1>2, <2>1, <2>2, FS_RemoveElement
    <2>4. Libres(m) = S \ {c}
      BY <1>2, <2>2 DEF Libres
    <2>5. CASE j1 = 0
      <3>1. c \in S
        BY <1>2, <2>2, <2>5
      <3>2. Cardinality(S \ {c}) = Cardinality(S) - 1
        BY <2>3, <3>1, FS_RemoveElement
      <3>3. Falta(q) = 2
        BY <1>1, <2>5 DEF Falta
      <3>4. QED
        BY <2>1, <2>3, <2>4, <3>2, <3>3
    <2>6. CASE j1 # 0
      <3>1. S \ {c} = S
        BY <1>2, <2>2, <2>6
      <3>2. Falta(q) = 1
        BY <1>1, <2>6 DEF Falta
      <3>3. QED
        BY <2>1, <2>3, <2>4, <3>1, <3>2
    <2>7. QED
      BY <2>5, <2>6
  <1>12. QED
    BY <1>7, <1>8, <1>9, <1>10, <1>11 DEF SinPerdidos

\* bloque_indirecto_para_escribir looks for the first place that is empty.
LEMMA BuscaLugar ==
  ASSUME NEW d, NEW q \in Nat, q < Pos(CANT_INDIR_SIMPLE - 1, 0), JustoDe(d, q),
         NEW f, f = bloque_indirecto_para_escribir(d)
  PROVE  LET i == Indirecto(q)
             j == Directo(q)
             b == buscar_bloque_libre(d)
         IN /\ i \in Indirectos /\ j \in Directos /\ Pos(i, j) = q
            /\ j = 0 => f = agregar_bloque_ptrDir(d, i)
            /\ j # 0 => /\ d.ind[i] # 0
                        /\ f = IF b = -1 THEN [d EXCEPT !.ret = -1]
                               ELSE [d EXCEPT !.ptr[d.ind[i]][j] = b, !.ret = b]
  <1>1. PICK i \in Nat, j \in Directos : i = Indirecto(q) /\ j = Directo(q) /\ Pos(i, j) = q
    BY Posiciones
  <1>2. PICK I \in Indirectos : I = CANT_INDIR_SIMPLE - 1
    BY PosicionesDelArchivo
  <1>3. /\ j \in Nat /\ j < CANT_DIRECTOS /\ CANT_DIRECTOS \in Nat /\ I \in Nat
        /\ q = Pos(i, 0) + j /\ Pos(i, 0) \in Nat
    BY <1>1, SitioEs, Posiciones, SacBloquesConstantes
  <1>4. i < I
    <2>1. ASSUME I <= i PROVE FALSE
      <3>1. Pos(I, 0) <= Pos(i, 0) /\ Pos(I, 0) \in Nat
        <4>1. I = i \/ I < i
          BY <1>3, <2>1
        <4>2. I < i => Pos(I, 0) + CANT_DIRECTOS <= Pos(i, 0)
          BY <1>3, Posiciones
        <4>3. Pos(I, 0) \in Nat
          BY <1>3, Posiciones
        <4>4. QED
          BY <1>3, <4>1, <4>2, <4>3
      <3>2. QED
        BY <1>2, <1>3, <3>1
    <2>2. QED
      BY <1>3, <2>1
  <1>5. i \in Indirectos /\ i + 1 \in Indirectos
    BY <1>2, <1>3, <1>4, SacBloquesConstantes DEF Indirectos
  <1>6. \A h \in Indirectos : d.ind[h] = 0 <=> ~(Pos(h, 0) < q)
    BY SitioEs DEF JustoDe
  <1>7. \A h \in Indirectos : /\ h < i => Pos(h, 0) + CANT_DIRECTOS <= Pos(i, 0)
                              /\ i < h => Pos(i, 0) + CANT_DIRECTOS <= Pos(h, 0)
                              /\ h \in Nat /\ Pos(h, 0) \in Nat
    BY SitioEs, Posiciones
  <1>8. PICK vacios : vacios = {h \in Indirectos : d.ind[h] = 0}
    OBVIOUS
  <1>9. PICK v : v = Min(vacios)
    OBVIOUS
  <1>10. PICK ultimo : ultimo = d.ind[v - 1]
    OBVIOUS
  <1>11. PICK huecos : huecos = {h \in Directos : d.ptr[ultimo][h] = 0}
    OBVIOUS
  <1>12. PICK b : b = buscar_bloque_libre(d)
    OBVIOUS
  <1>13. f = IF vacios = {} THEN [d EXCEPT !.ret = -1]
             ELSE IF v = 0 \/ huecos = {} THEN agregar_bloque_ptrDir(d, v)
             ELSE IF b = -1 THEN [d EXCEPT !.ret = -1]
             ELSE [d EXCEPT !.ptr[ultimo][Min(huecos)] = b, !.ret = b]
    BY <1>8, <1>9, <1>10, <1>11, <1>12 DEF bloque_indirecto_para_escribir
  <1>14. ASSUME NEW S \in SUBSET Nat, NEW x \in S, \A h \in S : x <= h
         PROVE  Min(S) = x
    <2>1. Min(S) \in S
      BY PrimeroEsta
    <2>2. \A h \in S : Min(S) <= h
      BY <1>14 DEF Min
    <2>3. PICK y \in Nat : y = Min(S)
      BY <2>1
    <2>4. x \in Nat /\ y <= x /\ x <= y
      BY <1>14, <2>1, <2>2, <2>3
    <2>5. y = x
      BY <2>4
    <2>6. QED
      BY <2>3, <2>5
  <1>15. \A h \in Indirectos : h \in vacios <=> ~(Pos(h, 0) < q)
    BY <1>6, <1>8
  <1>16. vacios \in SUBSET Nat /\ vacios \subseteq Indirectos
    BY <1>7, <1>8
  <1>17. CASE j = 0
    <2>1. i \in vacios /\ \A h \in vacios : i <= h
      <3>1. i \in vacios
        BY <1>3, <1>5, <1>15, <1>17
      <3>2. ASSUME NEW h \in vacios PROVE i <= h
        <4>1. h \in Indirectos /\ ~(Pos(h, 0) < q)
          BY <1>15, <1>16
        <4>2. QED
          BY <1>3, <1>7, <1>17, <4>1, SacBloquesConstantes
      <3>3. QED
        BY <3>1, <3>2
    <2>2. v = i
      BY <1>9, <1>14, <1>16, <2>1
    <2>3. i # 0 => huecos = {}
      <3>1. ASSUME i # 0, NEW h \in Directos PROVE d.ptr[ultimo][h] # 0
        <4>1. PICK x \in Indirectos : x = i - 1 /\ x \in Nat /\ i = x + 1
          BY <1>5, <3>1, SacBloquesConstantes DEF Indirectos
        <4>2. h \in Nat /\ h < CANT_DIRECTOS
          BY SitioEs
        <4>3. Pos(x, h) = Pos(x, 0) + h /\ Pos(x, 0) + CANT_DIRECTOS = Pos(i, 0) /\ Pos(x, 0) \in Nat
          BY <4>1, <4>2, Posiciones
        <4>4. Pos(x, h) < q
          BY <1>3, <4>2, <4>3
        <4>5. Sitio(d, x, h) \in Bloques
          BY <4>4 DEF JustoDe
        <4>6. QED
          BY <1>10, <2>2, <4>1, <4>5, SitioEs, SinBloque
      <3>2. QED
        BY <1>11, <3>1
    <2>4. f = agregar_bloque_ptrDir(d, i)
      BY <1>13, <2>1, <2>2, <2>3
    <2>5. QED
      BY <1>1, <1>5, <1>17, <2>4
  <1>18. CASE j # 0
    <2>1. i + 1 \in vacios /\ \A h \in vacios : i + 1 <= h
      <3>1. i + 1 \in vacios
        BY <1>3, <1>5, <1>7, <1>15
      <3>2. ASSUME NEW h \in vacios PROVE i + 1 <= h
        <4>1. h \in Indirectos /\ ~(Pos(h, 0) < q) /\ h \in Nat /\ Pos(h, 0) \in Nat
          BY <1>7, <1>15, <1>16
        <4>2. h # i
          BY <1>3, <1>18, <4>1
        <4>3. ~(h < i)
          BY <1>3, <1>7, <4>1
        <4>4. QED
          BY <1>1, <4>1, <4>2, <4>3
      <3>3. QED
        BY <3>1, <3>2
    <2>2. v = i + 1
      BY <1>9, <1>14, <1>16, <2>1
    <2>3. ultimo = d.ind[i]
      BY <1>10, <2>2
    <2>4. d.ind[i] # 0
      BY <1>3, <1>5, <1>6, <1>18
    <2>5. \A h \in Directos : h \in huecos <=> j <= h
      <3>1. ASSUME NEW h \in Directos PROVE d.ptr[ultimo][h] = 0 <=> j <= h
        <4>1. h \in Nat /\ Pos(i, h) = Pos(i, 0) + h
          BY <1>5, SitioEs, Posiciones
        <4>2. Pos(i, h) < q <=> h < j
          BY <1>3, <4>1
        <4>3. Sitio(d, i, h) = d.ptr[ultimo][h]
          BY <1>5, <2>3, <2>4, SitioEs
        <4>4. IF Pos(i, h) < q THEN Sitio(d, i, h) \in Bloques ELSE Sitio(d, i, h) = 0
          BY <1>5 DEF JustoDe
        <4>5. QED
          BY <1>3, <4>1, <4>2, <4>3, <4>4, SinBloque
      <3>2. QED
        BY <1>11, <3>1
    <2>6. Min(huecos) = j
      <3>1. huecos \in SUBSET Nat /\ huecos \subseteq Directos
        BY <1>11 DEF Directos
      <3>2. j \in huecos /\ \A h \in huecos : j <= h
        BY <1>1, <1>3, <2>5, <3>1
      <3>3. QED
        BY <1>14, <3>1, <3>2
    <2>7. huecos # {} /\ v # 0 /\ vacios # {}
      <3>1. j \in huecos
        BY <1>1, <1>3, <2>5
      <3>2. v # 0
        BY <1>1, <2>2
      <3>3. QED
        BY <2>1, <3>1, <3>2
    <2>8. f = IF b = -1 THEN [d EXCEPT !.ret = -1] ELSE [d EXCEPT !.ptr[d.ind[i]][j] = b, !.ret = b]
      BY <1>13, <2>3, <2>6, <2>7
    <2>9. QED
      BY <1>1, <1>5, <1>12, <1>18, <2>4, <2>8
  <1>19. QED
    BY <1>17, <1>18

\* A place of the file, by its number.
LEMMA LugarDe ==
  ASSUME NEW q \in Nat, NEW i \in Indirectos, NEW j \in Directos, Pos(i, j) = q
  PROVE  /\ \A h \in Indirectos, k \in Directos : Pos(h, k) = q <=> h = i /\ k = j
         /\ \A h \in Indirectos : Pos(h, 0) = q <=> h = i /\ j = 0
  <1>1. ASSUME NEW h \in Indirectos, NEW k \in Directos
        PROVE  Indirecto(Pos(h, k)) = h /\ Directo(Pos(h, k)) = k
    BY SitioEs, Posiciones
  <1>2. 0 \in Directos
    BY SinBloque
  <1>3. QED
    BY <1>1, <1>2

\* The block of pointers of a place, and its first data block.
LEMMA CreceConIndirecto ==
  ASSUME NEW d, NEW O, Bien(d, O), NEW q \in Nat, JustoDe(d, q), NEW i \in Indirectos,
         Pos(i, 0) = q, Directo(q) = 0, 2 <= Cardinality(Libres(d)),
         NEW f, f = agregar_bloque_ptrDir(d, i), NEW m, m = Marcado(f)
  PROVE  f.ret # -1 /\ \E c : Crecido(d, m, q, f.ret, c)
  <1>0. TipoDe(d) /\ DOMAIN d = CamposDisco /\ 0 \in Directos
    BY SinBloque DEF Bien, TipoDe
  <1>1. PICK b : b = buscar_bloque_libre(d)
    OBVIOUS
  <1>2. b \in Libres(d) /\ b # -1 /\ IsFiniteSet(Libres(d))
    <2>1. Cardinality(Libres(d)) > 0
      BY LibresSon
    <2>2. QED
      BY <1>1, <2>1, LibresSon, SinBloque DEF Libres
  <1>3. PICK e : e = ConBloquePtr(d, i, b)
    OBVIOUS
  <1>4. /\ DOMAIN e = CamposDisco /\ e.ind = [d.ind EXCEPT ![i] = b]
        /\ e.usados = d.usados \cup {b}
        /\ e.ptr = [d.ptr EXCEPT ![b] = [j \in Directos |-> 0]]
        /\ e.datos = [d.datos EXCEPT ![b] = [x \in Bytes |-> Basura]]
    BY <1>0, <1>3 DEF ConBloquePtr, CamposDisco
  <1>5. PICK dato : dato = buscar_bloque_libre(e)
    OBVIOUS
  <1>6. dato \in Libres(d) /\ dato # b /\ dato # -1
    <2>1. Libres(e) = Libres(d) \ {b}
      BY <1>4 DEF Libres
    <2>2. Cardinality(Libres(d) \ {b}) = Cardinality(Libres(d)) - 1
      BY <1>2, FS_RemoveElement
    <2>3. Cardinality(Libres(e)) > 0
      BY <2>1, <2>2, LibresSon
    <2>4. dato \in Libres(e)
      BY <1>5, <2>3, LibresSon
    <2>5. QED
      BY <2>1, <2>4, SinBloque DEF Libres
  <1>7. f = [e EXCEPT !.ptr[b][0] = dato, !.ret = dato]
    BY <1>1, <1>2, <1>3, <1>5 DEF agregar_bloque_ptrDir
  <1>8. /\ DOMAIN f = CamposDisco /\ f.ind = e.ind /\ f.usados = e.usados
        /\ f.ptr = [e.ptr EXCEPT ![b][0] = dato] /\ f.datos = e.datos /\ f.ret = dato
    BY <1>4, <1>7 DEF CamposDisco
  <1>9. /\ m.ind = [d.ind EXCEPT ![i] = b] /\ m.usados = d.usados \cup {dato, b}
        /\ m.ptr = [d.ptr EXCEPT ![b] = [j \in Directos |-> IF j = 0 THEN dato ELSE 0]]
        /\ m.datos = [d.datos EXCEPT ![b] = [x \in Bytes |-> Basura]]
    <2>1. /\ m.ind = f.ind /\ m.ptr = f.ptr /\ m.datos = f.datos /\ m.usados = f.usados \cup {dato}
      BY <1>8, MarcadoEs
    <2>2. b \in DOMAIN d.ptr
      BY <1>0, <1>2 DEF TipoDe, Libres
    <2>3. f.ptr = [d.ptr EXCEPT ![b] = [j \in Directos |-> IF j = 0 THEN dato ELSE 0]]
      BY <1>4, <1>8, <2>2
    <2>4. QED
      BY <1>4, <1>8, <2>1, <2>3
  <1>10. b \in Bloques /\ b \notin d.usados /\ b # 0
    BY <1>2, SinBloque DEF Libres
  <1>11. ASSUME NEW h \in Indirectos
         PROVE  /\ Sitio(m, h, -1) = IF Pos(h, 0) = q THEN b ELSE Sitio(d, h, -1)
                /\ \A j \in Directos :
                      Sitio(m, h, j) = IF Pos(h, j) = q THEN dato ELSE Sitio(d, h, j)
    <2>1. DOMAIN d.ind = Indirectos /\ DOMAIN d.ptr = Bloques
      BY <1>0 DEF TipoDe
    <2>2. /\ Pos(h, 0) = q <=> h = i
          /\ \A j \in Directos : Pos(h, j) = q <=> h = i /\ j = 0
      BY <1>0, LugarDe
    <2>3. CASE h = i
      <3>1. d.ind[i] = 0
        BY SitioEs DEF JustoDe
      <3>2. m.ind[i] = b /\ \A j \in Directos : m.ptr[b][j] = IF j = 0 THEN dato ELSE 0
        BY <1>9, <1>10, <2>1
      <3>3. QED
        BY <1>10, <2>2, <2>3, <3>1, <3>2, SitioEs
    <2>4. CASE h # i
      <3>1. m.ind[h] = d.ind[h] /\ d.ind[h] \in {0} \cup Bloques
        BY <1>0, <1>9, <2>1, <2>4 DEF TipoDe
      <3>2. d.ind[h] # 0 => m.ptr[d.ind[h]] = d.ptr[d.ind[h]]
        <4>1. ASSUME d.ind[h] # 0 PROVE d.ind[h] # b /\ d.ind[h] \in Bloques
          <5>1. Sitio(d, h, -1) = d.ind[h] /\ -1 \in Columnas
            BY SitioEs
          <5>2. QED
            BY <1>10, <3>1, <4>1, <5>1 DEF Bien
        <4>2. QED
          BY <1>9, <2>1, <4>1
      <3>3. QED
        BY <2>2, <2>4, <3>1, <3>2, SitioEs
    <2>5. QED
      BY <2>3, <2>4
  <1>12. \A x \in d.usados : m.datos[x] = d.datos[x]
    BY <1>0, <1>9, <1>10 DEF TipoDe
  <1>13. Crecido(d, m, q, dato, b)
    BY <1>2, <1>6, <1>9, <1>11, <1>12 DEF Crecido
  <1>14. QED
    BY <1>6, <1>8, <1>13

\* The j-th pointer of a block of pointers gets a free block.
ConPuntero(d, i, j) ==
    LET b == buscar_bloque_libre(d) IN
    IF b = -1 THEN [d EXCEPT !.ret = -1]
    ELSE [d EXCEPT !.ptr[d.ind[i]][j] = b, !.ret = b]

\* The next place under a block of pointers that the file has.
LEMMA CreceSolo ==
  ASSUME NEW d, NEW O, Bien(d, O), NEW q \in Nat, NEW i \in Indirectos, NEW j \in Directos,
         Pos(i, j) = q, j = Directo(q), j # 0, d.ind[i] # 0, 0 < Cardinality(Libres(d)),
         NEW f, f = ConPuntero(d, i, j), NEW m, m = Marcado(f)
  PROVE  f.ret # -1 /\ \E c : Crecido(d, m, q, f.ret, c)
  <1>0. TipoDe(d) /\ DOMAIN d = CamposDisco
    BY DEF Bien, TipoDe
  <1>1. PICK b : /\ b = buscar_bloque_libre(d)
                 /\ b \in Libres(d) /\ b \in Bloques /\ b \notin d.usados /\ b # -1
    BY LibresSon, SinBloque DEF Libres
  <1>2. /\ DOMAIN f = CamposDisco /\ f.ind = d.ind /\ f.usados = d.usados
        /\ f.ptr = [d.ptr EXCEPT ![d.ind[i]][j] = b] /\ f.datos = d.datos /\ f.ret = b
    <2>1. f = [d EXCEPT !.ptr[d.ind[i]][j] = b, !.ret = b]
      BY <1>1 DEF ConPuntero
    <2>2. QED
      BY <1>0, <2>1 DEF CamposDisco
  <1>3. /\ m.ind = d.ind /\ m.usados = d.usados \cup {b, b}
        /\ m.ptr = [d.ptr EXCEPT ![d.ind[i]][j] = b] /\ m.datos = d.datos
    <2>1. /\ m.ind = f.ind /\ m.usados = f.usados \cup {f.ret} /\ m.ptr = f.ptr
          /\ m.datos = f.datos
      BY <1>2, MarcadoEs
    <2>2. m.usados = d.usados \cup {b, b}
      BY <1>2, <2>1
    <2>3. QED
      BY <1>2, <2>1, <2>2
  <1>4. /\ \A h \in Indirectos, k \in Directos : Pos(h, k) = q <=> h = i /\ k = j
        /\ \A h \in Indirectos : Pos(h, 0) # q
    BY LugarDe
  <1>5. ASSUME NEW h \in Indirectos, NEW k \in Directos
        PROVE  Sitio(m, h, k) = IF Pos(h, k) = q THEN b ELSE Sitio(d, h, k)
    <2>1. /\ d.ind[h] \in {0} \cup Bloques /\ d.ind[i] \in {0} \cup Bloques
          /\ DOMAIN d.ptr = Bloques /\ \A x \in Bloques : DOMAIN d.ptr[x] = Directos
      BY <1>0 DEF TipoDe
    <2>0. /\ m.ind[h] = d.ind[h]
          /\ Sitio(m, h, k) = IF m.ind[h] = 0 THEN 0 ELSE m.ptr[m.ind[h]][k]
          /\ Sitio(d, h, k) = IF d.ind[h] = 0 THEN 0 ELSE d.ptr[d.ind[h]][k]
      <3>1. m.ind[h] = d.ind[h]
        BY <1>3
      <3>2. QED
        BY <3>1, SitioEs
    <2>2. CASE h = i
      <3>1. m.ptr[d.ind[i]][k] = IF k = j THEN b ELSE d.ptr[d.ind[i]][k]
        BY <1>3, <2>1
      <3>2. QED
        BY <1>4, <2>0, <2>2, <3>1
    <2>3. CASE h # i
      <3>1. d.ind[h] # 0 => d.ind[h] # d.ind[i]
        <4>1. Sitio(d, h, -1) = d.ind[h] /\ Sitio(d, i, -1) = d.ind[i] /\ -1 \in Columnas
          BY SitioEs
        <4>2. QED
          BY <2>1, <2>3, <4>1 DEF Bien, SitiosUnicos
      <3>2. d.ind[h] # 0 => m.ptr[d.ind[h]] = d.ptr[d.ind[h]]
        BY <1>3, <2>1, <3>1
      <3>3. QED
        BY <1>4, <2>0, <2>3, <3>2
    <2>4. QED
      BY <2>2, <2>3
  <1>6. ASSUME NEW h \in Indirectos
        PROVE  /\ Sitio(m, h, -1) = IF Pos(h, 0) = q THEN b ELSE Sitio(d, h, -1)
               /\ \A k \in Directos :
                     Sitio(m, h, k) = IF Pos(h, k) = q THEN b ELSE Sitio(d, h, k)
    BY <1>3, <1>4, <1>5, SitioEs
  <1>7. Crecido(d, m, q, b, b)
    BY <1>1, <1>3, <1>6 DEF Crecido
  <1>8. QED
    BY <1>1, <1>2, <1>7

\* The answer e for the file d, that becomes m, is its data block q.
Consigue(d, e, m, q, O) ==
    /\ e.ret \in Bloques \ O /\ e.ret # -1 /\ DOMAIN e = CamposDisco /\ Sigue(d, m, O)
    /\ e.tam = d.tam /\ e.ok = d.ok
    /\ \E c : Crecido(d, m, q, e.ret, c)

\* With blocks enough, a file gets its next block.
LEMMA NuevoBloque ==
  ASSUME NEW d, NEW O, Bien(d, O), NEW q \in Nat, q < Pos(CANT_INDIR_SIMPLE - 1, 0),
         JustoDe(d, q), SinPerdidos(d, O), Falta(q) <= Cardinality(Libres(d)),
         NEW e, e = bloque_indirecto_para_escribir(d), NEW m, m = Marcado(e)
  PROVE  Consigue(d, e, m, q, O)
  <1>1. Busca(d, e, O)
    BY BuscaDato
  <1>2. PICK i \in Indirectos, j \in Directos : i = Indirecto(q) /\ j = Directo(q)
    BY BuscaLugar
  <1>4. /\ Pos(i, j) = q
        /\ j = 0 => e = agregar_bloque_ptrDir(d, i)
        /\ j # 0 => d.ind[i] # 0 /\ e = ConPuntero(d, i, j)
    BY <1>2, BuscaLugar DEF ConPuntero
  <1>5. e.ret # -1 /\ \E c : Crecido(d, m, q, e.ret, c)
    <2>1. CASE j = 0
      <3>1. 2 <= Cardinality(Libres(d))
        BY <1>2, <2>1 DEF Falta
      <3>2. e = agregar_bloque_ptrDir(d, i) /\ Pos(i, 0) = q /\ Directo(q) = 0
        BY <1>2, <1>4, <2>1
      <3>3. QED
        BY <3>1, <3>2, CreceConIndirecto
    <2>2. CASE j # 0
      <3>1. 0 < Cardinality(Libres(d))
        BY <1>2, <2>2, LibresSon DEF Falta
      <3>2. /\ Pos(i, j) = q /\ j = Directo(q) /\ d.ind[i] # 0 /\ e = ConPuntero(d, i, j)
        BY <1>2, <1>4, <2>2
      <3>3. QED
        BY <2>2, <3>1, <3>2, CreceSolo
    <2>3. QED
      BY <2>1, <2>2
  <1>6. QED
    BY <1>1, <1>5 DEF Busca, Consigue

\* Byte x of the file.
Byte(d, x) == d.datos[Puntero(d, NroBloque(x))][EnBloque(x)]

\* No two data blocks of the file are the same block.
LEMMA PunterosDistintos ==
  ASSUME NEW d, NEW O, Bien(d, O), NEW q \in Nat, q <= CantDatos, JustoDe(d, q),
         NEW k \in 0..q - 1, NEW h \in 0..q - 1, Puntero(d, k) = Puntero(d, h)
  PROVE  k = h
  <1>1. PICK i \in Indirectos, j \in Directos :
          i = Indirecto(k) /\ j = Directo(k) /\ Sitio(d, i, j) = Puntero(d, k)
    BY PunteroJusto
  <1>2. PICK x \in Indirectos, y \in Directos :
          x = Indirecto(h) /\ y = Directo(h) /\ Sitio(d, x, y) = Puntero(d, h)
    BY PunteroJusto
  <1>3. Puntero(d, k) \in Bloques
    BY PunteroJusto
  <1>4. i = x /\ j = y
    BY <1>1, <1>2, <1>3, SitioEs DEF Bien, SitiosUnicos
  <1>5. k = Pos(i, j) /\ h = Pos(x, y)
    BY <1>1, <1>2, Posiciones
  <1>6. QED
    BY <1>4, <1>5

\* From d to e, a memcpy of s at offset o of the data block k of the file.
CopiaEn(d, e, k, o, s) ==
    /\ e.ind = d.ind /\ e.ptr = d.ptr
    /\ e.datos = [d.datos EXCEPT ![Puntero(d, k)] = Sobre(d.datos[Puntero(d, k)], o, s)]

\* The bytes of the file after a memcpy of s in its block k.
LEMMA ByteCopiado ==
  ASSUME NEW d, NEW O, Bien(d, O), NEW q \in Nat, q <= CantDatos, JustoDe(d, q),
         NEW k \in 0..q - 1, NEW o, NEW s, NEW e, CopiaEn(d, e, k, o, s),
         NEW x \in Nat, NroBloque(x) < q
  PROVE  Byte(e, x) = IF NroBloque(x) = k /\ EnBloque(x) - o + 1 \in DOMAIN s
                      THEN s[EnBloque(x) - o + 1] ELSE Byte(d, x)
  <1>1. PICK h \in 0..q - 1, r \in Bytes : h = NroBloque(x) /\ r = EnBloque(x)
    <2>1. NroBloque(x) \in Nat /\ EnBloque(x) \in Nat /\ EnBloque(x) < BLOCK_SIZE
      BY OffsetEs
    <2>2. QED
      BY <2>1, SacBloquesConstantes DEF Bytes
  <1>2. PICK b, c : b = Puntero(d, k) /\ c = Puntero(d, h) /\ b \in Bloques /\ c \in Bloques
    BY PunteroJusto
  <1>3. Puntero(e, h) = c
    BY <1>2 DEF Puntero, CopiaEn
  <1>4. DOMAIN d.datos = Bloques
    BY DEF Bien, TipoDe
  <1>5. Byte(e, x) = e.datos[c][r] /\ Byte(d, x) = d.datos[c][r]
    BY <1>1, <1>2, <1>3 DEF Byte
  <1>6. e.datos = [d.datos EXCEPT ![b] = Sobre(d.datos[b], o, s)]
    BY <1>2 DEF CopiaEn
  <1>7. CASE h = k
    <2>1. b = c
      BY <1>2, <1>7
    <2>2. e.datos[c] = Sobre(d.datos[c], o, s)
      BY <1>2, <1>4, <1>6, <2>1
    <2>3. e.datos[c][r] = IF r - o + 1 \in DOMAIN s THEN s[r - o + 1] ELSE d.datos[c][r]
      BY <2>2 DEF Sobre
    <2>4. QED
      BY <1>1, <1>5, <1>7, <2>3
  <1>8. CASE h # k
    <2>1. b # c
      BY <1>2, <1>8, PunterosDistintos
    <2>2. e.datos[c] = d.datos[c]
      BY <1>2, <1>6, <2>1, <1>4
    <2>3. QED
      BY <1>1, <1>5, <1>8, <2>2
  <1>9. QED
    BY <1>7, <1>8

\* A file on its own, with the blocks of its size and no block lost.
Justo(d, O) ==
    /\ Bien(d, O) /\ d.ok /\ d.tam \in Nat
    /\ JustoDe(d, cant_bloques_necesaria(d.tam)) /\ SinPerdidos(d, O)

\* Only the places, the bitmap and the number of blocks matter.
LEMMA JustoSigue ==
  ASSUME NEW d, NEW O, NEW q, JustoDe(d, q), SinPerdidos(d, O), NEW e, Bien(e, O), e.ok,
         e.ind = d.ind, e.ptr = d.ptr, e.usados = d.usados,
         e.tam \in Nat, cant_bloques_necesaria(e.tam) = q
  PROVE  Justo(e, O)
  <1>1. \A i \in Indirectos, j \in Columnas : Sitio(e, i, j) = Sitio(d, i, j)
    BY DEF Sitio
  <1>2. JustoDe(e, q)
    BY <1>1, JustoIgual
  <1>3. SinPerdidos(e, O)
    BY <1>1 DEF SinPerdidos
  <1>4. QED
    BY <1>2, <1>3 DEF Justo

\* The last block of a file that is not full, and its bytes.
LEMMA UltimoBloque ==
  ASSUME NEW t \in Nat, EnBloque(t) # 0, NEW n \in Nat, n <= BLOCK_SIZE - EnBloque(t)
  PROVE  /\ cant_bloques_necesaria(t + n) = NroBloque(t) + 1
         /\ cant_bloques_necesaria(t) = NroBloque(t) + 1
         /\ n = BLOCK_SIZE - EnBloque(t) => EnBloque(t + n) = 0
  <1>1. PICK B \in Nat \ {0}, q \in Nat, o \in Nat :
          B = BLOCK_SIZE /\ q = NroBloque(t) /\ o = EnBloque(t) /\ o < B /\ t = q * B + o
    BY OffsetEs, SacBloquesConstantes
  <1>2. PICK Q \in Nat, M \in Nat, N \in Nat, u \in Nat :
          /\ Q = q + 1 /\ M = q * B /\ N = Q * B /\ u = t + n /\ N = M + B
    <2>1. (q + 1) * B = q * B + B /\ q * B \in Nat /\ q + 1 \in Nat /\ t + n \in Nat
      OBVIOUS
    <2>2. QED
      BY <2>1
  <1>0. t = M + o /\ n <= B - o /\ o # 0 /\ u = M + o + n
    <2>1. t = M + o
      BY <1>1, <1>2, Zenon
    <2>2. n <= B - o /\ o # 0
      BY <1>1
    <2>3. QED
      BY <1>2, <2>1, <2>2
  <1>3. cant_bloques_necesaria(u) = Q
    <2>1. u <= N /\ M < u
      <3>1. N = M + B
        BY <1>2
      <3>2. QED
        BY <1>0, <3>1
    <2>2. u <= Q * B /\ (Q # 0 => (Q - 1) * B < u)
      <3>1. Q - 1 = q
        BY <1>2
      <3>2. QED
        BY <1>2, <2>1, <3>1
    <2>3. QED
      BY <1>1, <2>2, CuantosSon
  <1>4. cant_bloques_necesaria(t) = q + 1
    BY <1>1, CuantosDe
  <1>5. ASSUME n = B - o PROVE EnBloque(u) = 0
    <2>1. u = N
      <3>1. N = M + B
        BY <1>2
      <3>2. QED
        BY <1>0, <1>5, <3>1
    <2>2. u = Q * B
      BY <1>2, <2>1
    <2>3. u % B = 0
      BY <2>2, Multiplo
    <2>4. QED
      BY <1>1, <2>3 DEF EnBloque
  <1>6. QED
    BY <1>1, <1>2, <1>3, <1>4, <1>5

\* The loop of escribir_final_archivo, with room for all that it has to write:
\* the file grows by the beginning of c, and resto is what is left of it.
Avance(s, d, O, A, c) ==
    /\ EnTurno(s, d, O, A, d.tam + Len(c))
    /\ Justo(s.d, O) /\ s.lleno = FALSE /\ d.tam <= s.d.tam
    /\ s.resto = <<>> \/ EnBloque(s.d.tam) = 0
    /\ Peso(cant_bloques_necesaria(d.tam + Len(c)))
         <= Peso(cant_bloques_necesaria(s.d.tam)) + Cardinality(Libres(s.d))
    /\ \A y \in 1..Len(s.resto) : s.resto[y] = c[s.d.tam - d.tam + y]
    /\ \A x \in 0..s.d.tam - 1 : Byte(s.d, x) = IF x < d.tam THEN Byte(d, x) ELSE c[x - d.tam + 1]

\* The first bytes of a buffer.
LEMMA Trozo ==
  ASSUME NEW A, NEW c \in Seq(A), NEW n \in 0..Len(c)
  PROVE  /\ SubSeq(c, 1, n) \in Seq(A) /\ Len(SubSeq(c, 1, n)) = n
         /\ \A y \in 1..n : SubSeq(c, 1, n)[y] = c[y]
  OBVIOUS

\* And those that are left.
LEMMA Sobrante ==
  ASSUME NEW A, NEW c \in Seq(A), NEW n \in 0..Len(c)
  PROVE  /\ SubSeq(c, n + 1, Len(c)) \in Seq(A)
         /\ Len(SubSeq(c, n + 1, Len(c))) = Len(c) - n
         /\ \A y \in 1..Len(c) - n : SubSeq(c, n + 1, Len(c))[y] = c[n + y]
  OBVIOUS

\* The zeros that fill a block.
LEMMA CerosSon ==
  ASSUME NEW l \in Nat
  PROVE  Ceros(l) \in Seq({0}) /\ Len(Ceros(l)) = l
  <1>1. Ceros(l) \in [1..l -> {0}]
    BY DEF Ceros
  <1>2. QED
    BY <1>1

\* A piece of the buffer and the zeros that fill the block.
Texto(c, n, l) == SubSeq(c, 1, n) \o Ceros(l)
Empieza(texto, c, n, l) == DOMAIN texto = 1..n + l /\ \A y \in 1..n : texto[y] = c[y]

\* They begin with what was written.
LEMMA TextoEs ==
  ASSUME NEW A, NEW c \in Seq(A), NEW n \in 0..Len(c), NEW l \in Nat,
         NEW texto, texto = Texto(c, n, l)
  PROVE  Empieza(texto, c, n, l)
  <1>0. PICK s : s = SubSeq(c, 1, n)
    OBVIOUS
  <1>1. s = SubSeq(c, 1, n) /\ s \in Seq(A) /\ Len(s) = n /\ \A y \in 1..n : s[y] = c[y]
    BY <1>0, Trozo, Zenon
  <1>2. PICK z \in Seq({0}) : z = Ceros(l) /\ Len(z) = l
    BY CerosSon, Zenon
  <1>3. texto = s \o z
    BY <1>1, <1>2 DEF Texto
  <1>4. n \in Nat
    OBVIOUS
  <1>5. PICK U : U = A \cup {0}
    OBVIOUS
  <1>6. s \in Seq(U) /\ z \in Seq(U)
    BY <1>1, <1>5
  <1>7. texto \in Seq(U) /\ Len(texto) = n + l
    <2>1. s \o z \in Seq(U) /\ Len(s \o z) = Len(s) + Len(z)
      BY <1>6
    <2>2. QED
      BY <1>1, <1>2, <1>3, <2>1, Zenon
  <1>8. \A y \in 1..n : texto[y] = s[y]
    BY <1>1, <1>2, <1>3, <1>4, <1>6
  <1>9. QED
    BY <1>1, <1>7, <1>8 DEF Empieza

\* Two bytes of a file, by their blocks.
LEMMA BytesEnOrden ==
  ASSUME NEW t \in Nat, NEW y \in Nat
  PROVE  /\ NroBloque(y) < NroBloque(t) => y < t
         /\ NroBloque(y) = NroBloque(t) => y - t = EnBloque(y) - EnBloque(t)
  <1>1. PICK B \in Nat \ {0}, k \in Nat, o \in Nat, M \in Nat :
          /\ B = BLOCK_SIZE /\ k = NroBloque(t) /\ o = EnBloque(t) /\ M = k * B /\ t = M + o
    BY OffsetEs, SacBloquesConstantes
  <1>2. PICK h \in Nat, z \in Nat, N \in Nat :
          h = NroBloque(y) /\ z = EnBloque(y) /\ z < B /\ N = h * B /\ y = N + z
    <2>1. B = BLOCK_SIZE
      BY <1>1
    <2>2. QED
      BY <2>1, OffsetEs
  <1>3. t = M + o /\ y = N + z /\ z < B
    BY <1>1, <1>2
  <1>4. ASSUME h < k PROVE y < t
    <2>1. N + B <= M
      BY <1>1, <1>2, <1>4, Filas
    <2>2. QED
      BY <1>3, <2>1
  <1>5. ASSUME h = k PROVE y - t = z - o
    <2>1. N = M
      BY <1>1, <1>2, <1>5
    <2>2. QED
      BY <1>3, <2>1
  <1>6. QED
    BY <1>1, <1>2, <1>4, <1>5

\* What escribir_sobre_bloque_incompleto leaves to the loop.
LEMMA AvanceInicial ==
  ASSUME NEW d, NEW O, Justo(d, O), d.tam < CantDatos * BLOCK_SIZE,
         cant_bloques_necesaria(d.tam) <= CantDatos,
         NEW A, NEW c \in Seq(A),
         Peso(cant_bloques_necesaria(d.tam + Len(c)))
           <= Peso(cant_bloques_necesaria(d.tam)) + Cardinality(Libres(d)),
         NEW r, r = escribir_sobre_bloque_incompleto(d, c),
         NEW s, DOMAIN s = CamposTurno, s.d = r.d, s.resto = r.resto, s.lleno = FALSE
  PROVE  Avance(s, d, O, A, c)
  <1>1. /\ Bien(d, O) /\ DOMAIN d = CamposDisco /\ d.ok /\ d.tam \in Nat
        /\ JustoDe(d, cant_bloques_necesaria(d.tam)) /\ SinPerdidos(d, O)
    BY DEF Justo, Bien, TipoDe
  <1>2. EnTurno(s, d, O, A, d.tam + Len(c))
    BY <1>1, EscribeIncompleto DEF EnTurno
  <1>3. PICK t \in Nat, o \in Nat, k \in Nat, q \in Nat, B \in Nat \ {0} :
          /\ t = d.tam /\ o = EnBloque(t) /\ k = NroBloque(t) /\ q = cant_bloques_necesaria(t)
          /\ B = BLOCK_SIZE /\ o < B
    BY <1>1, OffsetEs, CuantosEs, SacBloquesConstantes
  <1>4. Len(c) \in Nat /\ q <= CantDatos /\ CantDatos \in Nat
    BY <1>3, PosicionesDelArchivo
  <1>5. CASE o = 0
    <2>1. r.d = d /\ r.resto = c
      BY <1>3, <1>5 DEF escribir_sobre_bloque_incompleto
    <2>2. \A y \in 1..Len(c) : c[y] = c[d.tam - d.tam + y]
      <3>1. \A y \in 1..Len(c) : y = t - t + y
        BY <1>4
      <3>2. QED
        BY <1>3, <3>1
    <2>3. Justo(s.d, O) /\ s.lleno = FALSE /\ d.tam <= s.d.tam /\ EnBloque(s.d.tam) = 0
      <3>1. s.d = d /\ EnBloque(d.tam) = 0 /\ d.tam <= d.tam
        BY <1>3, <1>5, <2>1
      <3>2. QED
        BY <3>1, Zenon
    <2>4. Peso(cant_bloques_necesaria(d.tam + Len(c)))
            <= Peso(cant_bloques_necesaria(s.d.tam)) + Cardinality(Libres(s.d))
      BY <2>1
    <2>5. \A x \in 0..s.d.tam - 1 :
            Byte(s.d, x) = IF x < d.tam THEN Byte(d, x) ELSE c[x - d.tam + 1]
      <3>1. \A x \in 0..t - 1 : x < t
        OBVIOUS
      <3>2. QED
        BY <1>3, <2>1, <3>1
    <2>6. \A y \in 1..Len(s.resto) : s.resto[y] = c[s.d.tam - d.tam + y]
      BY <2>1, <2>2
    <2>7. QED
      BY <1>2, <2>3, <2>4, <2>5, <2>6 DEF Avance
  <1>6. CASE o # 0
    <2>1. q = k + 1 /\ k \in 0..q - 1
      BY <1>3, <1>6, CuantosDe
    <2>2. PICK b : b = Puntero(d, k) /\ b \in Bloques /\ d.ind[Indirecto(k)] # 0 /\ k \in Propios(d)
      BY <1>1, <1>3, <1>4, <2>1, PunteroJusto
    <2>3. PICK n \in Nat : n = Menor(Len(c), B - o) /\ n <= Len(c) /\ n <= B - o
                           /\ (n = B - o \/ n = Len(c))
      <3>1. B - o \in Nat
        BY <1>3
      <3>2. QED
        BY <1>4, <3>1 DEF Menor
    <2>4. PICK texto : texto = SubSeq(c, 1, n) \o Ceros(B - o - n)
      OBVIOUS
    <2>5. PICK x : x = Copiar(d, b, o, texto)
      OBVIOUS
    <2>6. PICK g : g = [x EXCEPT !.tam = @ + n]
      OBVIOUS
    <2>7. r = [d |-> g, resto |-> Desde(c, n)]
      BY <1>3, <1>6, <2>2, <2>3, <2>4, <2>5, <2>6 DEF escribir_sobre_bloque_incompleto
    <2>8. r.d = g /\ r.resto = Desde(c, n)
      BY <2>7
    <2>9. /\ DOMAIN x = CamposDisco /\ x.ind = d.ind /\ x.ptr = d.ptr /\ x.usados = d.usados
          /\ x.tam = d.tam /\ x.ok = d.ok
          /\ x.datos = [d.datos EXCEPT ![b] = Sobre(d.datos[b], o, texto)]
      <3>1. DOMAIN d = CamposDisco /\ b \in Bloques
        BY <1>1, <2>2
      <3>2. QED
        BY <2>5, <3>1 DEF Copiar, CamposDisco, Sobre
    <2>10. /\ DOMAIN g = CamposDisco /\ g.ind = d.ind /\ g.ptr = d.ptr /\ g.usados = d.usados
           /\ g.tam = t + n /\ g.ok = d.ok /\ g.datos = x.datos
      BY <1>3, <2>6, <2>9 DEF CamposDisco
    <2>11. Bien(g, O)
      BY <1>2, <2>8 DEF EnTurno, Sigue
    <2>12. /\ cant_bloques_necesaria(t + n) = q
           /\ n = B - o => EnBloque(t + n) = 0
      BY <1>3, <1>6, <2>1, <2>3, UltimoBloque
    <2>13. Justo(g, O)
      <3>1. g.tam \in Nat /\ cant_bloques_necesaria(g.tam) = q /\ g.ok
        BY <1>1, <2>10, <2>12
      <3>2. JustoDe(d, q) /\ SinPerdidos(d, O)
        BY <1>1, <1>3
      <3>3. QED
        BY <2>10, <2>11, <3>1, <3>2, JustoSigue
    <2>14. r.resto \in Seq(A) /\ Len(r.resto) = Len(c) - n
           /\ \A y \in 1..Len(c) - n : r.resto[y] = c[n + y]
      <3>1. n \in 0..Len(c)
        BY <1>4, <2>3
      <3>2. r.resto = SubSeq(c, n + 1, Len(c))
        BY <2>8, Zenon DEF Desde
      <3>3. QED
        BY <3>1, <3>2, Sobrante, Zenon
    <2>15. r.resto = <<>> \/ EnBloque(g.tam) = 0
      BY <2>3, <2>10, <2>12, <2>14
    <2>16. /\ \A y \in 1..n : texto[y] = c[y] /\ y \in DOMAIN texto
           /\ DOMAIN texto \subseteq Nat \ {0}
      <3>1. PICK l \in Nat : l = B - o - n
        BY <1>3, <2>3
      <3>2. texto = Texto(c, n, l)
        BY <2>4, <3>1 DEF Texto
      <3>3. DOMAIN texto = 1..n + l /\ \A y \in 1..n : texto[y] = c[y]
        <4>1. n \in 0..Len(c)
          BY <1>4, <2>3
        <4>2. QED
          <5>1. Empieza(Texto(c, n, l), c, n, l)
            BY <4>1, TextoEs
          <5>2. QED
            BY <3>2, <5>1, Zenon DEF Empieza
      <3>4. QED
        BY <3>3
    <2>17. ASSUME NEW y \in 0..(t + n) - 1
           PROVE  Byte(g, y) = IF y < t THEN Byte(d, y) ELSE c[y - t + 1]
      <3>1. PICK h \in Nat, z \in Nat :
              h = NroBloque(y) /\ z = EnBloque(y) /\ z < B /\ y \in Nat
        <4>1. y \in Nat /\ B = BLOCK_SIZE
          BY <1>3
        <4>2. QED
          BY <4>1, OffsetEs
      <3>2. h < q
        <4>1. PICK v \in Nat : v = t + n /\ y < v
          OBVIOUS
        <4>2. NroBloque(y) < cant_bloques_necesaria(v)
          BY <3>1, <4>1, BloqueDelByte
        <4>3. QED
          BY <2>12, <3>1, <4>1, <4>2, Zenon
      <3>3. Byte(g, y) = IF h = k /\ z - o + 1 \in DOMAIN texto THEN texto[z - o + 1]
                         ELSE Byte(d, y)
        <4>1. CopiaEn(d, g, k, o, texto)
          BY <2>2, <2>9, <2>10 DEF CopiaEn
        <4>2. /\ JustoDe(d, q) /\ Bien(d, O) /\ y \in Nat /\ NroBloque(y) < q /\ q <= CantDatos
          BY <1>1, <1>3, <1>4, <3>1, <3>2
        <4>3. Byte(g, y) = IF NroBloque(y) = k /\ EnBloque(y) - o + 1 \in DOMAIN texto
                           THEN texto[EnBloque(y) - o + 1] ELSE Byte(d, y)
          BY <2>1, <4>1, <4>2, ByteCopiado
        <4>4. QED
          BY <3>1, <4>3
      <3>4. (h < k => y < t) /\ (h = k => y - t = z - o)
        BY <1>3, <3>1, BytesEnOrden
      <3>6. CASE y < t
        <4>1. ~(h = k /\ z - o + 1 \in DOMAIN texto)
          <5>1. h = k => z - o + 1 <= 0
            <6>1. y - t < 0
              BY <1>3, <3>1, <3>6
            <6>2. QED
              BY <3>4, <6>1, <1>3, <3>1
          <5>2. QED
            BY <2>16, <5>1
        <4>2. QED
          BY <3>3, <3>6, <4>1
      <3>7. CASE ~(y < t)
        <4>1. h = k
          BY <2>1, <3>1, <3>2, <3>4, <3>7
        <4>2. z - o + 1 = y - t + 1 /\ y - t + 1 \in 1..n
          <5>1. y - t = z - o
            BY <3>4, <4>1
          <5>2. y \in Nat /\ t <= y /\ y < t + n
            BY <3>1, <3>7
          <5>3. QED
            BY <5>1, <5>2
        <4>3. QED
          BY <2>16, <3>3, <3>7, <4>1, <4>2
      <3>8. QED
        BY <3>6, <3>7
    <2>18. Libres(g) = Libres(d)
      BY <2>10 DEF Libres
    <2>19. s.d = g /\ s.resto = r.resto /\ d.tam <= g.tam
      BY <1>3, <2>8, <2>10
    <2>20. \A y \in 1..Len(r.resto) : r.resto[y] = c[g.tam - d.tam + y]
      <3>1. g.tam - d.tam = n
        BY <1>3, <2>10
      <3>2. QED
        BY <2>14, <3>1
    <2>21. Peso(cant_bloques_necesaria(d.tam + Len(c)))
             <= Peso(cant_bloques_necesaria(g.tam)) + Cardinality(Libres(g))
      BY <1>3, <2>10, <2>12, <2>18
    <2>22. \A y \in 0..g.tam - 1 : Byte(g, y) = IF y < d.tam THEN Byte(d, y) ELSE c[y - d.tam + 1]
      BY <1>3, <2>10, <2>17
    <2>23. QED
      BY <1>2, <2>13, <2>15, <2>19, <2>20, <2>21, <2>22 DEF Avance
  <1>7. QED
    BY <1>5, <1>6

\* A file whose blocks are full, and n bytes more in a new block.
LEMMA BloqueEntero ==
  ASSUME NEW t \in Nat, EnBloque(t) = 0, NEW n \in Nat \ {0}, n <= BLOCK_SIZE
  PROVE  /\ cant_bloques_necesaria(t) = NroBloque(t)
         /\ cant_bloques_necesaria(t + n) = NroBloque(t) + 1
         /\ n = BLOCK_SIZE => EnBloque(t + n) = 0
  <1>1. PICK B \in Nat \ {0}, q \in Nat, M \in Nat :
          B = BLOCK_SIZE /\ q = NroBloque(t) /\ M = q * B /\ t = M
    <2>1. /\ NroBloque(t) \in Nat /\ NroBloque(t) * BLOCK_SIZE \in Nat
          /\ t = NroBloque(t) * BLOCK_SIZE + 0
      BY OffsetEs
    <2>2. QED
      BY <2>1, SacBloquesConstantes
  <1>2. PICK Q \in Nat, N \in Nat, u \in Nat :
          Q = q + 1 /\ Q - 1 = q /\ N = Q * B /\ u = t + n /\ N = M + B
    <2>1. (q + 1) * B = q * B + B /\ q * B \in Nat /\ q + 1 \in Nat /\ t + n \in Nat
      OBVIOUS
    <2>2. QED
      BY <1>1, <2>1
  <1>3. cant_bloques_necesaria(u) = Q
    <2>1. u <= N /\ M < u
      BY <1>1, <1>2
    <2>2. u <= Q * B /\ (Q # 0 => (Q - 1) * B < u)
      BY <1>1, <1>2, <2>1, Zenon
    <2>3. QED
      BY <1>1, <2>2, CuantosSon
  <1>4. cant_bloques_necesaria(t) = q
    BY <1>1, CuantosDe
  <1>5. ASSUME n = B PROVE EnBloque(u) = 0
    <2>1. u = N
      BY <1>1, <1>2, <1>5
    <2>2. (Q * B) % B = 0
      BY Multiplo
    <2>3. u % B = 0
      BY <1>2, <2>1, <2>2, Zenon
    <2>4. QED
      BY <1>1, <2>3 DEF EnBloque
  <1>6. QED
    BY <1>1, <1>2, <1>3, <1>4, <1>5

\* Room for the block that a file needs next.
LEMMA HayLugar ==
  ASSUME NEW t \in Nat, EnBloque(t) = 0, NEW total \in Nat, t < total, total <= MaxTam,
         NEW L \in Nat,
         Peso(cant_bloques_necesaria(total)) <= Peso(cant_bloques_necesaria(t)) + L,
         NEW q, q = NroBloque(t)
  PROVE  /\ q \in Nat /\ cant_bloques_necesaria(t) = q /\ q + 1 <= cant_bloques_necesaria(total)
         /\ q < Pos(CANT_INDIR_SIMPLE - 1, 0) /\ q < CantDatos /\ Falta(q) <= L
         /\ Peso(cant_bloques_necesaria(total)) <= Peso(q + 1) + (L - Falta(q))
  <1>1. q \in Nat /\ cant_bloques_necesaria(t) = q
    BY OffsetEs, CuantosDe
  <1>2. PICK Q \in Nat : /\ Q = cant_bloques_necesaria(total) /\ q < Q
                         /\ Q <= Pos(CANT_INDIR_SIMPLE - 1, 0) /\ Q <= CantDatos
    BY SobraUno, BloqueDelByte
  <1>3. q + 1 <= Q
    BY <1>1, <1>2
  <1>4. /\ Peso(q) \in Nat /\ Peso(q + 1) = Peso(q) + Falta(q) /\ Peso(q + 1) <= Peso(Q)
        /\ Peso(Q) \in Nat /\ Falta(q) \in Nat
    BY <1>1, <1>3, PesoSigue, PesoCrece DEF Falta
  <1>5. q < Pos(CANT_INDIR_SIMPLE - 1, 0) /\ q < CantDatos
    <2>1. Pos(CANT_INDIR_SIMPLE - 1, 0) \in Nat /\ CantDatos \in Nat
      <3>1. PICK I \in Nat : I = CANT_INDIR_SIMPLE - 1
        BY SacBloquesConstantes
      <3>2. Pos(I, 0) \in Nat
        <4>1. 0 \in Nat
          OBVIOUS
        <4>2. QED
          BY <4>1, Posiciones, Zenon
      <3>3. QED
        BY <3>1, <3>2, PosicionesDelArchivo
    <2>2. QED
      BY <1>1, <1>2, <2>1
  <1>6. QED
    BY <1>1, <1>2, <1>3, <1>4, <1>5

\* The file of a turn with its new block: m has it, g has the bytes too.
LEMMA BloqueEscrito ==
  ASSUME NEW s, NEW O, Bien(s, O), s.ok, NEW q \in Nat, q < CantDatos, JustoDe(s, q),
         SinPerdidos(s, O), NEW m, NEW b, NEW c, Crecido(s, m, q, b, c), Bien(m, O),
         NEW texto, NEW g, Bien(g, O), g.ok, CopiaEn(m, g, q, 0, texto), g.usados = m.usados,
         g.tam \in Nat, cant_bloques_necesaria(g.tam) = q + 1
  PROVE  /\ Justo(g, O)
         /\ Cardinality(Libres(g)) = Cardinality(Libres(s)) - Falta(q)
         /\ \A x \in Nat : NroBloque(x) < q => Byte(g, x) = Byte(s, x)
         /\ \A x \in Nat : NroBloque(x) = q /\ EnBloque(x) + 1 \in DOMAIN texto =>
               Byte(g, x) = texto[EnBloque(x) + 1]
  <1>0. CantDatos \in Nat /\ q + 1 \in Nat /\ q + 1 <= CantDatos /\ q \in 0..(q + 1) - 1
    BY PosicionesDelArchivo
  <1>1. /\ JustoDe(m, q + 1) /\ SinPerdidos(m, O) /\ Puntero(m, q) = b
        /\ \A k \in 0..q - 1 : /\ Puntero(m, k) = Puntero(s, k)
                               /\ m.datos[Puntero(s, k)] = s.datos[Puntero(s, k)]
        /\ Cardinality(Libres(m)) = Cardinality(Libres(s)) - Falta(q)
    BY CrecidoJusto
  <1>2. Justo(g, O)
    BY <1>1, JustoSigue DEF CopiaEn
  <1>3. Libres(g) = Libres(m)
    BY DEF Libres
  <1>4. ASSUME NEW x \in Nat, NroBloque(x) < q + 1
        PROVE  /\ Byte(g, x) = IF NroBloque(x) = q /\ EnBloque(x) - 0 + 1 \in DOMAIN texto
                               THEN texto[EnBloque(x) - 0 + 1] ELSE Byte(m, x)
               /\ EnBloque(x) - 0 = EnBloque(x) /\ NroBloque(x) \in Nat
    <2>1. JustoDe(m, q + 1)
      BY <1>1
    <2>2. Byte(g, x) = IF NroBloque(x) = q /\ EnBloque(x) - 0 + 1 \in DOMAIN texto
                       THEN texto[EnBloque(x) - 0 + 1] ELSE Byte(m, x)
      BY <1>0, <1>4, <2>1, ByteCopiado
    <2>3. EnBloque(x) - 0 = EnBloque(x) /\ NroBloque(x) \in Nat
      <3>1. PICK r \in Nat : r = EnBloque(x)
        BY OffsetEs
      <3>2. r - 0 = r
        OBVIOUS
      <3>3. QED
        BY <3>1, <3>2, OffsetEs
    <2>4. QED
      BY <2>2, <2>3
  <1>5. ASSUME NEW x \in Nat, NroBloque(x) < q PROVE Byte(g, x) = Byte(s, x)
    <2>1. NroBloque(x) \in 0..q - 1
      BY <1>5, OffsetEs
    <2>2. Byte(m, x) = Byte(s, x)
      BY <1>1, <2>1 DEF Byte
    <2>3. NroBloque(x) # q /\ NroBloque(x) < q + 1
      BY <1>5, <2>1
    <2>4. QED
      BY <1>4, <2>2, <2>3
  <1>6. ASSUME NEW x \in Nat, NroBloque(x) = q, EnBloque(x) + 1 \in DOMAIN texto
        PROVE  Byte(g, x) = texto[EnBloque(x) + 1]
    <2>1. NroBloque(x) < q + 1
      BY <1>6
    <2>2. QED
      BY <1>4, <1>6, <2>1
  <1>7. QED
    BY <1>1, <1>2, <1>3, <1>5, <1>6

\* What a turn of the loop does: it ends with everything, or writes a block.
Avanza(s, u, d, O, A, c) ==
    /\ Avance(u, d, O, A, c)
    /\ u.resto = <<>> \/ Len(u.resto) + BLOCK_SIZE = Len(s.resto)

\* A turn of the loop with room for what is left.
LEMMA AvanceTurno ==
  ASSUME NEW d, NEW O, d.tam \in Nat, NEW A, NEW c \in Seq(A), d.tam + Len(c) <= MaxTam,
         NEW s, Avance(s, d, O, A, c), s.resto # <<>>, NEW u, u = EscribirBloque(s)
  PROVE  Avanza(s, u, d, O, A, c)
  <1>1. /\ EnTurno(s, d, O, A, d.tam + Len(c)) /\ EnTurno(u, d, O, A, d.tam + Len(c))
        /\ Justo(s.d, O) /\ s.lleno = FALSE /\ d.tam <= s.d.tam /\ EnBloque(s.d.tam) = 0
    BY EscribeBloque DEF Avance
  <1>2. DOMAIN s = CamposTurno /\ s.resto \in Seq(A) /\ Len(s.resto) \in Nat
    BY <1>1 DEF EnTurno
  <1>3. PICK t \in Nat, t0 \in Nat, total \in Nat, l \in Nat, B \in Nat \ {0} :
          /\ t = s.d.tam /\ t0 = d.tam /\ total = d.tam + Len(c) /\ l = Len(s.resto)
          /\ B = BLOCK_SIZE
    <2>1. Len(c) \in Nat /\ s.d.tam \in Nat /\ d.tam + Len(c) \in Nat
      BY <1>1 DEF EnTurno
    <2>2. BLOCK_SIZE \in Nat \ {0}
      BY SacBloquesConstantes
    <2>3. QED
      BY <1>2, <2>1, <2>2, Zenon
  <1>4. t + l = total /\ l # 0 /\ t < total /\ t0 <= t /\ total <= MaxTam
    <2>1. l # 0
      BY <1>2, <1>3
    <2>2. t + l = total
      BY <1>1, <1>3 DEF EnTurno
    <2>3. QED
      BY <1>1, <1>3, <2>1, <2>2
  <1>5. PICK q \in Nat, L \in Nat : q = NroBloque(t) /\ L = Cardinality(Libres(s.d))
    <2>1. NroBloque(t) \in Nat
      BY OffsetEs
    <2>2. QED
      BY <2>1, LibresSon
  <1>6. /\ q \in Nat /\ cant_bloques_necesaria(t) = q
        /\ q < Pos(CANT_INDIR_SIMPLE - 1, 0) /\ q < CantDatos /\ Falta(q) <= L
        /\ Peso(cant_bloques_necesaria(total)) <= Peso(q + 1) + (L - Falta(q))
    <2>1. Peso(cant_bloques_necesaria(total)) <= Peso(cant_bloques_necesaria(t)) + L
      BY <1>3, <1>5 DEF Avance
    <2>2. EnBloque(t) = 0
      BY <1>1, <1>3
    <2>3. QED
      BY <1>4, <1>5, <2>1, <2>2, HayLugar
  <1>7. Bien(s.d, O) /\ s.d.ok /\ JustoDe(s.d, q) /\ SinPerdidos(s.d, O)
    BY <1>1, <1>3, <1>6 DEF Justo
  <1>8. PICK e : e = bloque_indirecto_para_escribir(s.d)
    OBVIOUS
  <1>9. PICK m : m = Marcado(e)
    OBVIOUS
  <1>10. /\ e.ret \in Bloques \ O /\ e.ret # -1 /\ DOMAIN e = CamposDisco /\ Sigue(s.d, m, O)
         /\ e.tam = s.d.tam /\ e.ok = s.d.ok
         /\ \E b : Crecido(s.d, m, q, e.ret, b)
    <2>1. Falta(q) <= Cardinality(Libres(s.d)) /\ q < Pos(CANT_INDIR_SIMPLE - 1, 0)
      BY <1>5, <1>6
    <2>2. Consigue(s.d, e, m, q, O)
      BY <1>6, <1>7, <1>8, <1>9, <2>1, NuevoBloque
    <2>3. QED
      BY <2>2 DEF Consigue
  <1>11. PICK n \in Nat \ {0} : /\ n = Menor(Len(s.resto), BLOCK_SIZE) /\ n <= l /\ n <= B
                                /\ (n = l \/ n = B)
    BY <1>3, <1>4 DEF Menor
  <1>12. PICK texto : texto = SubSeq(s.resto, 1, n) \o Ceros(BLOCK_SIZE - n)
    OBVIOUS
  <1>13. PICK x : x = Copiar(e, e.ret, 0, texto)
    OBVIOUS
  <1>14. PICK g : g = [x EXCEPT !.usados = @ \cup {e.ret}, !.tam = @ + n]
    OBVIOUS
  <1>15. DOMAIN u = CamposTurno /\ u.d = g /\ u.resto = Desde(s.resto, n) /\ u.lleno = FALSE
    <2>1. u = [s EXCEPT !.d = g, !.resto = Desde(@, n), !.bloques_escritos = @ + 1]
      BY <1>8, <1>10, <1>11, <1>12, <1>13, <1>14 DEF EscribirBloque
    <2>2. QED
      BY <1>1, <1>2, <2>1 DEF CamposTurno
  <1>16. /\ m.ind = e.ind /\ m.ptr = e.ptr /\ m.datos = e.datos
         /\ m.usados = e.usados \cup {e.ret}
    BY <1>9, <1>10, MarcadoEs
  <1>17. /\ DOMAIN x = CamposDisco /\ x.ind = e.ind /\ x.ptr = e.ptr /\ x.usados = e.usados
         /\ x.tam = e.tam /\ x.ok = e.ok
         /\ x.datos = [e.datos EXCEPT ![e.ret] = Sobre(e.datos[e.ret], 0, texto)]
    <2>1. DOMAIN e = CamposDisco /\ e.ret \in Bloques
      BY <1>10
    <2>2. QED
      BY <1>13, <2>1 DEF Copiar, CamposDisco, Sobre
  <1>18. /\ DOMAIN g = CamposDisco /\ g.ind = m.ind /\ g.ptr = m.ptr /\ g.usados = m.usados
         /\ g.tam = t + n /\ g.ok = s.d.ok
         /\ g.datos = [m.datos EXCEPT ![e.ret] = Sobre(m.datos[e.ret], 0, texto)]
    <2>1. /\ DOMAIN g = CamposDisco /\ g.ind = x.ind /\ g.ptr = x.ptr /\ g.datos = x.datos
          /\ g.usados = x.usados \cup {e.ret} /\ g.tam = x.tam + n /\ g.ok = x.ok
      BY <1>14, <1>17 DEF CamposDisco
    <2>2. QED
      BY <1>3, <1>10, <1>16, <1>17, <2>1, Zenon
  <1>19. Bien(g, O) /\ Bien(m, O)
    BY <1>1, <1>10, <1>15 DEF EnTurno, Sigue
  <1>20. cant_bloques_necesaria(t + n) = q + 1 /\ (n = B => EnBloque(t + n) = 0)
    BY <1>1, <1>3, <1>5, <1>11, BloqueEntero
  <1>21. PICK b : Crecido(s.d, m, q, e.ret, b)
    BY <1>10
  <1>22. CopiaEn(m, g, q, 0, texto)
    <2>1. Puntero(m, q) = e.ret
      BY <1>6, <1>7, <1>21, CrecidoJusto
    <2>2. QED
      BY <1>18, <2>1 DEF CopiaEn
  <1>23. /\ Justo(g, O)
         /\ Cardinality(Libres(g)) = L - Falta(q)
         /\ \A y \in Nat : NroBloque(y) < q => Byte(g, y) = Byte(s.d, y)
         /\ \A y \in Nat : NroBloque(y) = q /\ EnBloque(y) + 1 \in DOMAIN texto =>
               Byte(g, y) = texto[EnBloque(y) + 1]
    <2>1. /\ g.ok /\ g.usados = m.usados /\ g.tam \in Nat
          /\ cant_bloques_necesaria(g.tam) = q + 1
      BY <1>7, <1>18, <1>20
    <2>2. QED
      BY <1>5, <1>6, <1>7, <1>19, <1>21, <1>22, <2>1, BloqueEscrito
  <1>24. /\ u.resto \in Seq(A) /\ Len(u.resto) = l - n
         /\ \A y \in 1..l - n : u.resto[y] = s.resto[n + y]
    <2>1. u.resto = SubSeq(s.resto, n + 1, l)
      BY <1>3, <1>15 DEF Desde
    <2>2. n \in 0..Len(s.resto) /\ l = Len(s.resto) /\ s.resto \in Seq(A)
      BY <1>2, <1>3, <1>11
    <2>3. PICK r : r = s.resto
      OBVIOUS
    <2>4. /\ SubSeq(r, n + 1, l) \in Seq(A) /\ Len(SubSeq(r, n + 1, l)) = l - n
          /\ \A y \in 1..l - n : SubSeq(r, n + 1, l)[y] = r[n + y]
      BY <2>2, <2>3, Sobrante
    <2>5. QED
      BY <2>1, <2>3, <2>4, Zenon
  <1>25. \A y \in 1..n : texto[y] = s.resto[y] /\ y \in DOMAIN texto
    <2>1. PICK k \in Nat : k = BLOCK_SIZE - n
      BY <1>3, <1>11
    <2>2. texto = Texto(s.resto, n, k)
      BY <1>12, <2>1 DEF Texto
    <2>3. n \in 0..Len(s.resto)
      BY <1>3, <1>11
    <2>4. Empieza(Texto(s.resto, n, k), s.resto, n, k)
      BY <1>2, <2>3, TextoEs
    <2>5. DOMAIN texto = 1..n + k /\ \A y \in 1..n : texto[y] = s.resto[y]
      BY <2>2, <2>4, Zenon DEF Empieza
    <2>6. QED
      BY <2>5
  <1>26. \A y \in 1..l : s.resto[y] = c[t - t0 + y]
    BY <1>3 DEF Avance
  <1>27. ASSUME NEW y \in 0..(t + n) - 1
         PROVE  Byte(g, y) = IF y < t0 THEN Byte(d, y) ELSE c[y - t0 + 1]
    <2>1. PICK h \in Nat, z \in Nat :
            h = NroBloque(y) /\ z = EnBloque(y) /\ z < B /\ y \in Nat
      <3>1. y \in Nat /\ B = BLOCK_SIZE
        BY <1>3
      <3>2. QED
        BY <3>1, OffsetEs
    <2>2. h < q + 1 /\ (h < q => y < t) /\ (h = q => y - t = z)
      <3>1. h < q + 1
        BY <1>20, <2>1, BloqueDelByte
      <3>2. (h < q => y < t) /\ (h = q => y - t = z - 0)
        <4>1. NroBloque(t) = q /\ EnBloque(t) = 0
          BY <1>1, <1>3, <1>5
        <4>2. QED
          BY <2>1, <4>1, BytesEnOrden
      <3>3. QED
        BY <2>1, <3>1, <3>2
    <2>3. CASE h < q
      <3>1. Byte(g, y) = Byte(s.d, y)
        BY <1>23, <2>1, <2>3
      <3>2. y \in 0..t - 1
        BY <2>1, <2>2, <2>3
      <3>3. Byte(s.d, y) = IF y < t0 THEN Byte(d, y) ELSE c[y - t0 + 1]
        BY <1>3, <3>2 DEF Avance
      <3>4. QED
        BY <3>1, <3>3
    <2>4. CASE h = q
      <3>1. y - t = z /\ z + 1 \in 1..n
        <4>1. y - t = z /\ y < t + n
          BY <2>1, <2>2, <2>4
        <4>2. QED
          BY <2>1, <4>1
      <3>2. Byte(g, y) = s.resto[z + 1]
        BY <1>23, <1>25, <2>1, <2>4, <3>1
      <3>3. z + 1 \in 1..l /\ t - t0 + (z + 1) = y - t0 + 1 /\ ~(y < t0)
        <4>1. y = t + z /\ n <= l /\ t0 <= t
          BY <1>4, <1>11, <2>1, <3>1
        <4>2. QED
          BY <3>1, <4>1
      <3>4. QED
        BY <1>26, <3>2, <3>3
    <2>5. QED
      BY <1>6, <2>1, <2>2, <2>3, <2>4
  <1>28. u.resto = <<>> \/ (EnBloque(t + n) = 0 /\ n = B)
    BY <1>11, <1>20, <1>24
  <1>29. Avance(u, d, O, A, c)
    <2>1. u.resto = <<>> \/ EnBloque(g.tam) = 0
      BY <1>18, <1>28
    <2>2. Peso(cant_bloques_necesaria(d.tam + Len(c)))
            <= Peso(cant_bloques_necesaria(g.tam)) + Cardinality(Libres(g))
      BY <1>3, <1>6, <1>18, <1>20, <1>23
    <2>3. \A y \in 1..Len(u.resto) : u.resto[y] = c[g.tam - d.tam + y]
      <3>1. ASSUME NEW y \in 1..l - n PROVE u.resto[y] = c[(t + n) - t0 + y]
        <4>1. n + y \in 1..l /\ t - t0 + (n + y) = (t + n) - t0 + y
          BY <1>4, <1>11
        <4>2. QED
          BY <1>24, <1>26, <4>1
      <3>2. QED
        BY <1>3, <1>18, <1>24, <3>1
    <2>4. \A y \in 0..g.tam - 1 : Byte(g, y) = IF y < d.tam THEN Byte(d, y) ELSE c[y - d.tam + 1]
      BY <1>3, <1>18, <1>27
    <2>5. d.tam <= g.tam
      BY <1>3, <1>4, <1>18
    <2>6. QED
      BY <1>1, <1>15, <1>23, <2>1, <2>2, <2>3, <2>4, <2>5 DEF Avance
  <1>30. QED
    <2>1. n = B => Len(u.resto) + BLOCK_SIZE = Len(s.resto)
      BY <1>3, <1>11, <1>24
    <2>2. QED
      BY <1>28, <1>29, <2>1 DEF Avanza

\* The file e is d with c at its end.
Agregado(d, e, O, c) ==
    /\ Justo(e, O) /\ e.tam = d.tam + Len(c)
    /\ \A x \in 0..e.tam - 1 : Byte(e, x) = IF x < d.tam THEN Byte(d, x) ELSE c[x - d.tam + 1]

\* A file after m turns of the loop: a block of c, at least, is written in each.
EnAvance(s, m, d, O, A, c) ==
    /\ Avance(s, d, O, A, c)
    /\ s.resto = <<>> \/ Len(s.resto) + m * BLOCK_SIZE <= Len(c)

\* A turn of the loop, or nothing when everything is written.
LEMMA AvanceSigue ==
  ASSUME NEW d, NEW O, d.tam \in Nat, NEW A, NEW c \in Seq(A), d.tam + Len(c) <= MaxTam,
         NEW s, NEW m \in Nat, EnAvance(s, m, d, O, A, c)
  PROVE  EnAvance(Seguir(s), m + 1, d, O, A, c)
  <1>1. Avance(s, d, O, A, c) /\ s.d.ok /\ s.lleno = FALSE /\ s.resto \in Seq(A)
    BY DEF EnAvance, Avance, Justo, EnTurno
  <1>2. CASE s.resto = <<>>
    <2>1. Seguir(s) = s
      BY <1>2 DEF Seguir
    <2>2. QED
      BY <1>1, <1>2, <2>1, Zenon DEF EnAvance
  <1>3. CASE s.resto # <<>>
    <2>1. PICK u : u = EscribirBloque(s)
      OBVIOUS
    <2>2. Seguir(s) = u
      BY <1>1, <1>3, <2>1 DEF Seguir
    <2>3. Avance(u, d, O, A, c) /\ (u.resto = <<>> \/ Len(u.resto) + BLOCK_SIZE = Len(s.resto))
      <3>1. Avanza(s, u, d, O, A, c)
        BY <1>1, <1>3, <2>1, AvanceTurno
      <3>2. QED
        BY <3>1 DEF Avanza
    <2>4. CASE u.resto = <<>>
      BY <2>2, <2>3, <2>4, Zenon DEF EnAvance
    <2>5. CASE u.resto # <<>>
      <3>1. PICK B \in Nat, M \in Nat, l \in Nat :
              B = BLOCK_SIZE /\ M = m * B /\ l = Len(u.resto) /\ (m + 1) * B = M + B
        <4>1. BLOCK_SIZE \in Nat
          BY SacBloquesConstantes
        <4>2. Len(u.resto) \in Nat
          BY <2>3 DEF Avance, EnTurno
        <4>3. \A B \in Nat : m * B \in Nat /\ (m + 1) * B = m * B + B
          OBVIOUS
        <4>4. QED
          BY <4>1, <4>2, <4>3
      <3>2. l + B = Len(s.resto)
        BY <2>3, <2>5, <3>1
      <3>3. Len(s.resto) + M <= Len(c)
        BY <1>3, <3>1 DEF EnAvance
      <3>4. Len(c) \in Nat
        OBVIOUS
      <3>5. l + (M + B) <= Len(c)
        <4>1. PICK L \in Nat, n \in Nat : L = Len(s.resto) /\ n = Len(c)
          BY <1>1, <3>4
        <4>2. L + M <= n /\ l + B = L
          BY <3>2, <3>3, <4>1
        <4>3. l + (M + B) <= n
          BY <4>2
        <4>4. QED
          BY <4>1, <4>3
      <3>6. Len(u.resto) + (m + 1) * BLOCK_SIZE <= Len(c)
        BY <3>1, <3>5, Zenon
      <3>7. QED
        BY <2>2, <2>3, <3>6, Zenon DEF EnAvance
    <2>6. QED
      BY <2>4, <2>5
  <1>4. QED
    BY <1>2, <1>3

\* When the loop ends everything is written.
LEMMA AvanceFinal ==
  ASSUME NEW d, NEW O, d.tam \in Nat, NEW A, NEW c \in Seq(A), NEW s,
         EnAvance(s, cant_bloques_necesaria(Len(c)), d, O, A, c)
  PROVE  s.resto = <<>> /\ Agregado(d, s.d, O, c) /\ DOMAIN s.d = CamposDisco
  <1>1. PICK l \in Nat, n \in Nat, N \in Nat :
          /\ l = Len(s.resto) /\ n = Len(c) /\ N = cant_bloques_necesaria(n) * BLOCK_SIZE
          /\ n <= N
    <2>1. Len(c) \in Nat
      OBVIOUS
    <2>2. Len(s.resto) \in Nat
      BY DEF EnAvance, Avance, EnTurno
    <2>3. BLOCK_SIZE \in Nat
      BY SacBloquesConstantes
    <2>4. cant_bloques_necesaria(Len(c)) \in Nat
      BY <2>1, CuantosEs
    <2>5. cant_bloques_necesaria(Len(c)) * BLOCK_SIZE \in Nat
      BY <2>3, <2>4
    <2>6. Len(c) <= cant_bloques_necesaria(Len(c)) * BLOCK_SIZE
      BY <2>1, CuantosEs
    <2>7. QED
      BY <2>1, <2>2, <2>5, <2>6
  <1>2. s.resto = <<>>
    <2>1. ASSUME s.resto # <<>> PROVE l + N <= n
      BY <1>1, <2>1 DEF EnAvance
    <2>2. ASSUME s.resto # <<>> PROVE FALSE
      <3>1. l = 0
        BY <1>1, <2>1, <2>2
      <3>2. s.resto \in Seq(A) /\ Len(s.resto) = 0
        BY <1>1, <3>1 DEF EnAvance, Avance, EnTurno
      <3>3. QED
        BY <2>2, <3>2
    <2>3. QED
      BY <2>2
  <1>3. Len(s.resto) = 0
    BY <1>2
  <1>4. /\ Justo(s.d, O) /\ s.d.tam \in Nat /\ s.d.tam + 0 = d.tam + Len(c)
        /\ \A x \in 0..s.d.tam - 1 :
              Byte(s.d, x) = IF x < d.tam THEN Byte(d, x) ELSE c[x - d.tam + 1]
    BY <1>3 DEF EnAvance, Avance, EnTurno
  <1>5. s.d.tam = d.tam + Len(c)
    BY <1>4
  <1>6. DOMAIN s.d = CamposDisco
    BY <1>4 DEF Justo, Bien, TipoDe
  <1>7. QED
    BY <1>2, <1>4, <1>5, <1>6 DEF Agregado

\* The answer of the operation does not matter.
LEMMA AgregadoIgual ==
  ASSUME NEW d, NEW O, NEW c, NEW f, DOMAIN f = CamposDisco, Agregado(d, f, O, c),
         NEW e, NEW x, e = [f EXCEPT !.ret = x]
  PROVE  Agregado(d, e, O, c) /\ e.ret = x
  <1>1. /\ DOMAIN e = CamposDisco /\ e.ind = f.ind /\ e.ptr = f.ptr /\ e.datos = f.datos
        /\ e.usados = f.usados /\ e.tam = f.tam /\ e.ok = f.ok /\ e.ret = x
    BY DEF CamposDisco
  <1>2. Justo(f, O)
    BY DEF Agregado
  <1>3. Bien(e, O)
    <2>1. Sigue(f, f, O)
      BY <1>2, SigueDeSi DEF Justo
    <2>2. QED
      BY <1>1, <2>1, SigueIgual DEF Sigue
  <1>4. Justo(e, O)
    BY <1>1, <1>2, <1>3, JustoSigue DEF Justo
  <1>5. \A y : Byte(e, y) = Byte(f, y)
    BY <1>1 DEF Byte, Puntero
  <1>6. QED
    BY <1>1, <1>4, <1>5 DEF Agregado

\* With room for them, escribir_final_archivo writes all its bytes.
LEMMA EscribeFinalJusto ==
  ASSUME NEW d, NEW O, Justo(d, O), NEW A, NEW c \in Seq(A), c # <<>>,
         d.tam + Len(c) <= MaxTam,
         Peso(cant_bloques_necesaria(d.tam + Len(c)))
           <= Peso(cant_bloques_necesaria(d.tam)) + Cardinality(Libres(d)),
         NEW e, e = escribir_final_archivo(d, c)
  PROVE  Agregado(d, e, O, c)
  <1>0. PICK N \in Nat : N = cant_bloques_necesaria(Len(c))
    BY TurnosFinal
  <1>1. PICK t : N = cant_bloques_necesaria(Len(c)) /\ SonTurnos(t, N, d, c, e)
    BY <1>0, TurnosFinal
  <1>2. d.tam \in Nat /\ Len(c) \in Nat /\ d.tam <= MaxTam
    <2>1. d.tam \in Nat /\ Len(c) \in Nat
      BY DEF Justo
    <2>2. QED
      BY <2>1, TamanioAcotado
  <1>3. Avance(t[0], d, O, A, c)
    <2>1. PICK r : r = escribir_sobre_bloque_incompleto(d, c)
      OBVIOUS
    <2>2. PICK s : s = t[0]
      OBVIOUS
    <2>3. DOMAIN s = CamposTurno /\ s.d = r.d /\ s.resto = r.resto /\ s.lleno = FALSE
      BY <1>1, <2>1, <2>2 DEF SonTurnos
    <2>4. d.tam < CantDatos * BLOCK_SIZE /\ cant_bloques_necesaria(d.tam) <= CantDatos
      <3>1. CantDatos * BLOCK_SIZE \in Nat
        BY SacBloquesConstantes DEF CantDatos
      <3>2. QED
        BY <1>2, <3>1, TamanioAcotado, SobraUno
    <2>5. Avance(s, d, O, A, c)
      BY <2>1, <2>3, <2>4, AvanceInicial
    <2>6. QED
      BY <2>2, <2>5
  <1> DEFINE S == {m \in 0..N : EnAvance(t[m], m, d, O, A, c)}
  <1>4. 0 \in S
    <2>1. t[0].resto = <<>> \/ Len(t[0].resto) + 0 * BLOCK_SIZE <= Len(c)
      <3>1. /\ t[0].d.tam \in Nat /\ t[0].d.tam + Len(t[0].resto) = d.tam + Len(c)
            /\ d.tam <= t[0].d.tam /\ Len(t[0].resto) \in Nat
        BY <1>3 DEF Avance, EnTurno
      <3>2. Len(t[0].resto) <= Len(c)
        BY <1>2, <3>1
      <3>3. 0 * BLOCK_SIZE = 0
        BY SacBloquesConstantes
      <3>4. QED
        BY <1>2, <3>1, <3>2, <3>3
    <2>2. EnAvance(t[0], 0, d, O, A, c)
      BY <1>3, <2>1, Zenon DEF EnAvance
    <2>3. QED
      BY <2>2
  <1>5. ASSUME NEW m \in 0..N, m \in S, m # N
        PROVE  m + 1 \in S
    <2>1. t[m + 1] = Seguir(t[m]) /\ m + 1 \in 0..N /\ m \in Nat
      BY <1>1, <1>5 DEF SonTurnos
    <2>2. EnAvance(t[m], m, d, O, A, c)
      BY <1>5
    <2>3. EnAvance(Seguir(t[m]), m + 1, d, O, A, c)
      BY <1>2, <2>1, <2>2, AvanceSigue
    <2>4. QED
      BY <2>1, <2>3
  <1>6. N \in S
    <2> HIDE DEF S
    <2>1. 0..N \subseteq S
      BY <1>4, <1>5, HastaN
    <2>2. QED
      BY <2>1
  <1>7. EnAvance(t[N], N, d, O, A, c)
    BY <1>6
  <1> HIDE DEF S
  <1>8. PICK f : f = t[N].d
    OBVIOUS
  <1>9. Agregado(d, f, O, c) /\ DOMAIN f = CamposDisco
    BY <1>1, <1>2, <1>7, <1>8, AvanceFinal
  <1>10. PICK x : e = [f EXCEPT !.ret = x]
    BY <1>1, <1>8 DEF SonTurnos
  <1>11. QED
    BY <1>9, <1>10, AgregadoIgual

\* The size of the file d after a write of c at off.
Largo(d, c, off) == IF off + Len(c) > d.tam THEN off + Len(c) ELSE d.tam

\* The file f is d, longer if c does not fit in it: escribir_archivo writes then
\* the first cant bytes of c over the blocks of f.
Preparado(d, f, cant, c, off, O) ==
    /\ Justo(f, O) /\ f.tam = Largo(d, c, off)
    /\ cant = IF off + Len(c) > d.tam THEN d.tam - off ELSE Len(c)
    /\ \A x \in 0..f.tam - 1 :
          Byte(f, x) = IF x < d.tam THEN Byte(d, x)
                       ELSE IF x - off + 1 \in DOMAIN c THEN c[x - off + 1] ELSE Basura

\* The answer e of escribir_archivo, through f and g.
Escrito(d, f, g, e, c, off, O) ==
    \E cant, x : /\ Preparado(d, f, cant, c, off, O)
                 /\ g = escribir_dentro_archivo(f, c, cant, off)
                 /\ e = [g EXCEPT !.ret = x]

\* With room for it, escribir_archivo appends what is beyond the end and then
\* writes over what there was.
LEMMA EscribeEn ==
  ASSUME NEW d, NEW O, Justo(d, O), d.tam <= MaxTam, NEW A, NEW c \in Seq(A), c # <<>>,
         NEW off \in Nat, off + Len(c) <= MaxTam,
         Peso(cant_bloques_necesaria(Largo(d, c, off)))
           <= Peso(cant_bloques_necesaria(d.tam)) + Cardinality(Libres(d)),
         NEW e, e = escribir_archivo(d, c, off)
  PROVE  \E f, g : Escrito(d, f, g, e, c, off, O)
  <1>1. PICK n \in Nat, t \in Nat, dentro \in Int :
          n = Len(c) /\ t = d.tam /\ dentro = d.tam - off /\ dentro = t - off
    <2>1. Len(c) \in Nat /\ d.tam \in Nat
      BY DEF Justo
    <2>2. d.tam - off \in Int
      BY <2>1
    <2>3. QED
      BY <2>1, <2>2
  <1>2. CASE off + Len(c) > d.tam
    <2>1. PICK fuera : fuera = [x \in 1..Len(c) - dentro |->
                                  IF x + dentro \in DOMAIN c THEN c[x + dentro] ELSE Basura]
      OBVIOUS
    <2>2. PICK l \in Nat \ {0} : l = n - dentro /\ t + l = off + n /\ l = Len(c) - dentro
      BY <1>1, <1>2
    <2>3. fuera \in Seq(A \cup {Basura}) /\ Len(fuera) = l /\ fuera # <<>>
      <3>1. fuera \in [1..l -> A \cup {Basura}]
        <4>1. PICK U : U = A \cup {Basura}
          OBVIOUS
        <4>2. \A x \in 1..l : fuera[x] \in U
          BY <2>1, <2>2, <4>1
        <4>3. QED
          BY <2>1, <2>2, <4>1, <4>2
      <3>2. QED
        BY <2>2, <3>1
    <2>4. PICK f : f = escribir_final_archivo(d, fuera)
      OBVIOUS
    <2>5. d.tam + Len(fuera) = Largo(d, c, off) /\ d.tam + Len(fuera) <= MaxTam
      BY <1>1, <1>2, <2>2, <2>3 DEF Largo
    <2>6. Agregado(d, f, O, fuera)
      BY <2>3, <2>4, <2>5, EscribeFinalJusto
    <2>7. Justo(f, O) /\ f.ok /\ f.tam = Largo(d, c, off) /\ f.tam = off + n
      <3>1. off + n = Largo(d, c, off)
        BY <1>1, <1>2 DEF Largo
      <3>2. QED
        BY <2>5, <2>6, <3>1 DEF Agregado, Justo
    <2>8. ASSUME NEW x \in 0..f.tam - 1
          PROVE  Byte(f, x) = IF x < d.tam THEN Byte(d, x)
                              ELSE IF x - off + 1 \in DOMAIN c THEN c[x - off + 1] ELSE Basura
      <3>1. Byte(f, x) = IF x < d.tam THEN Byte(d, x) ELSE fuera[x - t + 1]
        BY <1>1, <2>6 DEF Agregado
      <3>2. CASE ~(x < d.tam)
        <4>1. x \in Nat /\ x < off + n /\ ~(x < t)
          BY <1>1, <2>7, <3>2
        <4>2. x - t + 1 \in 1..l /\ (x - t + 1) + dentro = x - off + 1
          <5>1. PICK y \in Nat : y = x /\ y < off + n /\ t <= y
            BY <4>1
          <5>2. y < t + l /\ dentro = t - off
            BY <1>1, <2>2, <5>1
          <5>3. y - t + 1 \in 1..l /\ (y - t + 1) + dentro = y - off + 1
            BY <5>1, <5>2
          <5>4. QED
            BY <5>1, <5>3
        <4>3. x - t + 1 \in 1..Len(c) - dentro
          BY <1>1, <2>2, <4>2
        <4>4. fuera[x - t + 1] = IF x - off + 1 \in DOMAIN c THEN c[x - off + 1] ELSE Basura
          BY <2>1, <4>2, <4>3
        <4>5. QED
          BY <3>1, <3>2, <4>4
      <3>3. QED
        BY <3>1, <3>2
    <2>9. Preparado(d, f, dentro, c, off, O)
      BY <1>1, <1>2, <2>7, <2>8 DEF Preparado
    <2>10. PICK g : g = escribir_dentro_archivo(f, c, dentro, off)
      OBVIOUS
    <2>11. e = [g EXCEPT !.ret = dentro + f.ret]
      BY <1>1, <1>2, <2>1, <2>4, <2>7, <2>10 DEF escribir_archivo
    <2>12. Escrito(d, f, g, e, c, off, O)
      BY <2>9, <2>10, <2>11 DEF Escrito
    <2>13. QED
      BY <2>12
  <1>3. CASE ~(off + Len(c) > d.tam)
    <2>1. PICK g : g = escribir_dentro_archivo(d, c, Len(c), off)
      OBVIOUS
    <2>2. e = [g EXCEPT !.ret = Len(c)]
      BY <1>3, <2>1 DEF escribir_archivo
    <2>3. Preparado(d, d, Len(c), c, off, O)
      BY <1>1, <1>3 DEF Preparado, Largo
    <2>4. Escrito(d, d, g, e, c, off, O)
      BY <2>1, <2>2, <2>3 DEF Escrito
    <2>5. QED
      BY <2>4
  <1>4. QED
    BY <1>2, <1>3

\* Writing over what there is loses no block.
LEMMA EscritoJusto ==
  ASSUME NEW d, NEW f, NEW g, NEW e, NEW c, NEW off, NEW O, Escrito(d, f, g, e, c, off, O)
  PROVE  /\ DOMAIN e = CamposDisco /\ e.ind = f.ind /\ e.ptr = f.ptr /\ e.usados = f.usados
         /\ e.tam = f.tam /\ e.ok = g.ok /\ e.datos = g.datos
         /\ e.ok => Justo(e, O)
  <1>1. PICK cant, x : /\ Preparado(d, f, cant, c, off, O)
                       /\ g = escribir_dentro_archivo(f, c, cant, off)
                       /\ e = [g EXCEPT !.ret = x]
    BY DEF Escrito
  <1>2. Justo(f, O) /\ Bien(f, O)
    BY <1>1 DEF Preparado, Justo
  <1>3. /\ Sigue(f, g, O) /\ g.tam = f.tam
        /\ g.ind = f.ind /\ g.ptr = f.ptr /\ g.usados = f.usados
    BY <1>1, <1>2, EscribeDentro
  <1>4. Bien(g, O) /\ DOMAIN g = CamposDisco
    BY <1>3, SigueBien
  <1>5. Bien(e, O) /\ DOMAIN e = CamposDisco
    <2>1. Sigue(g, e, O)
      BY <1>1, <1>4, ConRet
    <2>2. QED
      BY <2>1, SigueBien
  <1>6. /\ e.ind = g.ind /\ e.ptr = g.ptr /\ e.usados = g.usados /\ e.tam = g.tam
        /\ e.ok = g.ok /\ e.datos = g.datos
    BY <1>1, <1>4 DEF CamposDisco
  <1>7. e.ok => Justo(e, O)
    <2>1. PICK q : q = cant_bloques_necesaria(f.tam)
      OBVIOUS
    <2>2. JustoDe(f, q) /\ SinPerdidos(f, O) /\ f.tam \in Nat
      BY <1>2, <2>1 DEF Justo
    <2>3. QED
      BY <1>3, <1>5, <1>6, <2>1, <2>2, JustoSigue
  <1>8. QED
    BY <1>3, <1>5, <1>6, <1>7

\* The blocks of a size, as Cabe counts them.
LEMMA CabeEs ==
  ASSUME NEW n, NEW d, d.tam = tabla_nodos[n].tam_archivo, d.usados = bitmap, d.tam \in Nat,
         NEW A, NEW c \in Seq(A), NEW off \in Nat, Cabe(n, c, off)
  PROVE  Peso(cant_bloques_necesaria(Largo(d, c, off)))
           <= Peso(cant_bloques_necesaria(d.tam)) + Cardinality(Libres(d))
  <1>1. PICK t \in Nat, h \in Nat, m \in Nat :
          t = d.tam /\ h = off + Len(c) /\ m = Max({t, h}) /\ m = Largo(d, c, off)
    <2>1. d.tam \in Nat /\ off + Len(c) \in Nat
      OBVIOUS
    <2>2. ASSUME NEW t \in Nat, NEW h \in Nat
          PROVE  Max({t, h}) \in Nat /\ Max({t, h}) = IF h > t THEN h ELSE t
      <3>1. Max({t, h}) \in {t, h} /\ Max({t, h}) >= t /\ Max({t, h}) >= h
        BY TamanioSuma
      <3>2. QED
        BY <3>1
    <2>3. QED
      BY <2>1, <2>2 DEF Largo
  <1>2. BloquesDe(m) - BloquesDe(t) <= Cardinality(Bloques \ bitmap)
    BY <1>1, Zenon DEF Cabe
  <1>3. BloquesDe(m) = Peso(cant_bloques_necesaria(m))
        /\ BloquesDe(t) = Peso(cant_bloques_necesaria(t))
    BY Zenon DEF BloquesDe, Peso
  <1>4. PICK P \in Nat, Q \in Nat, L \in Nat :
          /\ P = Peso(cant_bloques_necesaria(m)) /\ Q = Peso(cant_bloques_necesaria(t))
          /\ L = Cardinality(Libres(d)) /\ L = Cardinality(Bloques \ bitmap)
    <2>1. cant_bloques_necesaria(m) \in Nat /\ cant_bloques_necesaria(t) \in Nat
      BY CuantosEs
    <2>2. Peso(cant_bloques_necesaria(m)) \in Nat /\ Peso(cant_bloques_necesaria(t)) \in Nat
      BY <2>1, PesoSigue
    <2>3. Libres(d) = Bloques \ bitmap
      BY DEF Libres
    <2>4. QED
      BY <2>2, <2>3, LibresSon
  <1>5. P - Q <= L
    BY <1>2, <1>3, <1>4
  <1>6. P <= Q + L
    BY <1>5
  <1>7. QED
    BY <1>1, <1>4, <1>6

\* A write that fits leaves no block lost.
LEMMA EscribirSano ==
  ASSUME TipoOK, BloqueDeUno, TipoOK', BloqueDeUno', DiscoSano, NEW p \in Caminos,
         NEW c \in Textos, NEW off \in Offsets, EscribirArchivo(p, c, off),
         Cabe(buscar_archivo(p), c, off)
  PROVE  DiscoSano'
  <1>1. PICK n : n = buscar_archivo(p)
    OBVIOUS
  <1>2. PICK a : a = Archivo(n)
    OBVIOUS
  <1>3. PICK d : d = escribir_archivo(a, c, off)
    OBVIOUS
  <1>4. PICK O : O = Otros(Archivos, tabla_nodos, ptr_direct, n)
    OBVIOUS
  <1>5. PICK A : A = ToSet(c)
    OBVIOUS
  <1>6. /\ Pedido /\ Dejar(n, d) /\ n \in Archivos
        /\ off \in Nat /\ c \in Seq(A) /\ c # <<>> /\ off + Len(c) <= MaxTam
        /\ Sigue(a, d, O) /\ d.tam \in 0..MaxTam
    BY <1>1, <1>2, <1>3, <1>4, <1>5, LoEscrito
  <1>7. Justo(a, O) /\ a.tam = tabla_nodos[n].tam_archivo /\ a.tam \in Nat /\ a.tam <= MaxTam
    <2>1. /\ Bien(a, O) /\ a.tam \in 0..MaxTam /\ a.tam = tabla_nodos[n].tam_archivo /\ a.ok
          /\ JustoDe(a, cant_bloques_necesaria(a.tam)) /\ SinPerdidos(a, O)
      BY <1>2, <1>4, <1>6, ArchivoJusto
    <2>2. a.tam \in Nat /\ a.tam <= MaxTam
      BY <2>1, TamanioAcotado
    <2>3. QED
      BY <2>1, <2>2 DEF Justo
  <1>8. a.usados = bitmap
    BY <1>2 DEF Archivo
  <1>9. Peso(cant_bloques_necesaria(Largo(a, c, off)))
          <= Peso(cant_bloques_necesaria(a.tam)) + Cardinality(Libres(a))
    BY <1>1, <1>6, <1>7, <1>8, CabeEs
  <1>10. PICK f, g : Escrito(a, f, g, d, c, off, O)
    BY <1>3, <1>6, <1>7, <1>9, EscribeEn
  <1>11. d.ok => JustoDe(d, cant_bloques_necesaria(d.tam)) /\ SinPerdidos(d, O)
    BY <1>10, EscritoJusto DEF Justo
  <1>12. QED
    BY <1>2, <1>4, <1>6, <1>11, DejarSano

\* A read and a step of nobody leave the disk as it is.
LEMMA QuietoSano ==
  ASSUME TipoOK, BloqueDeUno, TipoOK', BloqueDeUno', DiscoSano, UNCHANGED <<tabla_nodos, disco>>
  PROVE  DiscoSano'
  <1>1. Archivos' = Archivos /\ bitmap' = bitmap
    BY DEF Archivos, Estado, disco
  <1>2. Iguales(Archivos, tabla_nodos, ptr_direct, datos, tabla_nodos', ptr_direct', datos')
    BY DEF disco, Iguales, EnSitio
  <1>3. QED
    BY <1>1, <1>2, SanoQuieto

\* The two steps that a sound disk may not survive.
NoCupo == \E p \in Caminos, c \in Textos, off \in Offsets :
             EscribirArchivo(p, c, off) /\ ~Cabe(buscar_archivo(p), c, off)
Recorte == \E p \in Caminos, off \in Tamanios :
              /\ TruncarArchivo(p, off)
              /\ off > tabla_nodos[buscar_archivo(p)].tam_archivo \/ EnBloque(off) = 0

\* A step on a sound disk.
LEMMA PasoSano ==
  ASSUME TipoOK, BloqueDeUno, DiscoSano, [Next]_vars
  PROVE  DiscoSano' \/ NoCupo \/ Recorte
  <1>0. TipoOK' /\ BloqueDeUno'
    BY PasoDelDisco DEF PasoBien
  <1>1. ASSUME NEW p \in Caminos, NEW e \in {"OCUPADO", "DIRECTORIO"}, CrearElemento(p, e)
        PROVE  DiscoSano'
    BY <1>0, <1>1, CrearSano
  <1>2. ASSUME NEW p \in Caminos, NEW c \in Textos, NEW off \in Offsets,
               EscribirArchivo(p, c, off)
        PROVE  DiscoSano' \/ NoCupo
    <2>1. CASE Cabe(buscar_archivo(p), c, off)
      BY <1>0, <1>2, <2>1, EscribirSano
    <2>2. CASE ~Cabe(buscar_archivo(p), c, off)
      BY <1>2, <2>2, Zenon DEF NoCupo
    <2>3. QED
      BY <2>1, <2>2
  <1>3. ASSUME NEW p \in Caminos, NEW off \in Tamanios, TruncarArchivo(p, off)
        PROVE  DiscoSano' \/ Recorte
    <2>1. CASE off > tabla_nodos[buscar_archivo(p)].tam_archivo \/ EnBloque(off) = 0
      BY <1>3, <2>1, Zenon DEF Recorte
    <2>2. CASE ~(off > tabla_nodos[buscar_archivo(p)].tam_archivo \/ EnBloque(off) = 0)
      BY <1>0, <1>3, <2>2, TruncarSano
    <2>3. QED
      BY <2>1, <2>2
  <1>4. ASSUME NEW p \in Caminos, NEW off \in Offsets, LeerArchivo(p, MaxTam, off)
        PROVE  DiscoSano'
    <2>1. UNCHANGED <<tabla_nodos, disco>>
      BY <1>4, Zenon DEF LeerArchivo
    <2>2. QED
      BY <1>0, <2>1, QuietoSano
  <1>5. ASSUME NEW p \in Caminos, BorrarArchivo(p) PROVE DiscoSano'
    BY <1>0, <1>5, BorrarSano
  <1>6. ASSUME NEW p \in Caminos, BorrarDirectorio(p) PROVE DiscoSano'
    BY <1>0, <1>6, BorrarDirSano
  <1>7. ASSUME NEW p \in Caminos, NEW q \in Caminos, Renombrar(p, q) PROVE DiscoSano'
    BY <1>0, <1>7, LoMovido, SanoQuieto
  <1>8. CASE UNCHANGED vars
    <2>1. UNCHANGED <<tabla_nodos, disco>>
      BY <1>8 DEF vars
    <2>2. QED
      BY <1>0, <2>1, QuietoSano
  <1>9. QED
    BY <1>1, <1>2, <1>3, <1>4, <1>5, <1>6, <1>7, <1>8, Zenon DEF Next

\* A sound disk stays sound unless it fills up or a file is lengthened or cut at
\* the start of a block: no other operation loses a block, nor leaves a file with
\* more or fewer blocks than its size needs, for any sizes, requests and disk.
THEOREM SigueSanoSiempre == Spec => SigueSano
  <1>1. TipoOK /\ BloqueDeUno /\ [Next]_vars
          => [DiscoSano => DiscoSano' \/ NoCupo \/ Recorte]_vars
    BY PasoSano
  <1>2. QED
    BY Disco, <1>1, PTL DEF Spec, SigueSano, NoCupo, Recorte

\* How many numbers there are below another.
LEMMA CuantosAntes ==
  ASSUME NEW q \in Nat
  PROVE  Cardinality(0..q - 1) = q /\ IsFiniteSet(0..q - 1)
  <1>1. 0 \in Int /\ q - 1 \in Int
    OBVIOUS
  <1>2. /\ IsFiniteSet(0..q - 1)
        /\ Cardinality(0..q - 1) = IF 0 > q - 1 THEN 0 ELSE (q - 1) - 0 + 1
    BY <1>1, FS_Interval
  <1>3. QED
    BY <1>2

\* The start of a disk block.
LEMMA EnElOrigen == NroBloque(0) = 0 /\ EnBloque(0) = 0
  <1>1. PICK B \in Nat \ {0} : B = BLOCK_SIZE
    BY SacBloquesConstantes
  <1>2. 0 = 0 * B + 0 /\ 0 < B
    BY <1>1
  <1>3. 0 \div B = 0 /\ 0 % B = 0
    BY <1>2, DivUnico
  <1>4. QED
    BY <1>1, <1>3 DEF NroBloque, EnBloque

\* The blocks of a whole file, in the order of the loop that reads them.
LEMMA VisitaJusta ==
  ASSUME NEW d, NEW q \in Nat, JustoDe(d, q), q <= CantDatos
  PROVE  Visita(d, 0) = [x \in 1..q |-> x - 1]
  <1> DEFINE V == Visitados(d, 0)
  <1>1. Visita(d, 0) = [x \in 1..Cardinality(V) |->
                          CHOOSE k \in V : Cardinality({h \in V : h < k}) = x - 1]
    BY DEF Visita
  <1> HIDE DEF V
  <1>2. V = 0..q - 1
    <2>1. Visitados(d, 0) = {k \in 0..q - 1 : NroBloque(0) <= k}
      BY VisitadosJusto
    <2>2. V = {k \in 0..q - 1 : 0 <= k}
      BY <2>1, EnElOrigen DEF V
    <2>3. QED
      BY <2>2
  <1>3. Cardinality(V) = q
    BY <1>2, CuantosAntes
  <1>4. ASSUME NEW k \in V PROVE Cardinality({h \in V : h < k}) = k
    <2>1. k \in Nat /\ {h \in V : h < k} = 0..k - 1
      BY <1>2
    <2>2. QED
      BY <2>1, CuantosAntes
  <1>5. ASSUME NEW x \in 1..q
        PROVE  (CHOOSE k \in V : Cardinality({h \in V : h < k}) = x - 1) = x - 1
    <2>1. x - 1 \in V
      BY <1>2
    <2>2. \A k \in V : Cardinality({h \in V : h < k}) = x - 1 <=> k = x - 1
      BY <1>4
    <2>3. QED
      BY <2>1, <2>2
  <1>6. QED
    BY <1>1, <1>3, <1>5

\* Reading a sound file from the start to the end copies its bytes, in order.
LEMMA LeeJusto ==
  ASSUME NEW d, NEW O, Justo(d, O), d.tam <= MaxTam
  PROVE  leer_archivo(d, d.tam, 0).ret = [x \in 1..d.tam |-> Byte(d, x - 1)]
  <1>1. PICK t \in Nat, q \in Nat :
          /\ t = d.tam /\ q = cant_bloques_necesaria(t) /\ JustoDe(d, q) /\ q <= CantDatos
          /\ DOMAIN d = CamposDisco
    <2>1. d.tam \in Nat /\ JustoDe(d, cant_bloques_necesaria(d.tam)) /\ DOMAIN d = CamposDisco
      BY DEF Justo, Bien, TipoDe
    <2>2. /\ cant_bloques_necesaria(d.tam) \in Nat
          /\ cant_bloques_necesaria(d.tam) <= CantDatos
      BY <2>1, SobraUno
    <2>3. QED
      BY <2>1, <2>2
  <1>2. PICK v : v = Visita(d, 0) /\ v = [x \in 1..q |-> x - 1]
    BY <1>1, VisitaJusta
  <1>3. PICK primero : primero = SelectInSeq(v, LAMBDA k : Directo(k) = Directo(NroBloque(0)))
    OBVIOUS
  <1>4. Len(v) = q
    BY <1>2
  <1>5. PICK M \in Nat : M = q * BLOCK_SIZE /\ t <= M
    <2>1. BLOCK_SIZE \in Nat
      BY SacBloquesConstantes
    <2>2. q * BLOCK_SIZE \in Nat
      BY <2>1
    <2>3. t <= q * BLOCK_SIZE
      BY <1>1, CuantosEs
    <2>4. QED
      BY <2>2, <2>3
  <1>6. PICK salto : salto = IF primero = 0 THEN 0 ELSE EnBloque(0)
    OBVIOUS
  <1>7. salto = 0
    BY <1>6, EnElOrigen
  <1>8. PICK n : n = Menor(Menor(d.tam, d.tam - 0), Len(v) * BLOCK_SIZE - salto)
    OBVIOUS
  <1>9. n = t
    <2>1. Len(v) * BLOCK_SIZE = M
      BY <1>4, <1>5
    <2>2. n = Menor(Menor(t, t - 0), M - 0)
      BY <1>1, <1>7, <1>8, <2>1
    <2>3. QED
      BY <1>5, <2>2 DEF Menor
  <1> DEFINE En(x) == IF x > (primero - 1) * BLOCK_SIZE THEN x - 1 + salto ELSE x - 1
             Bloque(x) == Puntero(d, v[NroBloque(En(x)) + 1])
  <1>10. ASSUME NEW x \in 1..n
         PROVE  /\ Bloque(x) \in Bloques
                /\ d.datos[Bloque(x)][EnBloque(En(x))] = Byte(d, x - 1)
    <2>1. PICK y \in Nat : y = x - 1 /\ y < t
      BY <1>9
    <2>2. En(x) = y
      <3>1. x - 1 + salto = x - 1
        BY <1>7, <1>9
      <3>2. QED
        BY <2>1, <3>1
    <2>3. PICK h \in Nat : h = NroBloque(y) /\ h < q
      BY <1>1, <2>1, OffsetEs, BloqueDelByte
    <2>4. v[h + 1] = h
      BY <1>2, <2>3
    <2>5. Bloque(x) = Puntero(d, h)
      BY <2>2, <2>3, <2>4
    <2>6. Puntero(d, h) \in Bloques
      BY <1>1, <2>3, PunteroJusto
    <2>7. d.datos[Bloque(x)][EnBloque(En(x))] = Byte(d, y)
      BY <2>2, <2>3, <2>5, Zenon DEF Byte
    <2>8. QED
      BY <2>1, <2>5, <2>6, <2>7
  <1>11. leer_archivo(d, d.tam, 0) =
           IF 0 > d.tam THEN [d EXCEPT !.ret = <<>>]
           ELSE IF \E x \in 1..n : Bloque(x) \notin Bloques
           THEN [d EXCEPT !.ok = FALSE, !.ret = <<>>]
           ELSE [d EXCEPT !.ret = [x \in 1..n |-> d.datos[Bloque(x)][EnBloque(En(x))]]]
    BY <1>2, <1>3, <1>6, <1>8, Zenon DEF leer_archivo
  <1>12. ~(0 > d.tam)
    BY <1>1
  <1> HIDE DEF Bloque, En
  <1>13. leer_archivo(d, d.tam, 0)
           = [d EXCEPT !.ret = [x \in 1..n |-> d.datos[Bloque(x)][EnBloque(En(x))]]]
    BY <1>10, <1>11, <1>12, Zenon
  <1>14. leer_archivo(d, d.tam, 0).ret = [x \in 1..n |-> d.datos[Bloque(x)][EnBloque(En(x))]]
    BY <1>1, <1>13 DEF CamposDisco
  <1>15. [x \in 1..n |-> d.datos[Bloque(x)][EnBloque(En(x))]] = [x \in 1..n |-> Byte(d, x - 1)]
    BY <1>10, Zenon
  <1>16. QED
    BY <1>1, <1>9, <1>14, <1>15

\* The file e is f with the first w bytes of c over it, from off on.
Escribio(f, e, c, off, w) ==
    \A x \in 0..f.tam - 1 :
        Byte(e, x) = IF off <= x /\ x < off + w THEN c[x - off + 1] ELSE Byte(f, x)

\* The byte of the file at offset o of its block k.
Posicion(k, o) == k * BLOCK_SIZE + o

\* Of the n bytes from p on, byte x is one that begins at o in the block k.
Alcanza(k, o, n, p, x) ==
    /\ p <= x /\ x < p + n <=> NroBloque(x) = k /\ EnBloque(x) - o + 1 \in 1..n
    /\ NroBloque(x) = k => x - p = EnBloque(x) - o

\* The bytes that a memcpy of n bytes in the block k of a file reaches.
LEMMA Alcance ==
  ASSUME NEW k \in Nat, NEW o \in Nat, NEW n \in Nat, o + n <= BLOCK_SIZE, NEW p,
         p = Posicion(k, o), NEW x \in Nat
  PROVE  Alcanza(k, o, n, p, x)
  <1>1. PICK B \in Nat \ {0} : B = BLOCK_SIZE
    BY SacBloquesConstantes
  <1>2. PICK M \in Nat : M = k * B
    <2>1. k * B \in Nat
      OBVIOUS
    <2>2. QED
      BY <2>1
  <1>3. p = M + o /\ p \in Nat /\ o + n <= B
    BY <1>1, <1>2 DEF Posicion
  <1>4. PICK h \in Nat, z \in Nat, N \in Nat :
          h = NroBloque(x) /\ z = EnBloque(x) /\ z < B /\ N = h * B /\ x = N + z
    BY <1>1, OffsetEs
  <1>5. ASSUME h = k
        PROVE  /\ x - p = z - o
               /\ p <= x /\ x < p + n <=> z - o + 1 \in 1..n
    <2>1. N = M
      BY <1>2, <1>4, <1>5
    <2>2. x - p = z - o
      BY <1>3, <1>4, <2>1
    <2>3. p <= x /\ x < p + n <=> z - o + 1 \in 1..n
      BY <1>3, <1>4, <2>1
    <2>4. QED
      BY <2>2, <2>3
  <1>6. ASSUME h # k PROVE ~(p <= x /\ x < p + n)
    <2>1. CASE h < k
      <3>1. N + B <= M
        BY <1>2, <1>4, <2>1, <1>1, Filas
      <3>2. QED
        BY <1>3, <1>4, <3>1
    <2>2. CASE k < h
      <3>1. M + B <= N
        BY <1>2, <1>4, <2>2, <1>1, Filas
      <3>2. QED
        BY <1>3, <1>4, <3>1
    <2>3. QED
      BY <1>6, <2>1, <2>2
  <1>7. QED
    BY <1>3, <1>4, <1>5, <1>6 DEF Alcanza

\* The bytes of the first q blocks of d, and of e after a memcpy of s on block k.
CopiaVista(d, e, k, o, s, q) ==
  \A x \in Nat : NroBloque(x) < q =>
     Byte(e, x) = IF NroBloque(x) = k /\ EnBloque(x) - o + 1 \in DOMAIN s
                  THEN s[EnBloque(x) - o + 1] ELSE Byte(d, x)

\* A memcpy on one block of a file, at all its bytes.
LEMMA BytesCopiados ==
  ASSUME NEW d, NEW O, Bien(d, O), NEW q \in Nat, q <= CantDatos, JustoDe(d, q),
         NEW k \in 0..q - 1, NEW o, NEW s, NEW e, CopiaEn(d, e, k, o, s)
  PROVE  CopiaVista(d, e, k, o, s, q)
  BY ByteCopiado DEF CopiaVista

\* One memcpy more of the bytes of c, after the first w of them.
LEMMA Sobrescribe ==
  ASSUME NEW f, f.tam \in Nat, NEW d, NEW O, NEW q \in Nat, q <= CantDatos,
         q = cant_bloques_necesaria(f.tam), Bien(d, O), JustoDe(d, q),
         NEW c, NEW off \in Nat, NEW w \in Nat, Escribio(f, d, c, off, w),
         NEW k \in 0..q - 1, NEW o \in Nat, NEW n \in Nat, o + n <= BLOCK_SIZE,
         n # 0 => Posicion(k, o) = off + w,
         NEW texto, DOMAIN texto = 1..n, \A y \in 1..n : texto[y] = c[w + y],
         NEW e, CopiaEn(d, e, k, o, texto)
  PROVE  Escribio(f, e, c, off, w + n)
  <1>0. CopiaVista(d, e, k, o, texto, q)
    BY BytesCopiados
  <1>1. ASSUME NEW x \in 0..f.tam - 1
        PROVE  Byte(e, x) = IF off <= x /\ x < off + (w + n) THEN c[x - off + 1] ELSE Byte(f, x)
    <2>1. PICK y \in Nat : y = x /\ y < f.tam
      OBVIOUS
    <2>2. PICK h \in Nat, z \in Nat : h = NroBloque(y) /\ z = EnBloque(y) /\ h < q
      BY <2>1, OffsetEs, BloqueDelByte
    <2>3. Byte(e, y) = IF h = k /\ z - o + 1 \in 1..n THEN texto[z - o + 1] ELSE Byte(d, y)
      <3>1. NroBloque(y) < q
        BY <2>2
      <3>2. Byte(e, y) = IF NroBloque(y) = k /\ EnBloque(y) - o + 1 \in DOMAIN texto
                         THEN texto[EnBloque(y) - o + 1] ELSE Byte(d, y)
        BY <1>0, <3>1, Zenon DEF CopiaVista
      <3>3. QED
        BY <2>2, <3>2, Zenon
    <2>4. Byte(d, y) = IF off <= y /\ y < off + w THEN c[y - off + 1] ELSE Byte(f, y)
      BY <2>1 DEF Escribio
    <2>5. CASE n = 0
      <3>1. Byte(e, y) = Byte(d, y)
        BY <2>3, <2>5
      <3>2. w + n = w
        BY <2>5
      <3>3. QED
        BY <2>1, <2>4, <3>1, <3>2
    <2>6. CASE n # 0
      <3>1. PICK p \in Nat : p = off + w /\ p = Posicion(k, o)
        BY <2>6
      <3>2. /\ p <= y /\ y < p + n <=> h = k /\ z - o + 1 \in 1..n
            /\ h = k => y - p = z - o
        <4>1. /\ p <= y /\ y < p + n <=> NroBloque(y) = k /\ EnBloque(y) - o + 1 \in 1..n
              /\ NroBloque(y) = k => y - p = EnBloque(y) - o
          <5>1. k \in Nat
            OBVIOUS
          <5>2. Alcanza(k, o, n, p, y)
            BY <3>1, <5>1, Alcance
          <5>3. QED
            BY <5>2, Zenon DEF Alcanza
        <4>2. QED
          BY <2>2, <4>1, Zenon
      <3>3. CASE h = k /\ z - o + 1 \in 1..n
        <4>1. w + (z - o + 1) = y - off + 1 /\ off <= y /\ y < off + (w + n)
          <5>1. p = off + w /\ y - p = z - o /\ p <= y /\ y < p + n
            BY <3>1, <3>2, <3>3
          <5>2. ASSUME NEW a \in Nat, NEW v \in Nat, p = a + v, y - p = z - o, p <= y, y < p + n
                PROVE  /\ v + (z - o + 1) = y - a + 1 /\ a <= y /\ y < a + (v + n)
            BY <5>2
          <5>3. QED
            BY <5>1, <5>2
        <4>2. Byte(e, y) = c[y - off + 1]
          BY <2>3, <3>3, <4>1
        <4>3. QED
          BY <2>1, <4>1, <4>2
      <3>4. CASE ~(h = k /\ z - o + 1 \in 1..n)
        <4>1. ~(p <= y /\ y < p + n) /\ p = off + w
          BY <3>1, <3>2, <3>4
        <4>2. off <= y /\ y < off + (w + n) <=> off <= y /\ y < off + w
          BY <4>1
        <4>3. Byte(e, y) = Byte(d, y)
          BY <2>3, <3>4
        <4>4. QED
          BY <2>1, <2>4, <4>2, <4>3
      <3>5. QED
        BY <3>3, <3>4
    <2>7. QED
      BY <2>5, <2>6
  <1>2. QED
    BY <1>1 DEF Escribio

\* The data blocks under one block of pointers, from the block k on.
LEMMA Renglon ==
  ASSUME NEW k \in Nat, NEW K, K = Pos(Indirecto(k) + 1, 0)
  PROVE  /\ K \in Nat /\ k < K /\ Directo(K) = 0 /\ Indirecto(K) > Indirecto(k)
         /\ \A m \in Nat : k < m /\ m < K =>
               Indirecto(m) = Indirecto(k) /\ Directo(m) # Directo(k) /\ Directo(m) # 0
         /\ \A h \in Nat : Indirecto(h) = Indirecto(k) => h < K
  <1>1. PICK C \in Nat \ {0} : C = CANT_DIRECTOS
    BY SacBloquesConstantes
  <1>2. PICK i \in Nat, j \in Nat, P \in Nat :
          /\ i = Indirecto(k) /\ j = Directo(k) /\ P = Pos(i, 0) /\ k = P + j /\ j < C
          /\ K = P + C
    <2>1. /\ Indirecto(k) \in Nat /\ Directo(k) \in Directos
          /\ Pos(Indirecto(k), Directo(k)) = k
      BY Posiciones
    <2>2. Directo(k) \in Nat /\ Directo(k) < C
      BY <1>1, <2>1 DEF Directos
    <2>3. Pos(Indirecto(k), 0) \in Nat /\ Pos(Indirecto(k), Directo(k)) = Pos(Indirecto(k), 0) + Directo(k)
      BY <2>1, <2>2, Posiciones
    <2>4. Pos(Indirecto(k) + 1, 0) = Pos(Indirecto(k), 0) + C
      BY <1>1, <2>1, Posiciones
    <2>5. QED
      BY <2>1, <2>2, <2>3, <2>4
  <1>3. K \in Nat /\ k < K
    BY <1>2
  <1>4. Indirecto(K) = i + 1 /\ Directo(K) = 0
    <2>1. 0 \in Directos
      BY SinBloque
    <2>2. QED
      BY <1>2, <2>1, Posiciones
  <1>5. ASSUME NEW m \in Nat
        PROVE  \E x \in Nat, y \in Nat, Q \in Nat :
                 /\ x = Indirecto(m) /\ y = Directo(m) /\ y < C /\ m = Q + y /\ Q = Pos(x, 0)
                 /\ x < i => Q + C <= P
                 /\ i < x => P + C <= Q
    <2>1. PICK x \in Nat, y \in Nat : /\ x = Indirecto(m) /\ y = Directo(m) /\ y < C
                                      /\ Pos(x, y) = m
      <3>1. Directo(m) \in Directos
        BY Posiciones
      <3>2. Directo(m) \in Nat /\ Directo(m) < C
        BY <1>1, <3>1 DEF Directos
      <3>3. QED
        BY <3>2, Posiciones
    <2>2. PICK Q \in Nat : Q = Pos(x, 0) /\ m = Q + y
      BY <2>1, Posiciones
    <2>3. (x < i => Q + C <= P) /\ (i < x => P + C <= Q)
      BY <1>1, <1>2, <2>2, Posiciones
    <2>4. QED
      BY <2>1, <2>2, <2>3
  <1>6. ASSUME NEW m \in Nat, k < m, m < K
        PROVE  Indirecto(m) = i /\ Directo(m) # j /\ Directo(m) # 0
    <2>1. PICK x \in Nat, y \in Nat, Q \in Nat :
            /\ x = Indirecto(m) /\ y = Directo(m) /\ y < C /\ m = Q + y /\ Q = Pos(x, 0)
            /\ x < i => Q + C <= P
            /\ i < x => P + C <= Q
      BY <1>5
    <2>2. ~(x < i) /\ ~(i < x)
      BY <1>2, <1>6, <2>1
    <2>3. x = i
      BY <2>2
    <2>4. Q = P
      BY <1>2, <2>1, <2>3
    <2>5. y # j /\ y # 0
      BY <1>2, <1>6, <2>1, <2>4
    <2>6. QED
      BY <2>1, <2>3, <2>5
  <1>7. ASSUME NEW h \in Nat, Indirecto(h) = i PROVE h < K
    <2>1. PICK x \in Nat, y \in Nat, Q \in Nat :
            /\ x = Indirecto(h) /\ y = Directo(h) /\ y < C /\ h = Q + y /\ Q = Pos(x, 0)
      BY <1>5
    <2>2. Q = P
      BY <1>2, <1>7, <2>1
    <2>3. h = P + y /\ K = P + C /\ y < C
      BY <1>2, <2>1, <2>2
    <2>4. QED
      BY <2>3
  <1>8. QED
    BY <1>2, <1>3, <1>4, <1>6, <1>7

\* A write of the first cant bytes of c over a sound file f that has them all
\* under one block of pointers.
Dentro(f, O, A, c, cant, off) ==
    /\ Justo(f, O) /\ f.tam <= MaxTam /\ c \in Seq(A)
    /\ off \in Nat /\ cant \in Nat \ {0} /\ cant <= Len(c) /\ off + cant <= f.tam
    /\ Indirecto(NroBloque(off + cant - 1)) = Indirecto(NroBloque(off))

\* The numbers of such a write: k0 is the first block, K the first one under the
\* next block of pointers, and q the number of blocks of the file.
Numeros(f, off, cant, k0, K, q) ==
    /\ k0 = NroBloque(off) /\ K = Pos(Indirecto(k0) + 1, 0) /\ q = cant_bloques_necesaria(f.tam)
    /\ k0 \in Nat /\ K \in Nat /\ q \in Nat /\ q <= CantDatos /\ k0 < q /\ k0 < K
    /\ JustoDe(f, q) /\ Visitados(f, off) = {k \in 0..q - 1 : k0 <= k}
    /\ Posicion(q, 0) \in Nat /\ off + cant <= Posicion(q, 0)
    /\ Posicion(K, 0) \in Nat /\ off + cant <= Posicion(K, 0)

\* Blocks follow each other in the file.
LEMMA Consecutivos ==
  ASSUME NEW m \in Nat
  PROVE  /\ Posicion(m, 0) \in Nat /\ Posicion(m + 1, 0) = Posicion(m, 0) + BLOCK_SIZE
         /\ \A o \in Nat : Posicion(m, o) = Posicion(m, 0) + o
         /\ \A n \in Nat : m <= n => Posicion(m, 0) <= Posicion(n, 0)
  <1>1. PICK B \in Nat \ {0} : B = BLOCK_SIZE
    BY SacBloquesConstantes
  <1>2. m * B \in Nat /\ (m + 1) * B = m * B + B
    OBVIOUS
  <1>3. ASSUME NEW n \in Nat, m <= n PROVE m * B <= n * B
    <2>1. CASE m = n
      BY <1>2, <2>1
    <2>2. CASE m < n
      <3>1. m * B + B <= n * B /\ n * B \in Nat
        BY <2>2, Filas
      <3>2. PICK x \in Nat, y \in Nat : x = m * B /\ y = n * B /\ x + B <= y
        BY <1>2, <3>1
      <3>3. x <= y
        BY <3>2
      <3>4. QED
        BY <3>2, <3>3
    <2>3. QED
      BY <1>3, <2>1, <2>2
  <1>4. \A n \in Nat : n * B \in Nat /\ n * B + 0 = n * B
    OBVIOUS
  <1>5. QED
    BY <1>1, <1>2, <1>3, <1>4 DEF Posicion

\* The end of a byte's block is not before the byte.
LEMMA FinDelBloque ==
  ASSUME NEW x \in Nat, NEW K \in Nat, NroBloque(x) < K
  PROVE  x + 1 <= Posicion(K, 0)
  <1>1. PICK h \in Nat, o \in Nat, B \in Nat \ {0} :
          h = NroBloque(x) /\ o = EnBloque(x) /\ B = BLOCK_SIZE /\ o < B
    BY OffsetEs, SacBloquesConstantes
  <1>2. PICK M \in Nat : M = Posicion(h, 0) /\ x = M + o /\ Posicion(h + 1, 0) = M + B
    <2>1. x = Posicion(h, o)
      BY <1>1, OffsetEs DEF Posicion
    <2>2. QED
      BY <1>1, <2>1, Consecutivos
  <1>3. h + 1 \in Nat /\ h + 1 <= K
    BY <1>1
  <1>4. Posicion(h + 1, 0) <= Posicion(K, 0) /\ Posicion(K, 0) \in Nat
    BY <1>3, Consecutivos
  <1>5. x + 1 <= M + B
    BY <1>1, <1>2
  <1>6. QED
    BY <1>2, <1>4, <1>5

\* A write has these numbers.
LEMMA NumerosSon ==
  ASSUME NEW f, NEW O, NEW A, NEW c, NEW cant, NEW off, Dentro(f, O, A, c, cant, off),
         NEW k0, k0 = NroBloque(off), NEW K, K = Pos(Indirecto(k0) + 1, 0),
         NEW q, q = cant_bloques_necesaria(f.tam)
  PROVE  Numeros(f, off, cant, k0, K, q)
  <1>1. /\ Justo(f, O) /\ f.tam \in Nat /\ f.tam <= MaxTam /\ off \in Nat
        /\ cant \in Nat \ {0} /\ off + cant <= f.tam /\ JustoDe(f, q)
    BY DEF Dentro, Justo
  <1>2. q \in Nat /\ q <= CantDatos
    BY <1>1, SobraUno
  <1>3. k0 \in Nat
    BY <1>1, OffsetEs
  <1>4. k0 < q
    <2>1. off < f.tam
      BY <1>1
    <2>2. QED
      BY <1>1, <2>1, BloqueDelByte
  <1>5. K \in Nat /\ k0 < K
    BY <1>3, Renglon
  <1>6. Visitados(f, off) = {k \in 0..q - 1 : k0 <= k}
    BY <1>1, <1>2, VisitadosJusto
  <1>7. PICK x \in Nat : x = off + cant - 1 /\ x + 1 = off + cant /\ x < f.tam
    BY <1>1
  <1>8. NroBloque(x) \in Nat /\ NroBloque(x) < K /\ NroBloque(x) < q
    <2>1. NroBloque(x) \in Nat
      BY <1>7, OffsetEs
    <2>2. Indirecto(NroBloque(x)) = Indirecto(k0)
      BY <1>7 DEF Dentro
    <2>3. QED
      BY <1>1, <1>3, <1>7, <2>1, <2>2, BloqueDelByte, Renglon
  <1>9. x + 1 <= Posicion(K, 0) /\ x + 1 <= Posicion(q, 0)
    BY <1>2, <1>5, <1>7, <1>8, FinDelBloque
  <1>10. Posicion(K, 0) \in Nat /\ Posicion(q, 0) \in Nat
    BY <1>2, <1>5, Consecutivos
  <1>11. QED
    BY <1>1, <1>2, <1>3, <1>4, <1>5, <1>6, <1>7, <1>9, <1>10 DEF Numeros

\* A memcpy of the loop, of n bytes after the first w.
LEMMA CopiaEncima ==
  ASSUME NEW f, NEW O, NEW A, NEW c, NEW cant, NEW off, Dentro(f, O, A, c, cant, off),
         NEW d, Bien(d, O), d.ind = f.ind, d.ptr = f.ptr, d.ok,
         NEW w \in Nat, Escribio(f, d, c, off, w),
         NEW k \in Nat, k < cant_bloques_necesaria(f.tam), NEW o \in Nat, NEW n \in Nat,
         o + n <= BLOCK_SIZE, w + n <= cant, n # 0 => Posicion(k, o) = off + w,
         NEW e, e = Copiar(d, Puntero(d, k), o, SubSeq(c, w + 1, w + n))
  PROVE  e.ok /\ Escribio(f, e, c, off, w + n)
  <1>1. PICK q : q = cant_bloques_necesaria(f.tam) /\ q \in Nat /\ q <= CantDatos /\ JustoDe(f, q)
    BY NumerosSon DEF Numeros
  <1>2. f.tam \in Nat /\ off \in Nat /\ c \in Seq(A) /\ w + n <= Len(c)
    BY DEF Dentro, Justo
  <1>3. JustoDe(d, q)
    <2>1. \A i \in Indirectos, j \in Columnas : Sitio(d, i, j) = Sitio(f, i, j)
      BY DEF Sitio
    <2>2. QED
      BY <1>1, <2>1, JustoIgual
  <1>4. k \in 0..q - 1
    BY <1>1
  <1>5. PICK b : b = Puntero(d, k) /\ b \in Bloques
    BY <1>1, <1>3, <1>4, PunteroJusto
  <1>6. PICK texto : texto = SubSeq(c, w + 1, w + n)
    OBVIOUS
  <1>7. DOMAIN texto = 1..n /\ \A y \in 1..n : texto[y] = c[w + y]
    <2>1. DOMAIN texto = 1..n
      BY <1>2, <1>6
    <2>2. \A y \in 1..n : texto[y] = c[w + y]
      BY <1>2, <1>6
    <2>3. QED
      BY <2>1, <2>2
  <1>8. DOMAIN d = CamposDisco
    BY DEF Bien, TipoDe
  <1>9. /\ e.ind = d.ind /\ e.ptr = d.ptr /\ e.ok = d.ok
        /\ e.datos = [d.datos EXCEPT ![b] = Sobre(d.datos[b], o, texto)]
    <2>1. e = Copiar(d, b, o, texto)
      BY <1>5, <1>6
    <2>2. QED
      BY <1>5, <1>8, <2>1 DEF Copiar, CamposDisco, Sobre
  <1>10. CopiaEn(d, e, k, o, texto)
    BY <1>5, <1>9 DEF CopiaEn
  <1>11. Escribio(f, e, c, off, w + n)
    BY <1>1, <1>2, <1>3, <1>4, <1>7, <1>10, Sobrescribe
  <1>12. QED
    BY <1>9, <1>11

\* What the loop has written when it reaches the block m: w bytes, all of cant
\* or as many as there are up to that block.
Lleva(w, m, cant, off) ==
    /\ w \in Nat /\ w <= cant
    /\ (w = cant /\ off + cant <= Posicion(m, 0)) \/ off + w = Posicion(m, 0)

\* The loop at the block m: before the first block, after the last byte, in the
\* middle of the write, or after the last block of the file.
EnDentro(s, m, f, O, c, cant, off, k0, K, q) ==
    /\ EnPaso(s, f, O) /\ s.d.ok
    /\ \/ m <= k0 /\ s.escrita = 0 /\ ~s.fin /\ Escribio(f, s.d, c, off, 0)
       \/ k0 < m /\ s.fin /\ Escribio(f, s.d, c, off, cant)
       \/ /\ k0 < m /\ m <= q /\ m <= K /\ ~s.fin
          /\ Lleva(s.escrita, m, cant, off) /\ Escribio(f, s.d, c, off, s.escrita)
       \/ k0 < m /\ q <= m /\ Escribio(f, s.d, c, off, cant)

\* The first block: what fits in it from the offset on.
LEMMA PrimerPaso ==
  ASSUME NEW f, NEW O, NEW A, NEW c, NEW cant, NEW off, Dentro(f, O, A, c, cant, off),
         NEW k0, NEW K, NEW q, Numeros(f, off, cant, k0, K, q),
         NEW s, EnPaso(s, f, O), s.d.ok, s.escrita = 0, ~s.fin, Escribio(f, s.d, c, off, 0),
         NEW u, u = EscribirEncima(s, k0, c, cant, off), EnPaso(u, f, O)
  PROVE  EnDentro(u, k0 + 1, f, O, c, cant, off, k0, K, q)
  <1>1. /\ k0 = NroBloque(off) /\ k0 \in Nat /\ q \in Nat /\ K \in Nat /\ k0 < q /\ k0 < K
        /\ q = cant_bloques_necesaria(f.tam) /\ off \in Nat /\ cant \in Nat \ {0}
    BY DEF Numeros, Dentro
  <1>2. PICK o \in Nat, B \in Nat \ {0}, l \in Nat \ {0} :
          o = EnBloque(off) /\ B = BLOCK_SIZE /\ l = B - o /\ o < B
    <2>1. EnBloque(off) \in Nat /\ EnBloque(off) < BLOCK_SIZE /\ BLOCK_SIZE \in Nat \ {0}
      BY <1>1, OffsetEs, SacBloquesConstantes
    <2>2. QED
      BY <2>1
  <1>3. PICK n \in Nat : n = Menor(cant, l) /\ n <= l /\ n <= cant /\ (n = cant \/ n = l)
    BY <1>1, <1>2 DEF Menor
  <1>4. Posicion(k0, o) = off /\ Posicion(k0 + 1, 0) = off + l
    <2>1. Posicion(k0, o) = off
      BY <1>1, <1>2, OffsetEs DEF Posicion
    <2>2. PICK M \in Nat : /\ M = Posicion(k0, 0) /\ Posicion(k0, o) = M + o
                           /\ Posicion(k0 + 1, 0) = M + B
      BY <1>1, <1>2, Consecutivos
    <2>3. M + B = off + l
      BY <1>2, <2>1, <2>2
    <2>4. QED
      BY <2>1, <2>2, <2>3
  <1>5. PICK e : e = Copiar(s.d, Puntero(s.d, k0), o, SubSeq(c, 1, n))
    OBVIOUS
  <1>6. u = [d |-> e, escrita |-> 0 + l, fin |-> cant <= l]
    <2>1. ~(Indirecto(k0) > Indirecto(k0))
      <3>1. Indirecto(k0) \in Nat
        BY <1>1, Posiciones
      <3>2. QED
        BY <3>1
    <2>2. PICK lugar : lugar = BLOCK_SIZE - EnBloque(off) /\ lugar = l
      BY <1>2
    <2>3. u = [d |-> Copiar(s.d, Puntero(s.d, k0), EnBloque(off), SubSeq(c, 1, Menor(cant, lugar))),
               escrita |-> s.escrita + lugar, fin |-> cant <= lugar]
      BY <1>1, <2>1, <2>2, Zenon DEF EscribirEncima
    <2>4. QED
      BY <1>2, <1>3, <1>5, <2>2, <2>3, Zenon
  <1>7. u.d = e /\ u.escrita = l /\ (u.fin <=> cant <= l)
    <2>1. u.d = e /\ u.escrita = 0 + l
      BY <1>6
    <2>2. u.fin <=> cant <= l
      <3>1. PICK b : b = (cant <= l)
        OBVIOUS
      <3>2. u = [d |-> e, escrita |-> 0 + l, fin |-> b]
        BY <1>6, <3>1, Zenon
      <3>3. u.fin = b
        BY <3>2
      <3>4. QED
        BY <3>1, <3>3, Zenon
    <2>3. 0 + l = l
      BY <1>2
    <2>4. QED
      BY <2>1, <2>2, <2>3
  <1>8. e.ok /\ Escribio(f, e, c, off, n)
    <2>1. Bien(s.d, O) /\ s.d.ind = f.ind /\ s.d.ptr = f.ptr
      BY DEF EnPaso, Sigue
    <2>2. PICK w \in Nat : w = 0 /\ w + n = n /\ w + 1 = 1 /\ off + w = off
      BY <1>1, <1>3
    <2>3. e = Copiar(s.d, Puntero(s.d, k0), o, SubSeq(c, w + 1, w + n))
      BY <1>5, <2>2
    <2>4. w + n <= cant /\ o + n <= BLOCK_SIZE /\ (n # 0 => Posicion(k0, o) = off + w)
      BY <1>2, <1>3, <1>4, <2>2
    <2>5. Escribio(f, s.d, c, off, w) /\ k0 < cant_bloques_necesaria(f.tam)
      BY <1>1, <2>2
    <2>6. e.ok /\ Escribio(f, e, c, off, w + n)
      BY <1>1, <2>1, <2>3, <2>4, <2>5, CopiaEncima
    <2>7. QED
      BY <2>2, <2>6
  <1>9. k0 < k0 + 1 /\ k0 + 1 <= q /\ k0 + 1 <= K
    BY <1>1
  <1>10. CASE cant <= l
    <2>1. n = cant
      BY <1>1, <1>3, <1>10
    <2>2. u.fin /\ Escribio(f, u.d, c, off, cant)
      BY <1>7, <1>8, <1>10, <2>1
    <2>3. QED
      BY <1>7, <1>8, <1>9, <2>2, Zenon DEF EnDentro
  <1>11. CASE ~(cant <= l)
    <2>1. n = l /\ l <= cant
      BY <1>1, <1>3, <1>11
    <2>2. ~u.fin /\ Escribio(f, u.d, c, off, u.escrita)
      BY <1>7, <1>8, <1>11, <2>1
    <2>3. Lleva(u.escrita, k0 + 1, cant, off)
      BY <1>4, <1>7, <2>1 DEF Lleva
    <2>4. QED
      BY <1>7, <1>8, <1>9, <2>2, <2>3, Zenon DEF EnDentro
  <1>12. QED
    BY <1>10, <1>11

\* A block after the first one, under the same block of pointers.
LEMMA PasoSiguiente ==
  ASSUME NEW f, NEW O, NEW A, NEW c, NEW cant, NEW off, Dentro(f, O, A, c, cant, off),
         NEW k0, NEW K, NEW q, Numeros(f, off, cant, k0, K, q),
         NEW m \in Nat, k0 < m, m < q, m < K,
         NEW s, EnPaso(s, f, O), s.d.ok, ~s.fin, Lleva(s.escrita, m, cant, off),
         Escribio(f, s.d, c, off, s.escrita),
         NEW u, u = EscribirEncima(s, m, c, cant, off), EnPaso(u, f, O)
  PROVE  EnDentro(u, m + 1, f, O, c, cant, off, k0, K, q)
  <1>1. /\ k0 = NroBloque(off) /\ k0 \in Nat /\ q \in Nat /\ K \in Nat
        /\ K = Pos(Indirecto(k0) + 1, 0) /\ q = cant_bloques_necesaria(f.tam)
        /\ off \in Nat /\ cant \in Nat \ {0}
    BY DEF Numeros, Dentro
  <1>2. Indirecto(m) = Indirecto(k0) /\ Directo(m) # Directo(k0)
    BY <1>1, Renglon
  <1>3. ~(Indirecto(m) > Indirecto(k0))
    <2>1. Indirecto(k0) \in Nat
      BY <1>1, Posiciones
    <2>2. QED
      BY <1>2, <2>1
  <1>4. PICK w \in Nat, M \in Nat, B \in Nat \ {0} :
          /\ w = s.escrita /\ w <= cant /\ M = Posicion(m, 0) /\ B = BLOCK_SIZE
          /\ Posicion(m + 1, 0) = M + B
          /\ (w = cant /\ off + cant <= M) \/ off + w = M
    <2>1. Posicion(m, 0) \in Nat /\ Posicion(m + 1, 0) = Posicion(m, 0) + BLOCK_SIZE
      BY Consecutivos
    <2>2. BLOCK_SIZE \in Nat \ {0}
      BY SacBloquesConstantes
    <2>3. QED
      BY <2>1, <2>2 DEF Lleva
  <1>5. PICK n \in Nat : /\ n = Menor(cant - w, B) /\ n <= B /\ n <= cant - w
                         /\ (n = cant - w \/ n = B)
    BY <1>1, <1>4 DEF Menor
  <1>6. PICK e : e = Copiar(s.d, Puntero(s.d, m), 0, SubSeq(c, w + 1, w + n))
    OBVIOUS
  <1>7. DOMAIN s = {"d", "escrita", "fin"} /\ Bien(s.d, O) /\ s.d.ind = f.ind /\ s.d.ptr = f.ptr
    BY DEF EnPaso, Sigue
  <1>8. u = [s EXCEPT !.d = e, !.escrita = @ + n]
    <2>1. PICK x : x = Menor(cant - s.escrita, BLOCK_SIZE) /\ x = n /\ ~(x < 0)
      BY <1>4, <1>5
    <2>2. u = [s EXCEPT !.d = Copiar(@, Puntero(@, m), 0, SubSeq(c, s.escrita + 1, s.escrita + x)),
                        !.escrita = @ + x]
      BY <1>1, <1>2, <1>3, <2>1, Zenon DEF EscribirEncima
    <2>3. QED
      BY <1>4, <1>6, <2>1, <2>2
  <1>9. u.d = e /\ u.escrita = w + n /\ (u.fin <=> s.fin)
    BY <1>4, <1>7, <1>8
  <1>10. e.ok /\ Escribio(f, e, c, off, w + n)
    <2>1. 0 \in Nat /\ 0 + n <= BLOCK_SIZE /\ w + n <= cant
      BY <1>1, <1>4, <1>5
    <2>2. n # 0 => Posicion(m, 0) = off + w
      BY <1>1, <1>4, <1>5
    <2>3. Escribio(f, s.d, c, off, w) /\ m < cant_bloques_necesaria(f.tam)
      BY <1>1, <1>4
    <2>4. QED
      BY <1>6, <1>7, <2>1, <2>2, <2>3, CopiaEncima
  <1>11. Lleva(w + n, m + 1, cant, off)
    <2>1. w + n \in Nat /\ w + n <= cant
      BY <1>1, <1>4, <1>5
    <2>2. (w + n = cant /\ off + cant <= M + B) \/ off + (w + n) = M + B
      <3>1. CASE w = cant /\ off + cant <= M
        BY <1>1, <1>5, <3>1
      <3>2. CASE off + w = M
        BY <1>1, <1>5, <3>2
      <3>3. QED
        BY <1>4, <3>1, <3>2
    <2>3. QED
      BY <1>4, <2>1, <2>2 DEF Lleva
  <1>12. k0 < m + 1 /\ m + 1 <= q /\ m + 1 <= K
    BY <1>1
  <1>13. ~u.fin /\ Lleva(u.escrita, m + 1, cant, off) /\ Escribio(f, u.d, c, off, u.escrita) /\ u.d.ok
    BY <1>9, <1>10, <1>11
  <1>14. QED
    BY <1>12, <1>13, Zenon DEF EnDentro

\* The loop stops at the next block of pointers, when it has written everything.
LEMMA PasoCorta ==
  ASSUME NEW f, NEW O, NEW A, NEW c, NEW cant, NEW off, Dentro(f, O, A, c, cant, off),
         NEW k0, NEW K, NEW q, Numeros(f, off, cant, k0, K, q),
         NEW s, EnPaso(s, f, O), s.d.ok, Lleva(s.escrita, K, cant, off),
         Escribio(f, s.d, c, off, s.escrita),
         NEW u, u = EscribirEncima(s, K, c, cant, off), EnPaso(u, f, O)
  PROVE  EnDentro(u, K + 1, f, O, c, cant, off, k0, K, q)
  <1>1. /\ k0 = NroBloque(off) /\ k0 \in Nat /\ K \in Nat /\ k0 < K
        /\ K = Pos(Indirecto(k0) + 1, 0) /\ off \in Nat /\ cant \in Nat \ {0}
        /\ Posicion(K, 0) \in Nat /\ off + cant <= Posicion(K, 0)
    BY DEF Numeros, Dentro
  <1>2. Directo(K) = 0 /\ Indirecto(K) > Indirecto(k0)
    BY <1>1, Renglon
  <1>3. s.escrita = cant
    <2>1. PICK w \in Nat, M \in Nat : /\ w = s.escrita /\ M = Posicion(K, 0) /\ w <= cant
                                      /\ (w = cant \/ off + w = M) /\ off + cant <= M
      BY <1>1 DEF Lleva
    <2>2. w = cant
      BY <1>1, <2>1
    <2>3. QED
      BY <2>1, <2>2
  <1>4. DOMAIN s = {"d", "escrita", "fin"}
    BY DEF EnPaso
  <1>5. u = [s EXCEPT !.fin = TRUE]
    <2>1. s.escrita >= cant
      BY <1>1, <1>3
    <2>2. QED
      BY <1>1, <1>2, <2>1, Zenon DEF EscribirEncima
  <1>6. u.d = s.d /\ u.fin
    BY <1>4, <1>5
  <1>7. k0 < K + 1 /\ u.d.ok /\ Escribio(f, u.d, c, off, cant)
    BY <1>1, <1>3, <1>6
  <1>8. QED
    BY <1>6, <1>7, Zenon DEF EnDentro

\* The loop at any block.
LEMMA PasoDentro ==
  ASSUME NEW f, NEW O, NEW A, NEW c, NEW cant, NEW off, Dentro(f, O, A, c, cant, off),
         NEW k0, NEW K, NEW q, Numeros(f, off, cant, k0, K, q),
         NEW m \in Nat, NEW s, EnDentro(s, m, f, O, c, cant, off, k0, K, q),
         NEW u, u = Pasar(s, f, m, c, cant, off)
  PROVE  EnDentro(u, m + 1, f, O, c, cant, off, k0, K, q)
  <1>1. /\ k0 \in Nat /\ q \in Nat /\ K \in Nat /\ off \in Nat /\ cant \in Nat \ {0}
        /\ Visitados(f, off) = {k \in 0..q - 1 : k0 <= k} /\ off + cant <= Posicion(q, 0)
        /\ Posicion(q, 0) \in Nat
    BY DEF Numeros, Dentro
  <1>2. EnPaso(s, f, O) /\ s.d.ok /\ Bien(f, O)
    BY DEF EnDentro, Dentro, Justo
  <1>3. m \in Visitados(f, off) <=> k0 <= m /\ m < q
    BY <1>1
  <1>4. CASE ~(k0 <= m /\ m < q)
    <2>1. u = s
      BY <1>3, <1>4 DEF Pasar
    <2>2. CASE m <= k0 /\ s.escrita = 0 /\ ~s.fin /\ Escribio(f, s.d, c, off, 0)
      <3>1. m + 1 <= k0
        <4>1. k0 < q
          BY DEF Numeros
        <4>2. QED
          BY <1>1, <1>4, <2>2, <4>1
      <3>2. QED
        BY <1>2, <2>1, <2>2, <3>1, Zenon DEF EnDentro
    <2>3. CASE k0 < m /\ s.fin /\ Escribio(f, s.d, c, off, cant)
      <3>1. k0 < m + 1
        BY <1>1, <2>3
      <3>2. QED
        BY <1>2, <2>1, <2>3, <3>1, Zenon DEF EnDentro
    <2>4. CASE /\ k0 < m /\ m <= q /\ m <= K /\ ~s.fin
               /\ Lleva(s.escrita, m, cant, off) /\ Escribio(f, s.d, c, off, s.escrita)
      <3>1. m = q /\ k0 < m + 1 /\ q <= m + 1
        BY <1>1, <1>4, <2>4
      <3>2. s.escrita = cant
        <4>1. PICK w \in Nat, M \in Nat : /\ w = s.escrita /\ M = Posicion(q, 0) /\ w <= cant
                                          /\ (w = cant \/ off + w = M) /\ off + cant <= M
          BY <1>1, <2>4, <3>1 DEF Lleva
        <4>2. w = cant
          BY <1>1, <4>1
        <4>3. QED
          BY <4>1, <4>2
      <3>3. Escribio(f, s.d, c, off, cant)
        BY <2>4, <3>2
      <3>4. QED
        BY <1>2, <2>1, <3>1, <3>3, Zenon DEF EnDentro
    <2>5. CASE k0 < m /\ q <= m /\ Escribio(f, s.d, c, off, cant)
      <3>1. k0 < m + 1 /\ q <= m + 1
        BY <1>1, <2>5
      <3>2. QED
        BY <1>2, <2>1, <2>5, <3>1, Zenon DEF EnDentro
    <2>6. QED
      BY <2>2, <2>3, <2>4, <2>5 DEF EnDentro
  <1>5. CASE k0 <= m /\ m < q
    <2>1. u = EscribirEncima(s, m, c, cant, off)
      BY <1>3, <1>5 DEF Pasar
    <2>2. EnPaso(u, f, O)
      <3>1. m \in Propios(f)
        BY <1>3, <1>5, VisitadosPropios
      <3>2. QED
        BY <1>2, <2>1, <3>1, EscribeEncima
    <2>3. CASE m <= k0 /\ s.escrita = 0 /\ ~s.fin /\ Escribio(f, s.d, c, off, 0)
      <3>1. m = k0
        BY <1>1, <1>5, <2>3
      <3>2. u = EscribirEncima(s, k0, c, cant, off)
        BY <2>1, <3>1
      <3>3. EnDentro(u, k0 + 1, f, O, c, cant, off, k0, K, q)
        BY <1>2, <2>2, <2>3, <3>2, PrimerPaso
      <3>4. QED
        BY <3>1, <3>3
    <2>4. CASE k0 < m /\ s.fin /\ Escribio(f, s.d, c, off, cant)
      <3>1. DOMAIN s = {"d", "escrita", "fin"}
        BY <1>2 DEF EnPaso
      <3>2. u = [s EXCEPT !.fin = TRUE]
        BY <2>1, <2>4, Zenon DEF EscribirEncima
      <3>3. u.d = s.d /\ u.fin
        BY <3>1, <3>2
      <3>4. k0 < m + 1 /\ u.d.ok /\ Escribio(f, u.d, c, off, cant)
        BY <1>1, <1>2, <2>4, <3>3
      <3>5. QED
        BY <2>2, <3>3, <3>4, Zenon DEF EnDentro
    <2>5. CASE /\ k0 < m /\ m <= q /\ m <= K /\ ~s.fin
               /\ Lleva(s.escrita, m, cant, off) /\ Escribio(f, s.d, c, off, s.escrita)
      <3>1. CASE m < K
        BY <1>2, <1>5, <2>1, <2>2, <2>5, <3>1, PasoSiguiente
      <3>2. CASE m = K
        <4>1. u = EscribirEncima(s, K, c, cant, off) /\ Lleva(s.escrita, K, cant, off)
          BY <2>1, <2>5, <3>2
        <4>2. EnDentro(u, K + 1, f, O, c, cant, off, k0, K, q)
          BY <1>2, <2>2, <2>5, <4>1, PasoCorta
        <4>3. QED
          BY <3>2, <4>2
      <3>3. m < K \/ m = K
        BY <1>1, <2>5
      <3>4. QED
        BY <3>1, <3>2, <3>3
    <2>6. CASE k0 < m /\ q <= m /\ Escribio(f, s.d, c, off, cant)
      BY <1>1, <1>5, <2>6
    <2>7. QED
      BY <2>3, <2>4, <2>5, <2>6 DEF EnDentro
  <1>6. QED
    BY <1>4, <1>5

\* Under one block of pointers, escribir_dentro_archivo writes its bytes and
\* changes no other.
LEMMA EscribeDentroJusto ==
  ASSUME NEW f, NEW O, NEW A, NEW c, NEW cant, NEW off, Dentro(f, O, A, c, cant, off),
         NEW g, g = escribir_dentro_archivo(f, c, cant, off)
  PROVE  g.ok /\ Escribio(f, g, c, off, cant)
  <1>1. PICK k0, K, q : Numeros(f, off, cant, k0, K, q)
    BY NumerosSon
  <1>2. /\ k0 \in Nat /\ q \in Nat /\ K \in Nat /\ k0 < q /\ q <= CantDatos /\ CantDatos \in Nat
        /\ off \in Nat /\ cant \in Nat \ {0} /\ Justo(f, O)
        /\ Posicion(q, 0) \in Nat /\ off + cant <= Posicion(q, 0)
    BY <1>1, PosicionesDelArchivo DEF Numeros, Dentro
  <1>3. PICK t : SonPasos(t, f, c, cant, off, g)
    <2>1. ~(cant <= 0)
      BY <1>2
    <2>2. QED
      BY <2>1, PasosDentro
  <1> DEFINE En(m) == EnDentro(t[m], m, f, O, c, cant, off, k0, K, q)
             S == {m \in 0..CantDatos : En(m)}
  <1>4. 0 \in S
    <2>1. t[0] = [d |-> f, escrita |-> 0, fin |-> FALSE]
      BY <1>3 DEF SonPasos
    <2>2. /\ t[0].d = f /\ t[0].escrita = 0 /\ ~t[0].fin
          /\ DOMAIN t[0] = {"d", "escrita", "fin"}
      BY <2>1
    <2>3. EnPaso(t[0], f, O)
      <3>1. Sigue(f, f, O)
        BY <1>2, SigueDeSi DEF Justo
      <3>2. QED
        BY <2>2, <3>1 DEF EnPaso
    <2>4. Escribio(f, f, c, off, 0)
      <3>1. ASSUME NEW x \in 0..f.tam - 1 PROVE ~(off <= x /\ x < off + 0)
        BY <1>2
      <3>2. QED
        BY <3>1 DEF Escribio
    <2>5. 0 <= k0 /\ t[0].d.ok /\ Escribio(f, t[0].d, c, off, 0)
      BY <1>2, <2>2, <2>4 DEF Justo
    <2>6. En(0)
      BY <2>2, <2>3, <2>5, Zenon DEF EnDentro
    <2>7. 0 \in 0..CantDatos
      BY <1>2
    <2>8. QED
      BY <2>6, <2>7
  <1>5. ASSUME NEW m \in 0..CantDatos, m \in S, m # CantDatos
        PROVE  m + 1 \in S
    <2>1. t[m + 1] = Pasar(t[m], f, m, c, cant, off) /\ m + 1 \in 0..CantDatos /\ m \in Nat
      BY <1>2, <1>3, <1>5 DEF SonPasos
    <2>2. En(m)
      BY <1>5
    <2>3. En(m + 1)
      BY <1>1, <2>1, <2>2, PasoDentro
    <2>4. QED
      BY <2>1, <2>3
  <1>6. En(CantDatos)
    <2>1. CantDatos \in S
      <3> HIDE DEF S
      <3>1. 0..CantDatos \subseteq S
        BY <1>2, <1>4, <1>5, HastaN
      <3>2. QED
        BY <1>2, <3>1
    <2>2. QED
      BY <2>1
  <1> HIDE DEF S
  <1>7. PICK s : s = t[CantDatos] /\ s.d = g
    BY <1>3 DEF SonPasos
  <1>8. EnDentro(s, CantDatos, f, O, c, cant, off, k0, K, q)
    BY <1>6, <1>7
  <1>9. s.d.ok
    BY <1>8 DEF EnDentro
  <1>10. Escribio(f, s.d, c, off, cant)
    <2>1. ~(CantDatos <= k0)
      BY <1>2
    <2>2. ASSUME CantDatos <= q, Lleva(s.escrita, CantDatos, cant, off),
                 Escribio(f, s.d, c, off, s.escrita)
          PROVE  Escribio(f, s.d, c, off, cant)
      <3>1. q = CantDatos
        BY <1>2, <2>2
      <3>2. PICK w \in Nat, M \in Nat : /\ w = s.escrita /\ M = Posicion(q, 0) /\ w <= cant
                                        /\ (w = cant \/ off + w = M) /\ off + cant <= M
        BY <1>2, <2>2, <3>1 DEF Lleva
      <3>3. w = cant
        BY <1>2, <3>2
      <3>4. QED
        BY <2>2, <3>2, <3>3
    <2>3. QED
      BY <1>8, <2>1, <2>2 DEF EnDentro
  <1>11. QED
    BY <1>7, <1>9, <1>10

\* A greater number is not in an earlier row.
LEMMA DivCrece ==
  ASSUME NEW a \in Nat, NEW b \in Nat, a <= b, NEW B \in Nat \ {0}
  PROVE  a \div B \in Nat /\ a \div B <= b \div B
  <1>1. PICK q \in Nat, r \in Nat : q = a \div B /\ a = q * B + r /\ r < B
    BY Entre
  <1>2. PICK x \in Nat, y \in Nat : x = b \div B /\ b = x * B + y /\ y < B
    BY Entre
  <1>3. ASSUME x < q PROVE FALSE
    <2>1. x * B + B <= q * B /\ x * B \in Nat /\ q * B \in Nat
      BY <1>3, Filas
    <2>2. PICK M \in Nat, N \in Nat : M = x * B /\ N = q * B /\ M + B <= N
      BY <2>1
    <2>3. b = M + y /\ a = N + r
      BY <1>1, <1>2, <2>2, Zenon
    <2>4. QED
      BY <1>2, <2>2, <2>3
  <1>4. q <= x
    BY <1>3
  <1>5. QED
    BY <1>1, <1>2, <1>4

\* The bytes between two under one block of pointers are under it too.
LEMMA EnElRenglon ==
  ASSUME NEW x \in Nat, NEW y \in Nat, NEW z \in Nat, x <= y, y <= z,
         Indirecto(NroBloque(x)) = Indirecto(NroBloque(z))
  PROVE  Indirecto(NroBloque(y)) = Indirecto(NroBloque(x))
  <1>1. BLOCK_SIZE \in Nat \ {0} /\ CANT_DIRECTOS \in Nat \ {0}
    BY SacBloquesConstantes
  <1>2. ASSUME NEW a \in Nat, NEW b \in Nat, a <= b
        PROVE  /\ Indirecto(NroBloque(a)) \in Nat
               /\ Indirecto(NroBloque(a)) <= Indirecto(NroBloque(b))
    <2>1. PICK h, k : h = NroBloque(a) /\ k = NroBloque(b)
      OBVIOUS
    <2>2. h \in Nat /\ k \in Nat /\ h <= k
      BY <1>1, <1>2, <2>1, OffsetEs, DivCrece DEF NroBloque
    <2>3. Indirecto(h) \in Nat /\ Indirecto(h) <= Indirecto(k)
      BY <1>1, <2>2, DivCrece DEF Indirecto
    <2>4. QED
      BY <2>1, <2>3
  <1>3. PICK u \in Nat, v \in Nat, w \in Nat :
          /\ u = Indirecto(NroBloque(x)) /\ v = Indirecto(NroBloque(y))
          /\ w = Indirecto(NroBloque(z)) /\ u <= v /\ v <= w
    <2>1. z <= z
      OBVIOUS
    <2>2. QED
      BY <1>2, <2>1
  <1>4. u = w
    BY <1>3
  <1>5. QED
    BY <1>3, <1>4

\* The file after a write of c at off that fits, byte by byte.
LEMMA EscritoEntero ==
  ASSUME NEW d, NEW O, Justo(d, O), d.tam <= MaxTam, NEW A, NEW c \in Seq(A), c # <<>>,
         NEW off \in Nat, off <= d.tam, d.tam + Len(c) <= MaxTam,
         Indirecto(NroBloque(off)) = Indirecto(NroBloque(off + Len(c) - 1)),
         NEW f, NEW g, NEW e, Escrito(d, f, g, e, c, off, O)
  PROVE  /\ Justo(e, O) /\ e.tam = Largo(d, c, off) /\ e.tam <= MaxTam
         /\ \A x \in 0..e.tam - 1 :
               Byte(e, x) = IF x - off + 1 \in DOMAIN c THEN c[x - off + 1] ELSE Byte(d, x)
  <1>1. PICK t \in Nat, n \in Nat \ {0} :
          t = d.tam /\ n = Len(c) /\ DOMAIN c = 1..n /\ off <= t /\ t + n <= MaxTam
    <2>1. Len(c) \in Nat \ {0}
      OBVIOUS
    <2>2. QED
      BY <2>1 DEF Justo
  <1>2. PICK cant, r : /\ Preparado(d, f, cant, c, off, O)
                       /\ g = escribir_dentro_archivo(f, c, cant, off)
                       /\ e = [g EXCEPT !.ret = r]
    BY DEF Escrito
  <1>3. PICK T \in Nat : T = f.tam /\ T = IF off + n > t THEN off + n ELSE t
    BY <1>1, <1>2 DEF Preparado, Largo
  <1>4. /\ Justo(f, O) /\ T <= MaxTam /\ cant \in Nat /\ cant <= n /\ off + cant <= T
        /\ cant = IF off + n > t THEN t - off ELSE n
    <2>1. cant = IF off + n > t THEN t - off ELSE n
      BY <1>1, <1>2 DEF Preparado
    <2>2. MaxTam \in Nat
      BY TamanioAcotado
    <2>3. QED
      BY <1>1, <1>2, <1>3, <2>1, <2>2 DEF Preparado
  <1>5. ASSUME NEW x \in 0..T - 1
        PROVE  Byte(f, x) = IF x < t THEN Byte(d, x)
                            ELSE IF x - off + 1 \in 1..n THEN c[x - off + 1] ELSE Basura
    BY <1>1, <1>2, <1>3 DEF Preparado
  <1>6. g.ok /\ Escribio(f, g, c, off, cant)
    <2>1. CASE cant = 0
      <3>1. g = f
        BY <1>2, <2>1 DEF escribir_dentro_archivo
      <3>2. \A x \in 0..T - 1 : ~(off <= x /\ x < off + cant)
        BY <2>1
      <3>3. QED
        BY <1>3, <1>4, <3>1, <3>2 DEF Justo, Escribio
    <2>2. CASE cant # 0
      <3>1. Indirecto(NroBloque(off + cant - 1)) = Indirecto(NroBloque(off))
        <4>1. PICK y \in Nat, z \in Nat :
                y = off + cant - 1 /\ z = off + Len(c) - 1 /\ off <= y /\ y <= z
          <5>1. PICK m \in Nat \ {0} : m = cant /\ m <= n
            BY <1>4, <2>2
          <5>2. /\ off + m - 1 \in Nat /\ off + n - 1 \in Nat
                /\ off <= off + m - 1 /\ off + m - 1 <= off + n - 1
            BY <5>1
          <5>3. QED
            BY <1>1, <5>1, <5>2
        <4>2. QED
          BY <4>1, EnElRenglon
      <3>2. Dentro(f, O, A, c, cant, off)
        BY <1>1, <1>3, <1>4, <2>2, <3>1 DEF Dentro
      <3>3. QED
        BY <1>2, <3>2, EscribeDentroJusto
    <2>3. QED
      BY <2>1, <2>2
  <1>7. /\ e.ind = f.ind /\ e.ptr = f.ptr /\ e.tam = T /\ e.datos = g.datos
        /\ g.ind = f.ind /\ g.ptr = f.ptr /\ Justo(e, O)
    <2>1. /\ e.ind = f.ind /\ e.ptr = f.ptr /\ e.tam = f.tam /\ e.ok = g.ok /\ e.datos = g.datos
          /\ e.ok => Justo(e, O)
      BY EscritoJusto
    <2>2. g.ind = f.ind /\ g.ptr = f.ptr
      <3>1. Bien(f, O)
        BY <1>4 DEF Justo
      <3>2. QED
        BY <1>2, <3>1, EscribeDentro
    <2>3. QED
      BY <1>3, <1>6, <2>1, <2>2
  <1>8. \A x : Byte(e, x) = Byte(g, x)
    BY <1>7 DEF Byte, Puntero
  <1>9. ASSUME NEW x \in 0..e.tam - 1
        PROVE  Byte(e, x) = IF x - off + 1 \in DOMAIN c THEN c[x - off + 1] ELSE Byte(d, x)
    <2>1. x \in 0..T - 1 /\ x \in 0..f.tam - 1
      BY <1>3, <1>7
    <2>2. Byte(e, x) = IF off <= x /\ x < off + cant THEN c[x - off + 1] ELSE Byte(f, x)
      BY <1>6, <1>8, <2>1 DEF Escribio
    <2>3. Byte(f, x) = IF x < t THEN Byte(d, x)
                       ELSE IF x - off + 1 \in 1..n THEN c[x - off + 1] ELSE Basura
      BY <1>5, <2>1
    <2>4. PICK y \in Nat : y = x /\ y < T
      BY <2>1
    <2>5. y - off + 1 \in 1..n <=> off <= y /\ y < off + n
      BY <2>4
    <2>6. CASE y - off + 1 \in 1..n
      <3>1. (off <= y /\ y < off + cant) \/ ~(y < t)
        BY <1>1, <1>3, <1>4, <2>4, <2>5, <2>6
      <3>2. QED
        BY <1>1, <2>2, <2>3, <2>4, <2>6, <3>1
    <2>7. CASE ~(y - off + 1 \in 1..n)
      <3>1. ~(off <= y /\ y < off + cant) /\ y < t
        BY <1>1, <1>3, <1>4, <2>4, <2>5, <2>7
      <3>2. QED
        BY <1>1, <2>2, <2>3, <2>4, <2>7, <3>1
    <2>8. QED
      BY <2>6, <2>7
  <1>10. QED
    BY <1>1, <1>3, <1>4, <1>7, <1>9 DEF Largo

\* Every byte of e is the byte of the write that falls on it, or else the one of d.
Pisado(d, e, c, off) ==
  \A x \in 0..e.tam - 1 :
     Byte(e, x) = IF x - off + 1 \in DOMAIN c THEN c[x - off + 1] ELSE Byte(d, x)

\* The bytes of a file as a reader gets them.
Leido(d) == [x \in 1..d.tam |-> Byte(d, x - 1)]

\* The larger of two sizes, where the operator of the model takes a set.
LEMMA MayorDeDos ==
  ASSUME NEW t \in Nat, NEW h \in Nat
  PROVE  Max({t, h}) = IF h > t THEN h ELSE t
  <1>1. Max({t, h}) \in {t, h} /\ Max({t, h}) >= t /\ Max({t, h}) >= h
    BY TamanioSuma
  <1>2. QED
    BY <1>1

\* What is read of a file after a write, from the bytes of both files.
LEMMA LeidoPisado ==
  ASSUME NEW d, NEW e, d.tam \in Nat, NEW A, NEW c \in Seq(A), NEW off \in Nat, off <= d.tam,
         e.tam = Largo(d, c, off), Pisado(d, e, c, off)
  PROVE  Leido(e) = Pisar(Leido(d), c, off)
  <1>1. PICK t \in Nat, n \in Nat : t = d.tam /\ n = Len(c) /\ DOMAIN c = 1..n
    <2>1. Len(c) \in Nat /\ DOMAIN c = 1..Len(c)
      OBVIOUS
    <2>2. QED
      BY <2>1
  <1>2. PICK T \in Nat : T = IF off + n > t THEN off + n ELSE t
    OBVIOUS
  <1>3. e.tam = T
    BY <1>1, <1>2 DEF Largo
  <1>4. PICK s : s = [x \in 1..t |-> Byte(d, x - 1)]
    OBVIOUS
  <1>5. Len(s) = t
    BY <1>4
  <1>6. Max({Len(s), off + Len(c)}) = T
    <2>1. PICK h \in Nat : h = off + n
      OBVIOUS
    <2>2. Max({t, h}) = IF h > t THEN h ELSE t
      BY MayorDeDos
    <2>3. Max({t, h}) = T
      BY <1>2, <2>1, <2>2
    <2>4. QED
      BY <1>1, <1>5, <2>1, <2>3
  <1>7. ASSUME NEW x \in 1..T
        PROVE  Byte(e, x - 1) = IF x - off \in DOMAIN c THEN c[x - off] ELSE s[x]
    <2>1. x - 1 \in 0..T - 1 /\ (x - 1) - off + 1 = x - off
      OBVIOUS
    <2>2. Byte(e, x - 1) = IF (x - 1) - off + 1 \in DOMAIN c THEN c[(x - 1) - off + 1]
                           ELSE Byte(d, x - 1)
      BY <1>3, <2>1 DEF Pisado
    <2>3. x - off \notin DOMAIN c => x \in 1..t
      BY <1>1, <1>2
    <2>4. x - off \notin DOMAIN c => s[x] = Byte(d, x - 1)
      BY <1>4, <2>3
    <2>5. QED
      BY <2>1, <2>2, <2>4
  <1>8. Pisar(s, c, off) = [x \in 1..T |-> IF x - off \in DOMAIN c THEN c[x - off] ELSE s[x]]
    BY <1>6 DEF Pisar
  <1>9. [x \in 1..T |-> Byte(e, x - 1)]
          = [x \in 1..T |-> IF x - off \in DOMAIN c THEN c[x - off] ELSE s[x]]
    BY <1>7
  <1>10. Leido(d) = s /\ Leido(e) = [x \in 1..T |-> Byte(e, x - 1)]
    BY <1>1, <1>4, <1>3 DEF Leido
  <1>11. QED
    BY <1>8, <1>9, <1>10

\* What a client reads after a write inside one block of pointers.
LEMMA EnteraEs ==
  ASSUME TipoOK, BloqueDeUno, DiscoSano, NEW n \in Archivos, NEW c \in Textos, NEW off \in Offsets,
         off <= tabla_nodos[n].tam_archivo, tabla_nodos[n].tam_archivo + Len(c) <= MaxTam,
         Cabe(n, c, off),
         Indirecto(NroBloque(off)) = Indirecto(NroBloque(off + Len(c) - 1))
  PROVE  TrasEscribir(n, c, off) = Pisar(Contenido(n), c, off)
  <1>1. PICK d : d = Archivo(n)
    OBVIOUS
  <1>2. PICK O : O = Otros(Archivos, tabla_nodos, ptr_direct, n)
    OBVIOUS
  <1>3. PICK A : A = ToSet(c)
    OBVIOUS
  <1>4. off \in Nat /\ c \in Seq(A) /\ c # <<>> /\ Len(c) \in Nat
    <2>1. Offsets \cup Tamanios \subseteq Nat
      BY SacDiscoConstantes, Zenon
    <2>2. c \in Seq(ToSet(c)) /\ c # <<>>
      BY SacDiscoConstantes, Zenon
    <2>3. QED
      BY <1>3, <2>1, <2>2
  <1>5. /\ Justo(d, O) /\ d.tam = tabla_nodos[n].tam_archivo /\ d.tam \in Nat /\ d.tam <= MaxTam
        /\ d.usados = bitmap
    <2>1. /\ Bien(d, O) /\ d.tam \in 0..MaxTam /\ d.tam = tabla_nodos[n].tam_archivo /\ d.ok
          /\ JustoDe(d, cant_bloques_necesaria(d.tam)) /\ SinPerdidos(d, O)
      BY <1>1, <1>2, ArchivoJusto
    <2>2. d.tam \in Nat /\ d.tam <= MaxTam
      BY <2>1, TamanioAcotado
    <2>3. d.usados = bitmap
      BY <1>1 DEF Archivo
    <2>4. QED
      BY <2>1, <2>2, <2>3 DEF Justo
  <1>6. off <= d.tam /\ d.tam + Len(c) <= MaxTam /\ off + Len(c) <= MaxTam
    <2>1. off <= d.tam /\ d.tam + Len(c) <= MaxTam
      BY <1>5
    <2>2. off + Len(c) <= d.tam + Len(c) /\ MaxTam \in Nat
      BY <1>4, <1>5, <2>1, TamanioAcotado
    <2>3. QED
      BY <1>4, <1>5, <2>1, <2>2
  <1>7. Peso(cant_bloques_necesaria(Largo(d, c, off)))
          <= Peso(cant_bloques_necesaria(d.tam)) + Cardinality(Libres(d))
    BY <1>4, <1>5, CabeEs
  <1>8. PICK e : e = escribir_archivo(d, c, off)
    OBVIOUS
  <1>9. PICK f, g : Escrito(d, f, g, e, c, off, O)
    BY <1>4, <1>5, <1>6, <1>7, <1>8, EscribeEn
  <1>10. /\ Justo(e, O) /\ e.tam = Largo(d, c, off) /\ e.tam <= MaxTam
         /\ Pisado(d, e, c, off)
    BY <1>4, <1>5, <1>6, <1>9, EscritoEntero DEF Pisado
  <1>11. TrasEscribir(n, c, off) = Leido(e)
    <2>1. TrasEscribir(n, c, off) = leer_archivo(e, e.tam, 0).ret
      BY <1>1, <1>8, Zenon DEF TrasEscribir
    <2>2. QED
      BY <1>10, <2>1, LeeJusto DEF Leido
  <1>12. Contenido(n) = Leido(d)
    <2>1. Contenido(n) = leer_archivo(d, d.tam, 0).ret
      BY <1>1, <1>5, Zenon DEF Contenido
    <2>2. QED
      BY <1>5, <2>1, LeeJusto DEF Leido
  <1>13. Leido(e) = Pisar(Leido(d), c, off)
    BY <1>4, <1>5, <1>6, <1>10, LeidoPisado
  <1>14. QED
    BY <1>11, <1>12, <1>13

\* On a sound disk with room for it, a write inside one block of pointers is what
\* is read afterwards, over what the file had: whatever the size of the blocks,
\* the offset, the bytes and the files that came before.
THEOREM EscrituraEnteraSiempre == Spec => []EscrituraEntera
  <1>1. TipoOK /\ BloqueDeUno => EscrituraEntera
    BY EnteraEs, Zenon DEF EscrituraEntera
  <1>2. QED
    BY Disco, <1>1, PTL
=============================================================================
