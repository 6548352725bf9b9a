---------------------------- MODULE CipherCores -----------------------------
(***************************************************************************)
(* The algorithms under the ciphers of CryptoJS.  Of the block ciphers AES *)
(* (aes.js), DES and Triple DES (tripledes.js): the key schedules that     *)
(* _doReset computes, encryptBlock and decryptBlock, on blocks of words.   *)
(* Of the stream ciphers: what _doReset makes of a key, and the next words *)
(* of the key stream.  RC4 (rc4.js) keeps a permutation of the bytes and   *)
(* two indices; Rabbit (rabbit.js, rabbit-legacy.js) eight words of state, *)
(* eight of a counter and the counter's carry.                             *)
(***************************************************************************)
EXTENDS HashBlocks

XorBytes(x, y) == x + y - 2 * AndOfBytes[x][y]
BytesAt(x) == [k \in 0..3 |-> ByteOf(x, k)]
-----------------------------------------------------------------------------
(* AES                                                                     *)

\* Multiplication by 2 in the field of 256 elements.
d(b) == IF b < 128 THEN 2 * b ELSE XorBytes((2 * b) % 256, \h1b)

\* SUB_MIX_0 to SUB_MIX_3, and their inverses, hold one word in four rotations.
Rotations(t) == <<Rotl(t, 24), Rotl(t, 16), Rotl(t, 8), t>>

\* One walk through the field fills all tables.
Tables ==
  LET step(r, i) ==
        LET sum == Xors([k \in 1..5 |-> Small(r.xi * 2^(k - 1))])[2]
            sx == XorBytes(XorBytes(sum \div 256, sum % 256), \h63)
            x2 == d(r.x)
            x4 == d(x2)
            x8 == d(x4)
            t == Xor(Word(0, 0, d(sx), d(sx)), Word(sx, sx, sx, 0))
            inverse == Xors(<<Word(x8, x8, x8, x8), Word(0, x4, 0, x4), Word(0, 0, x2, x2),
                              Word(r.x, r.x, r.x, 0)>>)
        IN  [SBOX |-> [r.SBOX EXCEPT ![r.x] = sx],
             INV_SBOX |-> [r.INV_SBOX EXCEPT ![sx] = r.x],
             SUB_MIX |-> [r.SUB_MIX EXCEPT ![r.x] = Rotations(t)],
             INV_SUB_MIX |-> [r.INV_SUB_MIX EXCEPT ![sx] = Rotations(inverse)],
             x |-> IF r.x = 0 THEN 1 ELSE XorBytes(x2, d(d(d(XorBytes(x8, x2))))),
             xi |-> IF r.x = 0 THEN 1 ELSE XorBytes(r.xi, d(d(r.xi)))]
      zeros == [i \in 0..255 |-> 0]
      words == [i \in 0..255 |-> Rotations(Zero)]
  IN  ForUp(step, [SBOX |-> zeros, INV_SBOX |-> zeros, SUB_MIX |-> words, INV_SUB_MIX |-> words,
                   x |-> 0, xi |-> 0], 0, 255)
SBOX == Tables.SBOX
INV_SBOX == Tables.INV_SBOX
SUB_MIX == Tables.SUB_MIX
INV_SUB_MIX == Tables.INV_SUB_MIX
RCON == <<1, 2, 4, 8, 16, 32, 64, 128, \h1b, \h36>>

SubWord(t) == LET b == BytesAt(t) IN Word(SBOX[b[0]], SBOX[b[1]], SBOX[b[2]], SBOX[b[3]])

AESSchedule(K) ==
  LET keySize == Len(K)
      ksRows == (keySize + 7) * 4
      t(W, row) ==
        IF row % keySize = 0 THEN Xor(SubWord(Rotl(W[row], 8)), Word(RCON[row \div keySize], 0, 0, 0))
        ELSE IF keySize > 6 /\ row % keySize = 4 THEN SubWord(W[row])
        ELSE W[row]
  IN  ForUp(LAMBDA W, row : Append(W, Xor(W[row - keySize + 1], t(W, row))), K, keySize, ksRows - 1)

\* The rows backwards, those of the inner rounds unmixed.
AESInverse(W) ==
  LET ksRows == Len(W)
      unmixed(t) ==
        LET b == BytesAt(t)
        IN  Xors([k \in 1..4 |-> INV_SUB_MIX[SBOX[b[k - 1]]][k]])
      row(i) ==
        LET ksRow == ksRows - i
            t == W[(IF i % 4 # 0 THEN ksRow ELSE ksRow - 4) + 1]
        IN  IF i < 4 \/ ksRow <= 4 THEN t ELSE unmixed(t)
  IN  [k \in 1..ksRows |-> row(k - 1)]

AESCrypt(M, W, MIX, BOX) ==
  LET bytes(s) == Strictly(LAMBDA n : [j \in 1..n |-> BytesAt(s[j])], 4)
      at(j) == (j % 4) + 1
      mixed(s, b, r) ==
        [j \in 1..4 |-> Xors(<<MIX[b[j][0]][1], MIX[b[at(j)][1]][2], MIX[b[at(j + 1)][2]][3],
                               MIX[b[at(j + 2)][3]][4], W[4 * r + j]>>)]
      boxed(b) ==
        [j \in 1..4 |-> Xor(Word(BOX[b[j][0]], BOX[b[at(j)][1]], BOX[b[at(j + 1)][2]],
                                 BOX[b[at(j + 2)][3]]), W[Len(W) - 4 + j])]
      first == [j \in 1..4 |-> Xor(M[j], W[j])]
  IN  boxed(bytes(ForUp(LAMBDA s, r : mixed(s, bytes(s), r), first, 1, (Len(W) \div 4) - 2)))

AESEncrypt(M, W) == AESCrypt(M, W, SUB_MIX, SBOX)
AESDecrypt(M, W) ==
  LET exchanged(s) == <<s[1], s[4], s[3], s[2]>>
  IN  exchanged(AESCrypt(exchanged(M), W, INV_SUB_MIX, INV_SBOX))
-----------------------------------------------------------------------------
(* DES                                                                     *)

PC1 ==
  <<57, 49, 41, 33, 25, 17, 9, 1, 58, 50, 42, 34, 26, 18, 10, 2, 59, 51, 43, 35, 27, 19, 11, 3,
    60, 52, 44, 36, 63, 55, 47, 39, 31, 23, 15, 7, 62, 54, 46, 38, 30, 22, 14, 6, 61, 53, 45, 37,
    29, 21, 13, 5, 28, 20, 12, 4>>
PC2 ==
  <<14, 17, 11, 24, 1, 5, 3, 28, 15, 6, 21, 10, 23, 19, 12, 4, 26, 8, 16, 7, 27, 20, 13, 2,
    41, 52, 31, 37, 47, 55, 30, 40, 51, 45, 33, 48, 44, 49, 39, 56, 34, 53, 46, 42, 50, 36, 29, 32>>
BIT_SHIFTS == <<1, 2, 4, 6, 8, 10, 12, 14, 15, 17, 19, 21, 23, 25, 27, 28>>

\* An entry of SBOX_P is a number of four bits, its bits moved where P wants them.  The
\* entries are listed by the six bits that SBOX_MASK leaves of the key, in their order.
SBox1 ==
  <<14, 0, 4, 15, 13, 7, 1, 4, 2, 14, 15, 2, 11, 13, 8, 1, 3, 10, 10, 6, 6, 12,
    12, 11, 5, 9, 9, 5, 0, 3, 7, 8, 4, 15, 1, 12, 14, 8, 8, 2, 13, 4, 6, 9,
    2, 1, 11, 7, 15, 5, 12, 11, 9, 3, 7, 14, 3, 10, 10, 0, 5, 6, 0, 13>>
SBox2 ==
  <<15, 10, 2, 7, 4, 1, 13, 11, 9, 15, 14, 8, 10, 4, 1, 13, 6, 5, 11, 0, 8, 2,
    7, 12, 5, 9, 0, 6, 3, 14, 12, 3, 0, 7, 13, 4, 11, 12, 14, 2, 12, 10, 1, 15,
    7, 1, 2, 8, 3, 14, 4, 9, 5, 11, 9, 5, 6, 0, 10, 3, 8, 13, 15, 6>>
SBox3 ==
  <<3, 14, 0, 13, 10, 0, 7, 10, 5, 9, 9, 4, 15, 5, 12, 3, 8, 1, 14, 2, 6, 12,
    13, 7, 11, 6, 4, 11, 1, 15, 2, 8, 14, 8, 5, 3, 4, 14, 10, 0, 2, 5, 15, 10,
    9, 2, 0, 13, 11, 4, 8, 15, 1, 7, 6, 9, 12, 11, 3, 12, 7, 1, 13, 6>>
SBox4 ==
  <<14, 11, 11, 1, 7, 13, 12, 10, 0, 6, 6, 15, 9, 0, 5, 12, 8, 2, 4, 14, 1, 4,
    10, 3, 13, 8, 3, 5, 2, 7, 15, 9, 5, 12, 6, 15, 9, 0, 0, 6, 3, 5, 13, 8,
    14, 11, 11, 1, 15, 9, 8, 2, 12, 10, 7, 13, 10, 3, 4, 14, 1, 4, 2, 7>>
SBox5 ==
  <<1, 7, 6, 13, 2, 1, 8, 6, 11, 2, 5, 11, 13, 14, 3, 8, 4, 10, 10, 0, 9, 15,
    15, 5, 14, 9, 0, 12, 7, 4, 12, 3, 2, 13, 1, 4, 8, 6, 13, 11, 5, 8, 14, 7,
    11, 1, 4, 14, 15, 3, 12, 15, 6, 0, 10, 12, 3, 5, 9, 2, 0, 10, 7, 9>>
SBox6 ==
  <<9, 12, 2, 15, 12, 1, 15, 4, 10, 7, 4, 9, 5, 10, 8, 3, 0, 5, 11, 2, 6, 11,
    1, 13, 13, 0, 7, 14, 3, 6, 14, 8, 10, 1, 13, 6, 15, 4, 3, 9, 4, 10, 8, 3,
    9, 15, 6, 12, 7, 14, 0, 13, 1, 2, 12, 7, 2, 5, 11, 0, 14, 8, 5, 11>>
SBox7 ==
  <<4, 13, 11, 0, 2, 11, 7, 14, 15, 4, 0, 9, 1, 8, 13, 3, 10, 7, 5, 10, 9, 12,
    14, 5, 12, 2, 3, 15, 6, 1, 8, 6, 8, 6, 4, 11, 11, 13, 13, 1, 5, 8, 10, 4,
    14, 3, 7, 14, 3, 9, 15, 12, 6, 0, 1, 15, 0, 7, 12, 2, 9, 10, 2, 5>>
SBox8 ==
  <<11, 2, 4, 15, 8, 11, 1, 8, 5, 12, 15, 6, 14, 7, 2, 1, 12, 9, 10, 3, 6, 5,
    13, 14, 3, 0, 0, 13, 9, 10, 7, 4, 7, 4, 14, 2, 1, 13, 2, 7, 10, 1, 9, 12,
    13, 8, 4, 11, 0, 15, 5, 9, 12, 10, 11, 0, 15, 6, 6, 3, 3, 5, 8, 14>>
Nibbles == <<SBox1, SBox2, SBox3, SBox4, SBox5, SBox6, SBox7, SBox8>>
PBits ==
  <<<<1, 9, 15, 23>>, <<4, 14, 19, 30>>, <<2, 8, 16, 26>>, <<6, 12, 22, 31>>, <<7, 18, 24, 29>>,
    <<3, 13, 21, 28>>, <<0, 10, 20, 25>>, <<5, 11, 17, 27>>>>
SBOX_P ==
  LET entry(i, v) == Sum([p \in 1..4 |-> Shl(Small((Nibbles[i][v + 1] \div 2^(p - 1)) % 2), PBits[i][p])])
  IN  Strictly(LAMBDA n : [i \in 1..8 |-> [v \in 0..n |-> entry(i, v)]], 63)

\* A subkey as the six bits of each of its eight words that SBOX_MASK selects.
DESSubKeys(K) ==
  LET bitAt(pos) == (K[(pos \div 32) + 1][((pos \div 16) % 2) + 1] \div 2^(15 - (pos % 16))) % 2
      keyBits == Strictly(LAMBDA n : [i \in 0..n |-> bitAt(PC1[i + 1] - 1)], 55)
      from(n, k) == IF k <= 24 THEN keyBits[(PC2[k] - 1 + BIT_SHIFTS[n]) % 28]
                    ELSE keyBits[28 + ((PC2[k] - 1 + BIT_SHIFTS[n]) % 28)]
      six(n, i) == Sum([j \in 1..6 |-> Small(from(n, 6 * (i - 1) + j) * 2^(6 - j))])[2]
  IN  Strictly(LAMBDA m : [n \in 1..m |-> [i \in 1..8 |-> six(n, i)]], 16)
DESInverse(subKeys) == Reverse(subKeys)

exchangeLR(b, offset, mask) ==
  LET t == And(Xor(Shr(b[1], offset), b[2]), mask) IN <<Xor(b[1], Shl(t, offset)), Xor(b[2], t)>>
exchangeRL(b, offset, mask) ==
  LET t == And(Xor(Shr(b[2], offset), b[1]), mask) IN <<Xor(b[1], t), Xor(b[2], Shl(t, offset))>>

\* The permutation of the bits before the first round; each exchange undoes itself, and
\* the permutation after the last round is this one backwards.
Exchanges ==
  LET twice(n) == <<n, n>>
  IN  <<<<"LR", 4, twice(\h0f0f)>>, <<"LR", 16, <<0, \hffff>>>>, <<"RL", 2, twice(\h3333)>>,
        <<"RL", 8, twice(\h00ff)>>, <<"LR", 1, twice(\h5555)>>>>
Moved(b, e) == IF e[1] = "LR" THEN exchangeLR(b, e[2], e[3]) ELSE exchangeRL(b, e[2], e[3])

DESCrypt(M, subKeys) ==
  LET six(r, i) == Rotl(r, (4 * i + 1) % 32)[2] % 64
      f(r, k) == Sum([i \in 1..8 |-> SBOX_P[i][XorBytes(six(r, i), k[i])]])
      first == ForUp(LAMBDA b, n : Moved(b, Exchanges[n]), M, 1, 5)
      rounds == ForUp(LAMBDA b, n : <<b[2], Xor(b[1], f(b[2], subKeys[n]))>>, first, 1, 16)
  IN  ForUp(LAMBDA b, n : Moved(b, Exchanges[6 - n]), <<rounds[2], rounds[1]>>, 1, 5)

TripleDESKeys(K) == [n \in 1..3 |-> DESSubKeys(SubSeq(K, 2 * n - 1, 2 * n))]
TripleDESEncrypt(M, keys) ==
  DESCrypt(DESCrypt(DESCrypt(M, keys[1]), DESInverse(keys[2])), keys[3])
TripleDESDecrypt(M, keys) ==
  DESCrypt(DESCrypt(DESCrypt(M, DESInverse(keys[3])), keys[2]), DESInverse(keys[1]))
-----------------------------------------------------------------------------
(* RC4                                                                     *)

Exchanged(S, i, j) == [S EXCEPT ![i] = S[j], ![j] = S[i]]

RC4Reset(key) ==
  LET step(r, i) ==
        LET j == (r.j + r.S[i] + ByteAt(key.words, i % key.sigBytes)) % 256
        IN  [S |-> Exchanged(r.S, i, j), j |-> j]
  IN  [S |-> ForUp(step, [S |-> [i \in 0..255 |-> i], j |-> 0], 0, 255).S, i |-> 0, j |-> 0]

RC4Byte(r) ==
  LET i == (r.i + 1) % 256
      j == (r.j + r.S[i]) % 256
  IN  [S |-> Exchanged(r.S, i, j), i |-> i, j |-> j]

generateKeystreamWord(r0) ==
  LET step(r, n) ==
        LET s == RC4Byte(r.state)
        IN  [state |-> s, word |-> Or(r.word, AtByte(s.S[(s.S[s.i] + s.S[s.j]) % 256], n))]
  IN  ForUp(step, [state |-> r0, word |-> Zero], 0, 3)

RC4DropReset(key, drop) ==
  ForUp(LAMBDA r, i : generateKeystreamWord(r).state, RC4Reset(key), 1, drop)
-----------------------------------------------------------------------------
(* Rabbit                                                                  *)

LowOver(x, y) == <<x[2], y[1]>>   \* (x << 16) | (y >>> 16)
Halves(x, y) == <<x[1], y[2]>>    \* (x & 0xffff0000) | (y & 0x0000ffff)

\* The product of two numbers below 2^16.
Times(p, q) ==
  LET high == (p \div 256) * q
      low == (p % 256) * q
  IN  Add(<<high \div 256, (high % 256) * 256>>, Small(low))

\* The high and the low half of a square, mixed.
g(gx) ==
  LET ga == gx[2]
      gb == gx[1]
      cross == Times(ga, gb)
      gh == Add(Shr(Add(Shr(Times(ga, ga), 17), cross), 15), Times(gb, gb))
      gl == Add(Times(ga, ga), Shl(cross, 17))
  IN  Xor(gh, gl)

CounterSteps ==
  LET a == <<\h4d34, \hd34d>> b == <<\hd34d, \h34d3>> c == <<\h34d3, \h4d34>>
  IN  <<a, b, c, a, b, c, a, b>>

nextState(r) ==
  LET count(s, i) ==
        LET sum == Sum(<<r.C[i], CounterSteps[i], s.carry>>)
        IN  [C |-> Append(s.C, sum), carry |-> Carry(sum, r.C[i])]
      end == ForUp(count, [C |-> <<>>, carry |-> r.b], 1, 8)
      G == Strictly(LAMBDA n : [i \in 0..n |-> g(Add(r.X[i + 1], end.C[i + 1]))], 7)
      at(i) == G[(i + 8) % 8]
      mixed(i) == IF i % 2 = 0 THEN Sum(<<at(i), Rotl(at(i - 1), 16), Rotl(at(i - 2), 16)>>)
                  ELSE Sum(<<at(i), Rotl(at(i - 1), 8), at(i - 2)>>)
  IN  [X |-> [i \in 1..8 |-> mixed(i - 1)], C |-> end.C, b |-> end.carry]

FourTimes(r) == ForUp(LAMBDA s, i : nextState(s), r, 1, 4)

RabbitReset(K, iv) ==
  LET first ==
        [X |-> <<K[1], LowOver(K[4], K[3]), K[2], LowOver(K[1], K[4]),
                 K[3], LowOver(K[2], K[1]), K[4], LowOver(K[3], K[2])>>,
         C |-> <<Rotl(K[3], 16), Halves(K[1], K[2]), Rotl(K[4], 16), Halves(K[2], K[3]),
                 Rotl(K[1], 16), Halves(K[3], K[4]), Rotl(K[2], 16), Halves(K[4], K[1])>>,
         b |-> Zero]
      r == FourTimes(first)
      keyed == [r EXCEPT !.C = [i \in 1..8 |-> Xor(@[i], r.X[((i + 3) % 8) + 1])]]
      i0 == swapEndian(iv[1])
      i2 == swapEndian(iv[2])
      ivs == <<i0, <<i2[1], i0[1]>>, i2, <<i2[2], i0[2]>>>>
  IN  IF iv = <<>> THEN keyed
      ELSE FourTimes([keyed EXCEPT !.C = [i \in 1..8 |-> Xor(@[i], ivs[((i - 1) % 4) + 1])]])

RabbitBlock(r0) ==
  LET r == nextState(r0)
      X(i) == r.X[i + 1]
      word(i) == Xors(<<X(2 * i), Shr(X((2 * i + 5) % 8), 16), Shl(X((2 * i + 3) % 8), 16)>>)
  IN  [state |-> r, words |-> [i \in 1..4 |-> swapEndian(word(i - 1))]]
=============================================================================
