----------------------------- MODULE HashBlocks -----------------------------
(***************************************************************************)
(* The block functions of the hashes of CryptoJS, one operator for each    *)
(* _doProcessBlock: the words of the hash and of a block to the words of   *)
(* the hash.  Words of 64 bits are pairs of words, as in x64-core.js.      *)
(* The tables come first: the numbers the scripts compute with Math.sin    *)
(* and Math.pow, those they list, and the first words of each hash.        *)
(***************************************************************************)
EXTENDS WordArrays

-----------------------------------------------------------------------------
(* MD5: the first 32 bits of the fractions of sin(i), i = 1 to 64          *)
T ==
  <<<<\hd76a, \ha478>>, <<\he8c7, \hb756>>, <<\h2420, \h70db>>, <<\hc1bd, \hceee>>, <<\hf57c, \hfaf>>,
    <<\h4787, \hc62a>>, <<\ha830, \h4613>>, <<\hfd46, \h9501>>, <<\h6980, \h98d8>>, <<\h8b44, \hf7af>>,
    <<\hffff, \h5bb1>>, <<\h895c, \hd7be>>, <<\h6b90, \h1122>>, <<\hfd98, \h7193>>, <<\ha679, \h438e>>,
    <<\h49b4, \h821>>, <<\hf61e, \h2562>>, <<\hc040, \hb340>>, <<\h265e, \h5a51>>, <<\he9b6, \hc7aa>>,
    <<\hd62f, \h105d>>, <<\h244, \h1453>>, <<\hd8a1, \he681>>, <<\he7d3, \hfbc8>>, <<\h21e1, \hcde6>>,
    <<\hc337, \h7d6>>, <<\hf4d5, \hd87>>, <<\h455a, \h14ed>>, <<\ha9e3, \he905>>, <<\hfcef, \ha3f8>>,
    <<\h676f, \h2d9>>, <<\h8d2a, \h4c8a>>, <<\hfffa, \h3942>>, <<\h8771, \hf681>>, <<\h6d9d, \h6122>>,
    <<\hfde5, \h380c>>, <<\ha4be, \hea44>>, <<\h4bde, \hcfa9>>, <<\hf6bb, \h4b60>>, <<\hbebf, \hbc70>>,
    <<\h289b, \h7ec6>>, <<\heaa1, \h27fa>>, <<\hd4ef, \h3085>>, <<\h488, \h1d05>>, <<\hd9d4, \hd039>>,
    <<\he6db, \h99e5>>, <<\h1fa2, \h7cf8>>, <<\hc4ac, \h5665>>, <<\hf429, \h2244>>, <<\h432a, \hff97>>,
    <<\hab94, \h23a7>>, <<\hfc93, \ha039>>, <<\h655b, \h59c3>>, <<\h8f0c, \hcc92>>, <<\hffef, \hf47d>>,
    <<\h8584, \h5dd1>>, <<\h6fa8, \h7e4f>>, <<\hfe2c, \he6e0>>, <<\ha301, \h4314>>, <<\h4e08, \h11a1>>,
    <<\hf753, \h7e82>>, <<\hbd3a, \hf235>>, <<\h2ad7, \hd2bb>>, <<\heb86, \hd391>>>>
FirstMD5 ==
  <<<<\h6745, \h2301>>, <<\hefcd, \hab89>>, <<\h98ba, \hdcfe>>, <<\h1032, \h5476>>>>
-----------------------------------------------------------------------------
(* SHA-1                                                                   *)
FirstSHA1 ==
  <<<<\h6745, \h2301>>, <<\hefcd, \hab89>>, <<\h98ba, \hdcfe>>, <<\h1032, \h5476>>, <<\hc3d2, \he1f0>>>>
-----------------------------------------------------------------------------
(* SHA-256: of the cube roots of the first 64 primes, the square roots of  *)
(* the first 8                                                             *)
K256 ==
  <<<<\h428a, \h2f98>>, <<\h7137, \h4491>>, <<\hb5c0, \hfbcf>>, <<\he9b5, \hdba5>>, <<\h3956, \hc25b>>,
    <<\h59f1, \h11f1>>, <<\h923f, \h82a4>>, <<\hab1c, \h5ed5>>, <<\hd807, \haa98>>, <<\h1283, \h5b01>>,
    <<\h2431, \h85be>>, <<\h550c, \h7dc3>>, <<\h72be, \h5d74>>, <<\h80de, \hb1fe>>, <<\h9bdc, \h6a7>>,
    <<\hc19b, \hf174>>, <<\he49b, \h69c1>>, <<\hefbe, \h4786>>, <<\hfc1, \h9dc6>>, <<\h240c, \ha1cc>>,
    <<\h2de9, \h2c6f>>, <<\h4a74, \h84aa>>, <<\h5cb0, \ha9dc>>, <<\h76f9, \h88da>>, <<\h983e, \h5152>>,
    <<\ha831, \hc66d>>, <<\hb003, \h27c8>>, <<\hbf59, \h7fc7>>, <<\hc6e0, \hbf3>>, <<\hd5a7, \h9147>>,
    <<\h6ca, \h6351>>, <<\h1429, \h2967>>, <<\h27b7, \ha85>>, <<\h2e1b, \h2138>>, <<\h4d2c, \h6dfc>>,
    <<\h5338, \hd13>>, <<\h650a, \h7354>>, <<\h766a, \habb>>, <<\h81c2, \hc92e>>, <<\h9272, \h2c85>>,
    <<\ha2bf, \he8a1>>, <<\ha81a, \h664b>>, <<\hc24b, \h8b70>>, <<\hc76c, \h51a3>>, <<\hd192, \he819>>,
    <<\hd699, \h624>>, <<\hf40e, \h3585>>, <<\h106a, \ha070>>, <<\h19a4, \hc116>>, <<\h1e37, \h6c08>>,
    <<\h2748, \h774c>>, <<\h34b0, \hbcb5>>, <<\h391c, \hcb3>>, <<\h4ed8, \haa4a>>, <<\h5b9c, \hca4f>>,
    <<\h682e, \h6ff3>>, <<\h748f, \h82ee>>, <<\h78a5, \h636f>>, <<\h84c8, \h7814>>, <<\h8cc7, \h208>>,
    <<\h90be, \hfffa>>, <<\ha450, \h6ceb>>, <<\hbef9, \ha3f7>>, <<\hc671, \h78f2>>>>
FirstSHA256 ==
  <<<<\h6a09, \he667>>, <<\hbb67, \hae85>>, <<\h3c6e, \hf372>>, <<\ha54f, \hf53a>>, <<\h510e, \h527f>>,
    <<\h9b05, \h688c>>, <<\h1f83, \hd9ab>>, <<\h5be0, \hcd19>>>>
-----------------------------------------------------------------------------
(* SHA-224                                                                 *)
FirstSHA224 ==
  <<<<\hc105, \h9ed8>>, <<\h367c, \hd507>>, <<\h3070, \hdd17>>, <<\hf70e, \h5939>>, <<\hffc0, \hb31>>,
    <<\h6858, \h1511>>, <<\h64f9, \h8fa7>>, <<\hbefa, \h4fa4>>>>
-----------------------------------------------------------------------------
(* SHA-512 and SHA-384: words of 64 bits, in K512 as pairs                  *)
K512 ==
  <<<<<<\h428a, \h2f98>>, <<\hd728, \hae22>>>>, <<<<\h7137, \h4491>>, <<\h23ef, \h65cd>>>>,
    <<<<\hb5c0, \hfbcf>>, <<\hec4d, \h3b2f>>>>, <<<<\he9b5, \hdba5>>, <<\h8189, \hdbbc>>>>,
    <<<<\h3956, \hc25b>>, <<\hf348, \hb538>>>>, <<<<\h59f1, \h11f1>>, <<\hb605, \hd019>>>>,
    <<<<\h923f, \h82a4>>, <<\haf19, \h4f9b>>>>, <<<<\hab1c, \h5ed5>>, <<\hda6d, \h8118>>>>,
    <<<<\hd807, \haa98>>, <<\ha303, \h242>>>>, <<<<\h1283, \h5b01>>, <<\h4570, \h6fbe>>>>,
    <<<<\h2431, \h85be>>, <<\h4ee4, \hb28c>>>>, <<<<\h550c, \h7dc3>>, <<\hd5ff, \hb4e2>>>>,
    <<<<\h72be, \h5d74>>, <<\hf27b, \h896f>>>>, <<<<\h80de, \hb1fe>>, <<\h3b16, \h96b1>>>>,
    <<<<\h9bdc, \h6a7>>, <<\h25c7, \h1235>>>>, <<<<\hc19b, \hf174>>, <<\hcf69, \h2694>>>>,
    <<<<\he49b, \h69c1>>, <<\h9ef1, \h4ad2>>>>, <<<<\hefbe, \h4786>>, <<\h384f, \h25e3>>>>,
    <<<<\hfc1, \h9dc6>>, <<\h8b8c, \hd5b5>>>>, <<<<\h240c, \ha1cc>>, <<\h77ac, \h9c65>>>>,
    <<<<\h2de9, \h2c6f>>, <<\h592b, \h275>>>>, <<<<\h4a74, \h84aa>>, <<\h6ea6, \he483>>>>,
    <<<<\h5cb0, \ha9dc>>, <<\hbd41, \hfbd4>>>>, <<<<\h76f9, \h88da>>, <<\h8311, \h53b5>>>>,
    <<<<\h983e, \h5152>>, <<\hee66, \hdfab>>>>, <<<<\ha831, \hc66d>>, <<\h2db4, \h3210>>>>,
    <<<<\hb003, \h27c8>>, <<\h98fb, \h213f>>>>, <<<<\hbf59, \h7fc7>>, <<\hbeef, \hee4>>>>,
    <<<<\hc6e0, \hbf3>>, <<\h3da8, \h8fc2>>>>, <<<<\hd5a7, \h9147>>, <<\h930a, \ha725>>>>,
    <<<<\h6ca, \h6351>>, <<\he003, \h826f>>>>, <<<<\h1429, \h2967>>, <<\ha0e, \h6e70>>>>,
    <<<<\h27b7, \ha85>>, <<\h46d2, \h2ffc>>>>, <<<<\h2e1b, \h2138>>, <<\h5c26, \hc926>>>>,
    <<<<\h4d2c, \h6dfc>>, <<\h5ac4, \h2aed>>>>, <<<<\h5338, \hd13>>, <<\h9d95, \hb3df>>>>,
    <<<<\h650a, \h7354>>, <<\h8baf, \h63de>>>>, <<<<\h766a, \habb>>, <<\h3c77, \hb2a8>>>>,
    <<<<\h81c2, \hc92e>>, <<\h47ed, \haee6>>>>, <<<<\h9272, \h2c85>>, <<\h1482, \h353b>>>>,
    <<<<\ha2bf, \he8a1>>, <<\h4cf1, \h364>>>>, <<<<\ha81a, \h664b>>, <<\hbc42, \h3001>>>>,
    <<<<\hc24b, \h8b70>>, <<\hd0f8, \h9791>>>>, <<<<\hc76c, \h51a3>>, <<\h654, \hbe30>>>>,
    <<<<\hd192, \he819>>, <<\hd6ef, \h5218>>>>, <<<<\hd699, \h624>>, <<\h5565, \ha910>>>>,
    <<<<\hf40e, \h3585>>, <<\h5771, \h202a>>>>, <<<<\h106a, \ha070>>, <<\h32bb, \hd1b8>>>>,
    <<<<\h19a4, \hc116>>, <<\hb8d2, \hd0c8>>>>, <<<<\h1e37, \h6c08>>, <<\h5141, \hab53>>>>,
    <<<<\h2748, \h774c>>, <<\hdf8e, \heb99>>>>, <<<<\h34b0, \hbcb5>>, <<\he19b, \h48a8>>>>,
    <<<<\h391c, \hcb3>>, <<\hc5c9, \h5a63>>>>, <<<<\h4ed8, \haa4a>>, <<\he341, \h8acb>>>>,
    <<<<\h5b9c, \hca4f>>, <<\h7763, \he373>>>>, <<<<\h682e, \h6ff3>>, <<\hd6b2, \hb8a3>>>>,
    <<<<\h748f, \h82ee>>, <<\h5def, \hb2fc>>>>, <<<<\h78a5, \h636f>>, <<\h4317, \h2f60>>>>,
    <<<<\h84c8, \h7814>>, <<\ha1f0, \hab72>>>>, <<<<\h8cc7, \h208>>, <<\h1a64, \h39ec>>>>,
    <<<<\h90be, \hfffa>>, <<\h2363, \h1e28>>>>, <<<<\ha450, \h6ceb>>, <<\hde82, \hbde9>>>>,
    <<<<\hbef9, \ha3f7>>, <<\hb2c6, \h7915>>>>, <<<<\hc671, \h78f2>>, <<\he372, \h532b>>>>,
    <<<<\hca27, \h3ece>>, <<\hea26, \h619c>>>>, <<<<\hd186, \hb8c7>>, <<\h21c0, \hc207>>>>,
    <<<<\heada, \h7dd6>>, <<\hcde0, \heb1e>>>>, <<<<\hf57d, \h4f7f>>, <<\hee6e, \hd178>>>>,
    <<<<\h6f0, \h67aa>>, <<\h7217, \h6fba>>>>, <<<<\ha63, \h7dc5>>, <<\ha2c8, \h98a6>>>>,
    <<<<\h113f, \h9804>>, <<\hbef9, \hdae>>>>, <<<<\h1b71, \hb35>>, <<\h131c, \h471b>>>>,
    <<<<\h28db, \h77f5>>, <<\h2304, \h7d84>>>>, <<<<\h32ca, \hab7b>>, <<\h40c7, \h2493>>>>,
    <<<<\h3c9e, \hbe0a>>, <<\h15c9, \hbebc>>>>, <<<<\h431d, \h67c4>>, <<\h9c10, \hd4c>>>>,
    <<<<\h4cc5, \hd4be>>, <<\hcb3e, \h42b6>>>>, <<<<\h597f, \h299c>>, <<\hfc65, \h7e2a>>>>,
    <<<<\h5fcb, \h6fab>>, <<\h3ad6, \hfaec>>>>, <<<<\h6c44, \h198c>>, <<\h4a47, \h5817>>>>>>
FirstSHA512 ==
  <<<<\h6a09, \he667>>, <<\hf3bc, \hc908>>, <<\hbb67, \hae85>>, <<\h84ca, \ha73b>>, <<\h3c6e, \hf372>>,
    <<\hfe94, \hf82b>>, <<\ha54f, \hf53a>>, <<\h5f1d, \h36f1>>, <<\h510e, \h527f>>, <<\hade6, \h82d1>>,
    <<\h9b05, \h688c>>, <<\h2b3e, \h6c1f>>, <<\h1f83, \hd9ab>>, <<\hfb41, \hbd6b>>, <<\h5be0, \hcd19>>,
    <<\h137e, \h2179>>>>
FirstSHA384 ==
  <<<<\hcbbb, \h9d5d>>, <<\hc105, \h9ed8>>, <<\h629a, \h292a>>, <<\h367c, \hd507>>, <<\h9159, \h15a>>,
    <<\h3070, \hdd17>>, <<\h152f, \hecd8>>, <<\hf70e, \h5939>>, <<\h6733, \h2667>>, <<\hffc0, \hb31>>,
    <<\h8eb4, \h4a87>>, <<\h6858, \h1511>>, <<\hdb0c, \h2e0d>>, <<\h64f9, \h8fa7>>, <<\h47b5, \h481d>>,
    <<\hbefa, \h4fa4>>>>
-----------------------------------------------------------------------------
(* RIPEMD-160                                                              *)
zl == <<0, 1, 2, 3, 4, 5, 6, 7, 8, 9, 10, 11, 12, 13, 14, 15, 7, 4, 13, 1, 10, 6, 15, 3, 12, 0, 9, 5, 2, 14, 11, 8,
        3, 10, 14, 4, 9, 15, 8, 1, 2, 7, 0, 6, 13, 11, 5, 12, 1, 9, 11, 10, 0, 8, 12, 4, 13, 3, 7, 15, 14, 5, 6, 2,
        4, 0, 5, 9, 7, 12, 2, 10, 14, 1, 3, 8, 11, 6, 15, 13>>
zr == <<5, 14, 7, 0, 9, 2, 11, 4, 13, 6, 15, 8, 1, 10, 3, 12, 6, 11, 3, 7, 0, 13, 5, 10, 14, 15, 8, 12, 4, 9, 1, 2,
        15, 5, 1, 3, 7, 14, 6, 9, 11, 8, 12, 2, 10, 0, 4, 13, 8, 6, 4, 1, 3, 11, 15, 0, 5, 12, 2, 13, 9, 7, 10, 14,
        12, 15, 10, 4, 1, 5, 8, 7, 6, 2, 13, 14, 0, 3, 9, 11>>
sl == <<11, 14, 15, 12, 5, 8, 7, 9, 11, 13, 14, 15, 6, 7, 9, 8, 7, 6, 8, 13, 11, 9, 7, 15, 7, 12, 15, 9, 11, 7, 13, 12,
        11, 13, 6, 7, 14, 9, 13, 15, 14, 8, 13, 6, 5, 12, 7, 5, 11, 12, 14, 15, 14, 15, 9, 8, 9, 14, 5, 6, 8, 6, 5, 12,
        9, 15, 5, 11, 6, 8, 13, 12, 5, 12, 13, 14, 11, 8, 5, 6>>
sr == <<8, 9, 9, 11, 13, 15, 15, 5, 7, 7, 8, 11, 14, 14, 12, 6, 9, 13, 15, 7, 12, 8, 9, 11, 7, 7, 12, 7, 6, 15, 13, 11,
        9, 7, 15, 11, 8, 6, 6, 14, 12, 13, 5, 14, 13, 13, 7, 5, 15, 5, 8, 11, 14, 14, 6, 14, 6, 9, 12, 9, 12, 5, 15, 8,
        8, 5, 12, 9, 12, 5, 14, 6, 8, 13, 6, 5, 15, 13, 11, 11>>
hl == <<<<\h0, \h0>>, <<\h5a82, \h7999>>, <<\h6ed9, \heba1>>, <<\h8f1b, \hbcdc>>, <<\ha953, \hfd4e>>>>
hr == <<<<\h50a2, \h8be6>>, <<\h5c4d, \hd124>>, <<\h6d70, \h3ef3>>, <<\h7a6d, \h76e9>>, <<\h0, \h0>>>>
-----------------------------------------------------------------------------
(* The blocks                                                              *)

\* for (i = m; i <= n; i++) s = op(s, i), halved again and again to keep recursion shallow.
ForUp(op(_, _), s, m, n) ==
  LET RECURSIVE from(_, _, _)
      from(r, i, j) ==
        IF i = j THEN op(r, i)
        ELSE LET mid == (i + j) \div 2 IN Strictly(LAMBDA q : from(q, mid + 1, j), from(r, i, mid))
  IN  IF n < m THEN s ELSE from(s, m, n)

Plus(x, y) == [i \in DOMAIN x |-> Add(x[i], y[i])]
Swapped(words) == [i \in DOMAIN words |-> swapEndian(words[i])]
RECURSIVE Sum(_)
Sum(words) == IF Len(words) = 1 THEN words[1] ELSE Add(words[1], Sum(Tail(words)))
RECURSIVE Xors(_)
Xors(words) == IF Len(words) = 1 THEN words[1] ELSE Xor(words[1], Xors(Tail(words)))
-----------------------------------------------------------------------------
(* MD5: FF, GG, HH and II, sixteen times each                              *)

MD5Mix(i, b, c, d) ==
  CASE i < 16 -> Or(And(b, c), And(Not(b), d))
    [] i \in 16..31 -> Or(And(b, d), And(c, Not(d)))
    [] i \in 32..47 -> Xor(b, Xor(c, d))
    [] i > 47 -> Xor(c, Or(b, Not(d)))
MD5Word(i) ==
  CASE i < 16 -> i
    [] i \in 16..31 -> (5 * i + 1) % 16
    [] i \in 32..47 -> (3 * i + 5) % 16
    [] i > 47 -> (7 * i) % 16
MD5Shifts == <<<<7, 12, 17, 22>>, <<5, 9, 14, 20>>, <<4, 11, 16, 23>>, <<6, 10, 15, 21>>>>

MD5Block(H, block) ==
  LET M == Swapped(block)
      round(s, i) ==
        LET n == Sum(<<s[1], MD5Mix(i, s[2], s[3], s[4]), M[MD5Word(i) + 1], T[i + 1]>>)
            r == MD5Shifts[i \div 16 + 1][(i % 4) + 1]
        IN  <<s[4], Add(Rotl(n, r), s[2]), s[2], s[3]>>
  IN  Plus(H, ForUp(round, H, 0, 63))
-----------------------------------------------------------------------------
(* SHA-1                                                                   *)

SHA1Schedule(M) ==
  ForUp(LAMBDA W, i : Append(W, Rotl(Xors(<<W[i - 3], W[i - 8], W[i - 14], W[i - 16]>>), 1)),
           M, 17, 80)

SHA1Mix(i, b, c, d) ==
  CASE i < 20 -> Add(Or(And(b, c), And(Not(b), d)), <<\h5a82, \h7999>>)
    [] i \in 20..39 -> Add(Xor(b, Xor(c, d)), <<\h6ed9, \heba1>>)
    [] i \in 40..59 -> Add(Or(Or(And(b, c), And(b, d)), And(c, d)), <<\h8f1b, \hbcdc>>)
    [] i > 59 -> Add(Xor(b, Xor(c, d)), <<\hca62, \hc1d6>>)

SHA1Block(H, M) ==
  LET W == SHA1Schedule(M)
      round(s, i) ==
        LET t == Sum(<<Rotl(s[1], 5), s[5], W[i + 1], SHA1Mix(i, s[2], s[3], s[4])>>)
        IN  <<t, s[1], Rotl(s[2], 30), s[3], s[4]>>
  IN  Plus(H, ForUp(round, H, 0, 79))
-----------------------------------------------------------------------------
(* SHA-256 and SHA-224                                                     *)

SHA256Schedule(M) ==
  LET gamma0(x) == Xors(<<Rotr(x, 7), Rotr(x, 18), Shr(x, 3)>>)
      gamma1(x) == Xors(<<Rotr(x, 17), Rotr(x, 19), Shr(x, 10)>>)
  IN  ForUp(LAMBDA W, i : Append(W, Sum(<<gamma0(W[i - 15]), W[i - 7], gamma1(W[i - 2]), W[i - 16]>>)),
               M, 17, 64)

SHA256Rounds(H, W) ==
  LET ch(e, f, g) == Xor(And(e, f), And(Not(e), g))
      maj(a, b, c) == Xors(<<And(a, b), And(a, c), And(b, c)>>)
      sigma0(a) == Xors(<<Rotr(a, 2), Rotr(a, 13), Rotr(a, 22)>>)
      sigma1(e) == Xors(<<Rotr(e, 6), Rotr(e, 11), Rotr(e, 25)>>)
      round(s, i) ==
        LET t1 == Sum(<<s[8], sigma1(s[5]), ch(s[5], s[6], s[7]), K256[i], W[i]>>)
            t2 == Add(sigma0(s[1]), maj(s[1], s[2], s[3]))
        IN  <<Add(t1, t2), s[1], s[2], s[3], Add(s[4], t1), s[5], s[6], s[7]>>
  IN  Plus(H, ForUp(round, H, 1, 64))
SHA256Block(H, M) == Strictly(LAMBDA W : SHA256Rounds(H, W), SHA256Schedule(M))
-----------------------------------------------------------------------------
(* SHA-512 and SHA-384: the sum carries if its lower word is below that of *)
(* the first operand                                                       *)

X64(words) == [i \in 1..Len(words) \div 2 |-> <<words[2 * i - 1], words[2 * i]>>]
toX32(pairs) == FlattenSeq(pairs)

\* Mutant: the sum never carries.
Add64NoCarry(x, y) == <<Add(x[1], y[1]), Add(x[2], y[2])>>

Add64(x, y) ==
  LET low == Add(x[2], y[2]) IN <<Sum(<<x[1], y[1], Carry(low, x[2])>>), low>>

Rotr64(x, n) ==
  LET p == IF n > 32 THEN <<x[2], x[1]>> ELSE x
      k == IF n > 32 THEN n - 32 ELSE n
      low(u, v) == Or(Shr(u, k), Shl(v, 32 - k))
  IN  <<low(p[1], p[2]), low(p[2], p[1])>>
Shr64(x, n) == <<Shr(x[1], n), Or(Shr(x[2], n), Shl(x[1], 32 - n))>>
Xor64(x, y) == <<Xor(x[1], y[1]), Xor(x[2], y[2])>>
And64(x, y) == <<And(x[1], y[1]), And(x[2], y[2])>>
Not64(x) == <<Not(x[1]), Not(x[2])>>

SHA512Schedule(M) ==
  LET gamma0(x) == Xor64(Xor64(Rotr64(x, 1), Rotr64(x, 8)), Shr64(x, 7))
      gamma1(x) == Xor64(Xor64(Rotr64(x, 19), Rotr64(x, 61)), Shr64(x, 6))
      next(W, i) == Add64(W[i - 16], Add64(gamma1(W[i - 2]), Add64(gamma0(W[i - 15]), W[i - 7])))
  IN  ForUp(LAMBDA W, i : Append(W, next(W, i)), X64(M), 17, 80)

SHA512Rounds(H, W) ==
  LET ch(e, f, g) == Xor64(And64(e, f), And64(Not64(e), g))
      maj(a, b, c) == Xor64(Xor64(And64(a, b), And64(a, c)), And64(b, c))
      sigma0(a) == Xor64(Xor64(Rotr64(a, 28), Rotr64(a, 34)), Rotr64(a, 39))
      sigma1(e) == Xor64(Xor64(Rotr64(e, 14), Rotr64(e, 18)), Rotr64(e, 41))
      round(s, i) ==
        LET t0 == Add64(ch(s[5], s[6], s[7]), Add64(s[8], sigma1(s[5])))
            t1 == Add64(W[i], Add64(K512[i], t0))
            t2 == Add64(sigma0(s[1]), maj(s[1], s[2], s[3]))
        IN  <<Add64(t1, t2), s[1], s[2], s[3], Add64(s[4], t1), s[5], s[6], s[7]>>
      end == ForUp(round, X64(H), 1, 80)
  IN  toX32([i \in 1..8 |-> Add64(end[i], X64(H)[i])])
SHA512Block(H, M) == Strictly(LAMBDA W : SHA512Rounds(H, W), SHA512Schedule(M))
-----------------------------------------------------------------------------
(* RIPEMD-160: two lines, the second with the functions in reverse         *)

RIPEMDMix(n, x, y, z) ==
  CASE n = 1 -> Xors(<<x, y, z>>)
    [] n = 2 -> Or(And(x, y), And(Not(x), z))
    [] n = 3 -> Xor(Or(x, Not(y)), z)
    [] n = 4 -> Or(And(x, z), And(y, Not(z)))
    [] n = 5 -> Xor(x, Or(y, Not(z)))

RIPEMD160Block(H, block) ==
  LET M == Swapped(block)
      line(s, f, m, r, k) ==
        LET t == Sum(<<s[1], M[m + 1], RIPEMDMix(f, s[2], s[3], s[4]), k>>)
        IN  <<s[5], Add(Rotl(t, r), s[5]), s[2], Rotl(s[3], 10), s[4]>>
      round(p, i) ==
        LET n == (i - 1) \div 16 + 1
        IN  <<line(p[1], n, zl[i], sl[i], hl[n]), line(p[2], 6 - n, zr[i], sr[i], hr[n])>>
      end == ForUp(round, <<H, H>>, 1, 80)
      at(i) == (i % 5) + 1
  IN  [i \in 1..5 |-> Sum(<<H[at(i)], end[1][at(i + 1)], end[2][at(i + 2)]>>)]
-----------------------------------------------------------------------------
(* SHA-3: 25 lanes, lane x + 5 * y                                         *)

\* The walk over the lanes that gives the offsets of rho.
RhoOffsets ==
  LET step(r, t) ==
        [x |-> r.y % 5, y |-> (2 * r.x + 3 * r.y) % 5,
         at |-> [r.at EXCEPT ![r.x + 5 * r.y] = (((t + 1) * (t + 2)) \div 2) % 64]]
  IN  ForUp(step, [x |-> 1, y |-> 0, at |-> [i \in 0..24 |-> 0]], 0, 23).at
PiIndex(i) == LET x == i % 5 y == i \div 5 IN y + ((2 * x + 3 * y) % 5) * 5

\* Bits 2^j - 1 of the round constants come from a feedback register.
RoundConstants ==
  LET bit(n) == IF n < 32 THEN <<Zero, Shl(Small(1), n)>> ELSE <<Shl(Small(1), n - 32), Zero>>
      feed(l) == IF l >= 128 THEN Xor(Small(2 * l), Small(\h171))[2] ELSE 2 * l
      step(r, j) ==
        [LFSR |-> feed(r.LFSR), c |-> IF r.LFSR % 2 = 1 THEN Xor64(r.c, bit(2^j - 1)) ELSE r.c]
      round(r, i) ==
        LET end == ForUp(step, [LFSR |-> r.LFSR, c |-> <<Zero, Zero>>], 0, 6)
        IN  [LFSR |-> end.LFSR, all |-> Append(r.all, end.c)]
  IN  ForUp(round, [LFSR |-> 1, all |-> <<>>], 1, 24).all

Rotl64(x, n) == IF n % 32 = 0 THEN (IF n = 0 THEN x ELSE <<x[2], x[1]>>) ELSE Rotr64(x, 64 - n)

Keccak(state, round) ==
  LET column(x) == LET c(y) == state[x + 5 * y]
                   IN  Xor64(Xor64(Xor64(c(0), c(1)), Xor64(c(2), c(3))), c(4))
      columns == Strictly(LAMBDA n : [x \in 0..n |-> column(x)], 4)
      theta(i) == Xor64(state[i], Xor64(columns[(i + 4) % 5], Rotl64(columns[(i + 1) % 5], 1)))
      moved == Strictly(LAMBDA n : [j \in 0..n |->
             LET i == CHOOSE k \in 0..n : PiIndex(k) = j IN Rotl64(theta(i), RhoOffsets[i])], 24)
      chi(i) == LET lane(n) == moved[((i + n) % 5) + 5 * (i \div 5)]
                IN  Xor64(moved[i], And64(Not64(lane(1)), lane(2)))
      iota(n) == [i \in 0..n |-> IF i = 0 THEN Xor64(chi(0), RoundConstants[round]) ELSE chi(i)]
  IN  Strictly(iota, 24)

FirstSHA3 == [i \in 1..50 |-> Zero]

\* H has the 25 lanes as 50 words; a lane has its lower word first in the block.
SHA3Block(H, M) ==
  LET lanes == X64(H)
      in == X64(Swapped(M))
      state == [i \in 0..24 |-> IF i < Len(in) THEN Xor64(lanes[i + 1], <<in[i + 1][2], in[i + 1][1]>>)
                                ELSE lanes[i + 1]]
      end == ForUp(Keccak, state, 1, 24)
  IN  toX32([i \in 1..25 |-> end[i - 1]])
=============================================================================
