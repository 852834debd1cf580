------------------------------ MODULE Sha256 ------------------------------
(***************************************************************************)
(* SHA-256 as kernel/sha256.c computes it (user/sha256.c holds the same    *)
(* text), for the strings sys_get_sha256 is given and for the files the    *)
(* program user/sha256.c reads.  A 32-bit word is the set of its one bits; *)
(* a step is one byte of sha256_update or one iteration of a loop of       *)
(* sha256_transform.                                                       *)
(***************************************************************************)
EXTENDS Integers, Sequences

CONSTANTS Inputs,       \* [file, bytes]: a string argument, or a file to read
          BUFSIZE,      \* sizeof(buffer) of user/sha256.c
          Stack         \* what the uninitialised buffer happens to hold

VARIABLES input, buffer, unread,    \* user/sha256.c's loop over the file
          todo, sha, work, hash     \* the computation

Sha256Vars == <<input, buffer, unread, todo, sha, work, hash>>

W(hi, lo) == {b \in 0 .. 15 : (lo \div 2^b) % 2 = 1}
             \cup {b + 16 : b \in {b \in 0 .. 15 : (hi \div 2^b) % 2 = 1}}
Xor(x, y) == (x \ y) \cup (y \ x)
ROTRIGHT(x, n) == {(b + 32 - n) % 32 : b \in x}
Shr(x, n) == {b - n : b \in {c \in x : c >= n}}

\* Addition modulo 2^32: the sum without carries, and the carries moved up.
RECURSIVE Plus(_, _)
Plus(x, y) ==
  IF y = {} THEN x
  ELSE Plus(Xor(x, y), {b + 1 : b \in (x \cap y) \ {31}})

CH(x, y, z) == Xor(x \cap y, z \ x)
MAJ(x, y, z) == Xor(Xor(x \cap y, x \cap z), y \cap z)
EP0(x) == Xor(Xor(ROTRIGHT(x, 2), ROTRIGHT(x, 13)), ROTRIGHT(x, 22))
EP1(x) == Xor(Xor(ROTRIGHT(x, 6), ROTRIGHT(x, 11)), ROTRIGHT(x, 25))
SIG0(x) == Xor(Xor(ROTRIGHT(x, 7), ROTRIGHT(x, 18)), Shr(x, 3))
SIG1(x) == Xor(Xor(ROTRIGHT(x, 17), ROTRIGHT(x, 19)), Shr(x, 10))

k == <<
    W(\h428a, \h2f98), W(\h7137, \h4491), W(\hb5c0, \hfbcf), W(\he9b5, \hdba5),
    W(\h3956, \hc25b), W(\h59f1, \h11f1), W(\h923f, \h82a4), W(\hab1c, \h5ed5),
    W(\hd807, \haa98), W(\h1283, \h5b01), W(\h2431, \h85be), W(\h550c, \h7dc3),
    W(\h72be, \h5d74), W(\h80de, \hb1fe), W(\h9bdc, \h06a7), W(\hc19b, \hf174),
    W(\he49b, \h69c1), W(\hefbe, \h4786), W(\h0fc1, \h9dc6), W(\h240c, \ha1cc),
    W(\h2de9, \h2c6f), W(\h4a74, \h84aa), W(\h5cb0, \ha9dc), W(\h76f9, \h88da),
    W(\h983e, \h5152), W(\ha831, \hc66d), W(\hb003, \h27c8), W(\hbf59, \h7fc7),
    W(\hc6e0, \h0bf3), W(\hd5a7, \h9147), W(\h06ca, \h6351), W(\h1429, \h2967),
    W(\h27b7, \h0a85), W(\h2e1b, \h2138), W(\h4d2c, \h6dfc), W(\h5338, \h0d13),
    W(\h650a, \h7354), W(\h766a, \h0abb), W(\h81c2, \hc92e), W(\h9272, \h2c85),
    W(\ha2bf, \he8a1), W(\ha81a, \h664b), W(\hc24b, \h8b70), W(\hc76c, \h51a3),
    W(\hd192, \he819), W(\hd699, \h0624), W(\hf40e, \h3585), W(\h106a, \ha070),
    W(\h19a4, \hc116), W(\h1e37, \h6c08), W(\h2748, \h774c), W(\h34b0, \hbcb5),
    W(\h391c, \h0cb3), W(\h4ed8, \haa4a), W(\h5b9c, \hca4f), W(\h682e, \h6ff3),
    W(\h748f, \h82ee), W(\h78a5, \h636f), W(\h84c8, \h7814), W(\h8cc7, \h0208),
    W(\h90be, \hfffa), W(\ha450, \h6ceb), W(\hbef9, \ha3f7), W(\hc671, \h78f2) >>

sha256_init ==
  [data |-> <<>>, bitlen |-> 0, state |-> <<
    W(\h6a09, \he667), W(\hbb67, \hae85), W(\h3c6e, \hf372), W(\ha54f, \hf53a),
    W(\h510e, \h527f), W(\h9b05, \h688c), W(\h1f83, \hd9ab), W(\h5be0, \hcd19) >>]

\* No transform running, or one on a 64-byte block, after which `then` runs.
Ready == [m |-> <<>>, r |-> <<>>, i |-> 0, then |-> "update"]
Transform(block, then) ==
  [m |-> [j \in 1 .. 16 |-> W(256 * block[4 * j - 3] + block[4 * j - 2],
                              256 * block[4 * j - 1] + block[4 * j])],
   r |-> <<>>, i |-> 0, then |-> then]
AtStep(pc) == work.m = <<>> /\ work.then = pc

Sha256Init ==
  /\ input \in Inputs
  /\ buffer = Stack /\ unread = input.bytes
  /\ todo = IF input.file THEN <<>> ELSE input.bytes
  /\ sha = sha256_init /\ hash = <<>>
  /\ work = [Ready EXCEPT !.then = IF input.file THEN "read" ELSE "update"]

\* main of user/sha256.c: each read fills the buffer from its start, and its last
\* byte becomes the terminator; what is hashed is the string the buffer holds.
StrLen(s) == IF \E i \in DOMAIN s : s[i] = 0
             THEN (CHOOSE i \in DOMAIN s : s[i] = 0 /\ \A j \in 1 .. i - 1 : s[j] # 0) - 1
             ELSE Len(s)
read_chunk ==
  LET n == IF Len(unread) < BUFSIZE THEN Len(unread) ELSE BUFSIZE IN
  /\ AtStep("read")
  /\ IF n > 0
     THEN /\ buffer' = SubSeq(unread, 1, n - 1) \o <<0>> \o SubSeq(buffer, n + 1, Len(buffer))
          /\ unread' = SubSeq(unread, n + 1, Len(unread))
          /\ UNCHANGED <<todo, work>>
     ELSE /\ todo' = SubSeq(buffer, 1, StrLen(buffer))
          /\ work' = Ready
          /\ UNCHANGED <<buffer, unread>>
  /\ UNCHANGED <<input, sha, hash>>

\* One byte of sha256_update.
sha256_update ==
  LET data == Append(sha.data, Head(todo)) IN
  /\ AtStep("update") /\ todo # <<>>
  /\ todo' = Tail(todo)
  /\ IF Len(data) = 64
     THEN /\ work' = Transform(data, "update")
          /\ sha' = [sha EXCEPT !.data = <<>>, !.bitlen = @ + 512]
     ELSE sha' = [sha EXCEPT !.data = data] /\ UNCHANGED work
  /\ UNCHANGED <<input, buffer, unread, hash>>

schedule ==
  LET m == work.m
      i == Len(m) + 1 IN
  /\ Len(m) \in 16 .. 63
  /\ work' = [work EXCEPT !.m = Append(m, Plus(Plus(SIG1(m[i - 2]), m[i - 7]),
                                               Plus(SIG0(m[i - 15]), m[i - 16]))),
                          !.r = sha.state]
  /\ UNCHANGED <<input, buffer, unread, todo, sha, hash>>

round ==
  LET r  == work.r
      i  == work.i + 1
      t1 == Plus(Plus(Plus(r[8], EP1(r[5])), CH(r[5], r[6], r[7])), Plus(k[i], work.m[i]))
      t2 == Plus(EP0(r[1]), MAJ(r[1], r[2], r[3])) IN
  /\ Len(work.m) = 64 /\ work.i < 64
  /\ work' = [work EXCEPT !.i = i, !.r = <<Plus(t1, t2), r[1], r[2], r[3],
                                           Plus(r[4], t1), r[5], r[6], r[7]>>]
  /\ UNCHANGED <<input, buffer, unread, todo, sha, hash>>

transform_end ==
  /\ work.i = 64
  /\ sha' = [sha EXCEPT !.state = [j \in 1 .. 8 |-> Plus(@[j], work.r[j])]]
  /\ work' = [Ready EXCEPT !.then = work.then]
  /\ UNCHANGED <<input, buffer, unread, todo, hash>>

Zeros(n) == [j \in 1 .. n |-> 0]

\* The eight bytes of the bit count, which stays below 2^31 here.
LengthBytes(n) == Zeros(4) \o [j \in 1 .. 4 |-> (n \div 256^(4 - j)) % 256]


\* sha256_final: the padding, in the block or in one more of its own.
final ==
  LET n == Len(sha.data)
      bits == LengthBytes(sha.bitlen + 8 * n) IN
  /\ AtStep("update") /\ todo = <<>>
  /\ work' = IF n < 56
             THEN Transform(sha.data \o <<128>> \o Zeros(55 - n) \o bits, "digest")
             ELSE Transform(sha.data \o <<128>> \o Zeros(63 - n), "length")
  /\ UNCHANGED <<input, buffer, unread, todo, sha, hash>>

final_length ==
  /\ AtStep("length")
  /\ work' = Transform(Zeros(56) \o LengthBytes(sha.bitlen + 8 * Len(sha.data)), "digest")
  /\ UNCHANGED <<input, buffer, unread, todo, sha, hash>>

\* The digest's bytes, and byte_to_hex of each: nibbles, the high one first.
Nibble(w, j) == {b - 4 * j : b \in w \cap (4 * j .. 4 * j + 3)}
digest ==
  /\ AtStep("digest") /\ hash = <<>>
  /\ hash' = [j \in 0 .. 63 |-> Nibble(sha.state[j \div 8 + 1], 7 - (j % 8))]
  /\ UNCHANGED <<input, buffer, unread, todo, sha, work>>

Sha256Next ==
  \/ read_chunk \/ sha256_update \/ schedule \/ round \/ transform_end
  \/ final \/ final_length \/ digest

-----------------------------------------------------------------------------
CONSTANT Digest(_)      \* the published digest of a message, as 16 halfwords

DigestNibbles(d) == [j \in 0 .. 63 |->
  {b \in 0 .. 3 : (d[j \div 4 + 1] \div 2^(4 * (3 - (j % 4)) + b)) % 2 = 1}]

=============================================================================
