---------------------------- MODULE ClientHello ----------------------------
(***************************************************************************)
(* The fake ClientHello (internal/tls): what Build lays out for a browser  *)
(* profile and a server name, with its padding.  And parseSNI              *)
(* (internal/proxy/relay.go), which readSNI calls whenever more bytes of   *)
(* a client have come.                                                     *)
(*                                                                         *)
(* A client's hello has the format that Build imitates, so Build's records *)
(* stand for it here.  A client may also send anything else: Build's       *)
(* record with one number replaced by another.  A record is a sequence of  *)
(* fields, each with its size in bytes and its value; bytes that are not a *)
(* number have the value Opaque.  Of a profile only the sizes of its lists *)
(* matter.  The other ends of readSNI, an error and its limit of bytes,    *)
(* are in module Relay.                                                    *)
(***************************************************************************)
EXTENDS Integers, Sequences

CONSTANTS NameLens,  \* lengths of the server name
          Draws,     \* what fastRandN(33) returns for the padding
          Reads,     \* bytes one Read may return
          Wrong,     \* numbers that may stand where another one belongs
          WrongLens, \* lengths of the name in a record with a wrong number
          Noise      \* numbers that bytes out of place may stand for

ASSUME LensAssumption == WrongLens \subseteq NameLens /\ NameLens \subseteq Nat
ASSUME NumbersAssumption == Wrong \subseteq Nat /\ Noise \subseteq Nat /\ Reads \subseteq Nat \ {0}
ASSUME DrawsAssumption == Draws \subseteq 0..32

VARIABLES profile, nameLen, draw,  \* what the record was built from
          intact,        \* no number of it has been replaced
          wire, total,   \* the record with the offset of every field, and its size
          acc,           \* bytes readSNI has accumulated
          at,            \* where parseSNI is; "read": readSNI is in conn.Read
          pos, end,      \* parseSNI: where it is in data, and where its slice ends
          touched,       \* the end of the bytes it has looked at
          verdict        \* what it has returned

recordVars == <<profile, nameLen, draw, intact, wire, total>>
vars == <<recordVars, acc, at, pos, end, touched, verdict>>

-----------------------------------------------------------------------------
(* buf *)

Opaque == -1
NoName == -2
TheName == -3

Field(n, v) == <<[size |-> n, val |-> v]>>
U8(v) == Field(1, v)
U16(v) == Field(2, v)
U24(v) == Field(3, v)
Bytes(n) == IF n = 0 THEN <<>> ELSE Field(n, Opaque)
Upto(w) ==
    LET sum[i \in 0..Len(w)] == IF i = 0 THEN 0 ELSE sum[i - 1] + w[i].size IN sum
Size(w) == Upto(w)[Len(w)]

\* A list with its length in front.
Vec8(w) == U8(Size(w)) \o w
Vec16(w) == U16(Size(w)) \o w
Extension(type, w) == U16(type) \o Vec16(w)

-----------------------------------------------------------------------------
(* Profiles: lengths of the lists, and the extensions in their order *)

Grease == 2570
Padding == 21
Chrome == <<"sni", "master", "reneg", "groups", "points", "ticket", "alpn", "status", "sct",
            "share", "versions", "compress", "psk">>
Firefox == <<"sni", "master", "groups", "points", "ticket", "status", "alpn", "sigalgs", "share",
             "versions", "psk">>
Safari == <<"sni", "master", "groups", "points", "ticket", "alpn", "status", "sigalgs", "share",
            "versions", "psk">>
Chrome120 == <<"sni", "master", "reneg", "groups", "points", "ticket", "alpn", "status", "sct",
               "share", "versions", "psk">>

Profiles ==
    {[ciphers |-> 15, groups |-> 4, sigalgs |-> 9, grease |-> TRUE, order |-> Chrome],
     [ciphers |-> 17, groups |-> 4, sigalgs |-> 13, grease |-> FALSE, order |-> Firefox],
     [ciphers |-> 15, groups |-> 3, sigalgs |-> 8, grease |-> FALSE, order |-> Safari],
     [ciphers |-> 15, groups |-> 5, sigalgs |-> 9, grease |-> TRUE, order |-> Chrome],
     [ciphers |-> 15, groups |-> 3, sigalgs |-> 9, grease |-> TRUE, order |-> Chrome120]}

\* Any type number but that of the server name.
TypeOf(x) == IF x = "sni" THEN 0 ELSE 1

-----------------------------------------------------------------------------
(* buildExtensions and Build *)

Name(n) == IF n = 0 THEN <<>> ELSE Field(n, TheName)

\* Faulty variant: the list of names has no length of its own.
NameUnlisted(n) == U8(0) \o Vec16(Name(n))

\* The list of server names, with one of type 0.
ServerName(n) == Vec16(U8(0) \o Vec16(Name(n)))

Body(p, x, n) ==
    CASE x = "sni" -> ServerName(n)
      [] x \in {"master", "ticket", "sct"} -> <<>>
      [] x = "reneg" -> U8(0)
      [] x = "groups" -> Vec16(Bytes(2 * p.groups))
      [] x = "points" -> U8(1) \o U8(0)
      [] x = "alpn" -> Vec16(Vec8(Bytes(2)) \o Vec8(Bytes(8)))
      [] x = "status" -> U8(1) \o U16(0) \o U16(0)
      [] x = "share" -> Vec16(U16(29) \o Vec16(Bytes(32)))
      [] x = "versions" -> Vec8(Bytes(4))
      [] x = "compress" -> Bytes(4)
      [] x = "psk" -> Vec8(Bytes(1))
      [] x = "sigalgs" -> Vec16(Bytes(2 * p.sigalgs))

CipherSuites(p) == (IF p.grease THEN U16(Grease) ELSE <<>>) \o Bytes(2 * p.ciphers) \o U16(255)

Extensions(p, n) ==
    LET exts[i \in 0..Len(p.order)] ==
            IF i = 0 THEN (IF p.grease THEN Extension(Grease, U8(0)) ELSE <<>>)
            ELSE exts[i - 1] \o Extension(TypeOf(p.order[i]), Body(p, p.order[i], n))
    IN  exts[Len(p.order)]

\* 512 with a jitter of 16 either way.
Target(k) == 512 + k - 16

\* Faulty variant: the padding does not depend on what is there.
PadToTarget(p, n, k) == Target(k) - 256

\* helloBodyLen counts the length of the extensions twice, so the padding comes
\* out two bytes short of the target.
PadNeeded(p, n, k) ==
    LET currentLen == Size(Extensions(p, n)) + 2
        helloBodyLen == 2 + 32 + 1 + 32 + 2 + Size(CipherSuites(p)) + 1 + 1 + 2 + currentLen
    IN  Target(k) - helloBodyLen - 4

Hello(p, n, k) ==
    LET pad == PadNeeded(p, n, k)
        exts == Extensions(p, n) \o IF pad > 0 THEN Extension(Padding, Bytes(pad)) ELSE <<>>
    IN  U16(771) \o Bytes(32) \o Vec8(Bytes(32)) \o Vec16(CipherSuites(p)) \o Vec8(U8(0)) \o Vec16(exts)

\* The handshake message in its record.
Build(p, n, k) ==
    LET hello == Hello(p, n, k) IN
    U8(22) \o U16(769) \o Vec16(U8(1) \o U24(Size(hello)) \o hello)

-----------------------------------------------------------------------------
(* parseSNI *)

\* The fields of a record, each at its offset.
Placed(w) ==
    LET upto == Upto(w) IN
    {[at |-> upto[i - 1], size |-> w[i].size, val |-> w[i].val] : i \in DOMAIN w}

\* The record with one of its numbers replaced by another of that size.
Replaced(fields, f, v) == (fields \ {f}) \cup {[f EXCEPT !.val = v % 256 ^ f.size]}

FieldAt(off, size) == {f \in wire : f.at = off /\ f.size = size}

\* What the bytes at an offset stand for as a number.
Num(off, size) ==
    LET here == {f.val : f \in FieldAt(off, size)} \ {Opaque, TheName}
    IN  IF here = {} THEN {v % 256 ^ size : v \in Noise} ELSE here

\* return s, true
Give(s) == at' = "done" /\ verdict' = s /\ UNCHANGED <<pos, end>>

\* Faulty variant: only the first byte has to be there.
FirstFits(n) == pos < end

\* The next n bytes are in the slice.
Fits(n) == pos + n <= end

\* Record and handshake header.  parseSNI is done, or to be called again with
\* more bytes, or has a hello to look into.
Limit == 16384
Header ==
    /\ at = "header"
    /\ \E type \in Num(0, 1), recLen \in Num(3, 2), hsType \in Num(5, 1), hsLen \in Num(6, 3) :
           LET wait == acc < 5 \/ (type = 22 /\ (acc < 5 + recLen \/
                           (recLen \in 4..Limit /\ hsType = 1 /\ recLen < 4 + hsLen)))
               hello == type = 22 /\ recLen \in 4..Limit /\ hsType = 1 /\ hsLen \in 38..Limit
           IN  \/ /\ wait
                  /\ at' = "read"
                  /\ UNCHANGED <<pos, end, verdict>>
               \/ ~wait /\ ~hello /\ Give(NoName)
               \/ /\ ~wait /\ hello
                  /\ at' = "session" /\ pos' = 9 + 34 /\ end' = 9 + hsLen
                  /\ UNCHANGED verdict
    /\ UNCHANGED <<recordVars, acc, touched>>

\* A list with its length in front is skipped, or does not fit.
Skip(list, size, next) ==
    /\ at = list
    /\ \/ ~Fits(size) /\ Give(NoName) /\ UNCHANGED touched
       \/ /\ Fits(size)
          /\ touched' = pos + size
          /\ \E n \in Num(pos, size) :
                 \/ pos + size + n > end /\ Give(NoName)
                 \/ /\ pos + size + n <= end
                    /\ at' = next /\ pos' = pos + size + n
                    /\ UNCHANGED <<end, verdict>>
    /\ UNCHANGED <<recordVars, acc>>

Lists ==
    \/ Skip("session", 1, "ciphers")
    \/ Skip("ciphers", 2, "compression")
    \/ Skip("compression", 1, "extensions")

\* The slice of the extensions.
Slice ==
    /\ at = "extensions"
    /\ \/ ~Fits(2) /\ Give(NoName) /\ UNCHANGED touched
       \/ /\ Fits(2)
          /\ touched' = pos + 2
          /\ \E n \in Num(pos, 2) :
                 \/ pos + 2 + n > end /\ Give(NoName)
                 \/ /\ pos + 2 + n <= end
                    /\ at' = "extension" /\ pos' = pos + 2 /\ end' = pos + 2 + n
                    /\ UNCHANGED verdict
    /\ UNCHANGED <<recordVars, acc>>

\* One round of the loop over the extensions.
NextExtension ==
    /\ at = "extension"
    /\ \/ ~Fits(4) /\ Give(NoName) /\ UNCHANGED touched
       \/ /\ Fits(4)
          /\ touched' = pos + 4
          /\ \E type \in Num(pos, 2), len \in Num(pos + 2, 2) :
                 \/ pos + 4 + len > end /\ Give(NoName)
                 \/ /\ pos + 4 + len <= end /\ type # 0
                    /\ pos' = pos + 4 + len
                    /\ UNCHANGED <<at, end, verdict>>
                 \/ /\ pos + 4 + len <= end /\ type = 0
                    /\ at' = "name" /\ pos' = pos + 4 /\ end' = pos + 4 + len
                    /\ UNCHANGED verdict
    /\ UNCHANGED <<recordVars, acc>>

\* The body of the server_name extension: its first name.
FirstName ==
    /\ at = "name"
    /\ \/ ~Fits(5) /\ Give(NoName) /\ UNCHANGED touched
       \/ /\ Fits(5)
          /\ \E n \in Num(pos + 3, 2) :
                 \/ pos + 5 + n > end /\ touched' = pos + 5 /\ Give(NoName)
                 \/ /\ pos + 5 + n <= end
                    /\ touched' = pos + 5 + n
                    /\ Give(IF \E f \in FieldAt(pos + 5, n) : f.val = TheName THEN TheName
                            ELSE IF n = 0 THEN NoName ELSE Opaque)
    /\ UNCHANGED <<recordVars, acc>>

-----------------------------------------------------------------------------
(* readSNI *)

\* A Read has returned up to n bytes, and parseSNI is called.
Read(n) ==
    /\ at = "read" /\ acc < total
    /\ acc' = IF acc + n < total THEN acc + n ELSE total
    /\ at' = "header"
    /\ UNCHANGED <<recordVars, pos, end, touched, verdict>>

Init ==
    /\ profile \in Profiles /\ nameLen \in NameLens /\ draw \in Draws
    /\ \E w \in {Build(profile, nameLen, draw)} : \E fields \in {Placed(w)} :
           /\ total = Size(w)
           /\ \/ intact = TRUE /\ wire = fields
              \/ /\ intact = FALSE /\ nameLen \in WrongLens
                 /\ \E f \in fields, v \in Wrong :
                        /\ f.val \notin {Opaque, TheName, v}
                        /\ wire = Replaced(fields, f, v)
    /\ acc = 0 /\ at = "read" /\ pos = 0 /\ end = 0 /\ touched = 0 /\ verdict = NoName

Next ==
    \/ \E n \in Reads : Read(n)
    \/ Header
    \/ Lists
    \/ Slice
    \/ NextExtension
    \/ FirstName

Spec == Init /\ [][Next]_vars

-----------------------------------------------------------------------------
(* Properties *)

\* However a proper hello is cut up, readSNI goes on until its last byte has
\* come, and then finds the name it was made with: no list is one byte longer or
\* shorter than its length says, and no prefix is taken for the whole or refused,
\* for any profile, name or padding.  (An empty name and none are the same.)
FoundAtTheEnd ==
    intact =>
        /\ at = "read" => acc < total
        /\ at = "done" => acc = total /\ (nameLen > 0 => verdict = TheName)

\* Whatever a client sends, parseSNI looks at no byte outside the slice it works
\* on, and no slice reaches beyond what has come: its checks, one before each
\* length, cover every index.  Nothing in the program recovers from a panic, so
\* one index out of range would end the process.
StaysInside == touched <= end /\ end <= acc

\* A padded record has the size of its target and the seven bytes that PadNeeded
\* and the headers leave, whatever the name and the profile: the size does not
\* tell one name from another.  Every name of up to 200 bytes is padded.
SizeHidesName ==
    /\ PadNeeded(profile, nameLen, draw) > 0 => total = Target(draw) + 7
    /\ nameLen <= 200 => PadNeeded(profile, nameLen, draw) > 0
=============================================================================
