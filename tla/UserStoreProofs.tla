-------------------------- MODULE UserStoreProofs --------------------------
(***************************************************************************)
(* What is kept of a user, for any number of programs, sessions,           *)
(* nicknames and stickers: the UID, for life, and the stickers.            *)
(*                                                                         *)
(* The parser of the file of stickers is a recursive function of the       *)
(* number of lines.  What it computes is proved by induction on that       *)
(* number, with the set of numbers for which it is so (UpTo).              *)
(***************************************************************************)
EXTENDS UserStore, SequenceTheorems, WellFoundedInduction, TLAPS

-----------------------------------------------------------------------------
(* The UID.  That the UIDs returned are the one on file is not inductive:  *)
(* a program that creates the file empties it.  The invariant adds that,   *)
(* as long as there was no race, a program creates a UID only while none   *)
(* is on file, and that it is the only one to do so.                       *)

UidTypeInv ==
  /\ uid_file \in Nat
  /\ now \in Nat \ {0}
  /\ place \in [Programs -> Places]
  /\ caller \in [Programs -> {"started", "chat"}]
  /\ hex_uid \in [Programs -> Nat]

\* What is about to be written is a UID.
GeneratedOK == \A p \in Programs : place[p] \in {"create", "write"} => hex_uid[p] # 0

OneCreates ==
  ~raced => /\ \A p \in Programs : Creates(p) => uid_file = 0
            /\ \A p, q \in Programs : Creates(p) /\ Creates(q) => p = q

UidInv == UidTypeInv /\ GeneratedOK /\ OneCreates /\ UidForLife

LEMMA UidInvInit == Init => UidInv
<1> SUFFICES ASSUME Init PROVE UidInv
  OBVIOUS
<1>1. UidTypeInv
  BY DEF Init, UidTypeInv, Places
<1>2. GeneratedOK /\ OneCreates
  BY DEF Init, GeneratedOK, OneCreates, Creates
<1>3. UidForLife
  BY DEF Init, UidForLife
<1> QED BY <1>1, <1>2, <1>3 DEF UidInv

\* Both times that uid.txt is read: a UID on file is returned; without one, the
\* program creates one, and alone, unless this is a race.
LEMMA ReadUidKeeps ==
  ASSUME NEW p \in Programs, NEW from \in {"started", "chat"}, UidInv,
         ~Creates(p), ReadUid(p, from)
  PROVE  UidInv'
  <1>1. UidTypeInv'
    BY DEF ReadUid, UidInv, UidTypeInv, Places
  <1>2. CASE uid_file # 0
    BY <1>1, <1>2 DEF ReadUid, UidInv, UidTypeInv, GeneratedOK, OneCreates, UidForLife, Creates
  <1>3. CASE uid_file = 0
    <2>1. GeneratedOK'
      BY <1>3 DEF ReadUid, UidInv, UidTypeInv, GeneratedOK
    <2>2. OneCreates'
      BY <1>3 DEF ReadUid, UidInv, UidTypeInv, OneCreates, Creates
    <2>3. UidForLife'
      BY <1>3 DEF ReadUid, UidInv, UidTypeInv, UidForLife
    <2> QED BY <1>1, <2>1, <2>2, <2>3 DEF UidInv
  <1> QED BY <1>2, <1>3

LEMMA UidInvStep == UidInv /\ [Next]_vars => UidInv'
<1> SUFFICES ASSUME UidInv, [Next]_vars PROVE UidInv'
  OBVIOUS
<1> USE DEF Step, Places
<1>1. ASSUME NEW p \in Programs, Start(p) PROVE UidInv'
  BY <1>1, ReadUidKeeps DEF Start, Creates
<1>2. ASSUME NEW p \in Programs, GenerateUid(p) PROVE UidInv'
  BY <1>2 DEF GenerateUid, UidInv, UidTypeInv, GeneratedOK, OneCreates, UidForLife, Creates
<1>3. ASSUME NEW p \in Programs, CreateUidFile(p) PROVE UidInv'
  BY <1>3 DEF CreateUidFile, UidInv, UidTypeInv, GeneratedOK, OneCreates, UidForLife, Creates
<1>4. ASSUME NEW p \in Programs, WriteUidFile(p) PROVE UidInv'
  <2>1. UidTypeInv' /\ GeneratedOK'
    BY <1>4 DEF WriteUidFile, UidInv, UidTypeInv, GeneratedOK
  <2>2. OneCreates'
    BY <1>4 DEF WriteUidFile, UidInv, UidTypeInv, OneCreates, Creates
  <2>3. UidForLife'
    <3>1. ~raced => uids = {}
      BY <1>4 DEF WriteUidFile, UidInv, OneCreates, UidForLife, Creates
    <3>2. uid_file' # 0 /\ uids' = uids \cup {uid_file'} /\ raced' = raced
      BY <1>4 DEF WriteUidFile, UidInv, GeneratedOK
    <3> QED BY <3>1, <3>2 DEF UidForLife
  <2> QED BY <2>1, <2>2, <2>3 DEF UidInv
<1>5. ASSUME NEW p \in Programs, ChatStart(p) PROVE UidInv'
  BY <1>5, ReadUidKeeps DEF ChatStart, Creates
<1>6. ASSUME NEW p \in Programs,
             NickSend(p) \/ SaveNick(p) \/ FirstSticker(p) \/ NextSticker(p)
               \/ UseSticker(p) \/ CreateSticker(p)
      PROVE  UidInv'
  \* None of these changes a UID, and none is taken while one is created.
  <2>1. UNCHANGED uidVars /\ UNCHANGED now
    BY <1>6 DEF NickSend, SaveNick, FirstSticker, NextSticker, UseSticker, CreateSticker
  <2>2. \E to \in {"nick", "sticker", "chat", "stuck"} : place' = [place EXCEPT ![p] = to]
    BY <1>6 DEF NickSend, SaveNick, FirstSticker, NextSticker, UseSticker, CreateSticker
  <2> QED
    BY <2>1, <2>2 DEF uidVars, UidInv, UidTypeInv, GeneratedOK, OneCreates, UidForLife, Creates
<1>7. ASSUME NEW p \in Programs, End(p) PROVE UidInv'
  BY <1>7 DEF End, files, UidInv, UidTypeInv, GeneratedOK, OneCreates, UidForLife, Creates
<1>8. CASE Tick
  BY <1>8 DEF Tick, uidVars, UidInv, UidTypeInv, GeneratedOK, OneCreates, UidForLife, Creates
<1>9. CASE UNCHANGED vars
  BY <1>9 DEF vars, uidVars, UidInv, UidTypeInv, GeneratedOK, OneCreates, UidForLife, Creates
<1> QED
  BY <1>1, <1>2, <1>3, <1>4, <1>5, <1>6, <1>7, <1>8, <1>9 DEF Next

\* One UID for life (uid.c): all that get_uid ever returns in a directory is
\* the UID on file there, wherever programs are killed while they create it,
\* unless two of them create it at once.
THEOREM OneUidForLife == Spec => []UidForLife
<1>1. UidInv => UidForLife
  BY DEF UidInv
<1> QED
  BY UidInvInit, UidInvStep, <1>1, PTL DEF Spec

-----------------------------------------------------------------------------
(* Induction, with sets. *)

LEMMA LeastNumber ==
  ASSUME NEW T, T \subseteq Nat, T # {}
  PROVE  \E m \in T : \A n \in T : m <= n
<1> DEFINE R == {ss \in Nat \X Nat : ss[1] < ss[2]}
<1>1. IsWellFoundedOn(R, Nat)
  BY NatLessThanWellFounded DEF OpToRel
<1>2. PICK m \in T : \A n \in T : ~(<<n, m>> \in R)
  BY <1>1, WFMin
<1>3. \A n \in T : m <= n
  <2> TAKE n \in T
  <2>1. m \in Nat /\ n \in Nat /\ <<n, m>> \in Nat \X Nat
    OBVIOUS
  <2>2. ~(n < m)
    BY <1>2, <2>1
  <2> QED
    BY <2>1, <2>2
<1> QED
  BY <1>3

LEMMA UpTo ==
  ASSUME NEW N \in Nat, NEW T, 0 \in T, \A n \in 1 .. N : n - 1 \in T => n \in T
  PROVE  \A n \in 0 .. N : n \in T
<1> SUFFICES ASSUME NEW k \in 0 .. N, k \notin T
             PROVE  FALSE
  OBVIOUS
<1> DEFINE B == {n \in 0 .. N : n \notin T}
<1>1. PICK m \in B : \A n \in B : m <= n
  <2>1. B \subseteq Nat /\ B # {}
    OBVIOUS
  <2> HIDE DEF B
  <2> QED
    BY <2>1, LeastNumber
<1>2. m \in 0 .. N /\ m \notin T /\ m # 0
  OBVIOUS
<1>3. m \in 1 .. N /\ m - 1 \in 0 .. N /\ ~(m <= m - 1)
  BY <1>2
<1>4. m - 1 \in T
  BY <1>1, <1>3
<1> QED
  BY <1>2, <1>3, <1>4

-----------------------------------------------------------------------------
(* The parser. *)

Blank == [in |-> "none", array |-> <<>>]

States ==
  {acc \in [in : {"none", "name", "text"}, array : Seq(Entry)] :
     acc.in = "text" => acc.array # <<>>}

LEMMA ReadingSteps ==
  ASSUME NEW s, Len(s) \in Nat
  PROVE  /\ Reading(s)[0] = Blank
         /\ \A n \in 1 .. Len(s) : Reading(s)[n] = ParseLine(s[n], Reading(s)[n - 1])
<1> DEFINE reading[n \in 0 .. Len(s)] ==
             IF n = 0 THEN [in |-> "none", array |-> <<>>]
             ELSE ParseLine(s[n], reading[n - 1])
<1>1. reading = [n \in 0 .. Len(s) |-> IF n = 0 THEN [in |-> "none", array |-> <<>>]
                                       ELSE ParseLine(s[n], reading[n - 1])]
  OBVIOUS
<1>2. Reading(s) = reading
  BY DEF Reading
<1> HIDE DEF reading
<1>3. 0 \in 0 .. Len(s) /\ \A n \in 1 .. Len(s) : n \in 0 .. Len(s) /\ n # 0
  OBVIOUS
<1>4. reading[0] = Blank
  BY <1>1, <1>3 DEF Blank
<1>5. \A n \in 1 .. Len(s) : reading[n] = ParseLine(s[n], reading[n - 1])
  BY <1>1, <1>3
<1> QED
  BY <1>2, <1>4, <1>5

\* The last entry, to which a line is added.
Grown(entry, line) == [name |-> entry.name, sticker |-> Append(entry.sticker, line)]

LEMMA ParseLineEffect ==
  ASSUME NEW acc \in States, NEW line \in Written
  PROVE  /\ acc.in = "none" => ParseLine(line, acc) =
              IF line = Open THEN [in |-> "name", array |-> acc.array] ELSE acc
         /\ acc.in = "name" => ParseLine(line, acc) =
              [in |-> "text", array |-> Append(acc.array, [name |-> line, sticker |-> <<>>])]
         /\ acc.in = "text" => ParseLine(line, acc) =
              IF line = Close THEN [in |-> "none", array |-> acc.array]
              ELSE [in |-> "text",
                    array |-> [acc.array EXCEPT
                                 ![Len(acc.array)] = Grown(acc.array[Len(acc.array)], line)]]
<1>1. PICK at \in {"none", "name", "text"}, a \in Seq(Entry) :
        acc = [in |-> at, array |-> a] /\ (at = "text" => a # <<>>)
  BY DEF States
<1>2. CASE at = "none"
  BY <1>1, <1>2 DEF ParseLine
<1>3. CASE at = "name"
  BY <1>1, <1>3 DEF ParseLine
<1>4. CASE at = "text" /\ line = Close
  <2>1. ParseLine(line, acc) = [acc EXCEPT !.in = "none"] /\ acc.in = "text" /\ acc.array = a
    BY <1>1, <1>4 DEF ParseLine
  <2>2. [acc EXCEPT !.in = "none"] = [in |-> "none", array |-> a]
    BY <1>1
  <2> QED
    BY <1>4, <2>1, <2>2
<1>5. CASE at = "text" /\ line # Close
  <2>1. Len(a) \in DOMAIN a /\ a[Len(a)] \in Entry
    BY <1>1, <1>5
  <2>2. PICK e \in Entry : e = a[Len(a)]
    BY <2>1
  <2>3. [e EXCEPT !.sticker = Append(@, line)] = Grown(e, line)
    <3>1. e.sticker \in Seq(Written) /\ e \in [name : Written, sticker : Seq(Written)]
      BY DEF Entry
    <3>2. PICK more : more = Append(e.sticker, line)
      OBVIOUS
    <3>3. [e EXCEPT !.sticker = more] = [name |-> e.name, sticker |-> more]
      BY <3>1
    <3> QED
      BY <3>2, <3>3 DEF Grown
  <2>4. ParseLine(line, acc) = [acc EXCEPT !.array[Len(acc.array)].sticker = Append(@, line)]
    BY <1>1, <1>5 DEF ParseLine
  <2>5. [acc EXCEPT !.array[Len(acc.array)].sticker = Append(@, line)]
          = [acc EXCEPT !.array = [a EXCEPT ![Len(a)] = [e EXCEPT !.sticker = Append(@, line)]]]
    BY <1>1, <2>1, <2>2
  <2>6. [acc EXCEPT !.array = [a EXCEPT ![Len(a)] = Grown(e, line)]]
          = [in |-> "text", array |-> [a EXCEPT ![Len(a)] = Grown(e, line)]]
    BY <1>1, <1>5
  <2> QED
    BY <1>1, <1>5, <2>2, <2>3, <2>4, <2>5, <2>6
<1> QED
  BY <1>1, <1>2, <1>3, <1>4, <1>5

LEMMA WrittenWords ==
  /\ Open \in Written /\ Close \in Written /\ Open # Close /\ Names \subseteq Written
  /\ \A name \in Names : TextOf[name] \in Seq(Written) /\ Sticker(name) \in Entry
<1>1. Open \in Written /\ Close \in Written /\ Open # Close /\ Names \subseteq Written
  BY DEF Written, Open, Close
<1>2. ASSUME NEW name \in Names
      PROVE  TextOf[name] \in Seq(Written) /\ Sticker(name) \in Entry
  <2>1. TextOf[name] \in Seq(STRING)
    BY StoreAssumption
  <2>2. \A n \in 1 .. Len(TextOf[name]) : TextOf[name][n] \in Written
    BY <2>1 DEF Written, Range
  <2>3. TextOf[name] \in Seq(Written)
    BY <2>1, <2>2
  <2> QED
    BY <1>1, <2>3 DEF Sticker, Entry
<1> QED
  BY <1>1, <1>2

LEMMA ParseLineTyped ==
  ASSUME NEW acc \in States, NEW line \in Written
  PROVE  ParseLine(line, acc) \in States
<1>1. /\ acc.in \in {"none", "name", "text"} /\ acc.array \in Seq(Entry)
      /\ acc.in = "text" => acc.array # <<>>
  BY DEF States
<1>0. \A at \in {"none", "name", "text"}, a \in Seq(Entry) :
        a # <<>> \/ at # "text" => [in |-> at, array |-> a] \in States
  BY DEF States
<1>2. CASE acc.in = "none"
  <2>1. [in |-> "name", array |-> acc.array] \in States
    BY <1>0, <1>1
  <2>2. ParseLine(line, acc) = IF line = Open THEN [in |-> "name", array |-> acc.array] ELSE acc
    BY <1>2, ParseLineEffect
  <2> QED
    BY <2>1, <2>2
<1>3. CASE acc.in = "name"
  <2>1. [name |-> line, sticker |-> <<>>] \in Entry
    BY DEF Entry
  <2>2. PICK e \in Entry : e = [name |-> line, sticker |-> <<>>]
    BY <2>1
  <2>3. Append(acc.array, e) \in Seq(Entry) /\ Append(acc.array, e) # <<>>
    BY <1>1
  <2>4. [in |-> "text", array |-> Append(acc.array, e)] \in States
    BY <1>0, <2>3
  <2>5. ParseLine(line, acc) = [in |-> "text", array |-> Append(acc.array, e)]
    BY <1>3, <2>2, ParseLineEffect
  <2> QED
    BY <2>4, <2>5
<1>4. CASE acc.in = "text"
  <2>1. Len(acc.array) \in DOMAIN acc.array /\ acc.array[Len(acc.array)] \in Entry
    BY <1>1, <1>4
  <2>2. PICK e : e = Grown(acc.array[Len(acc.array)], line)
    OBVIOUS
  <2>3. e \in Entry
    <3>1. PICK old \in Entry : old = acc.array[Len(acc.array)]
      BY <2>1
    <3>2. old.name \in Written /\ old.sticker \in Seq(Written)
      BY DEF Entry
    <3>3. Append(old.sticker, line) \in Seq(Written)
      BY <3>2
    <3> QED
      BY <2>2, <3>1, <3>2, <3>3 DEF Grown, Entry
  <2>4. PICK b : b = [acc.array EXCEPT ![Len(acc.array)] = e]
    OBVIOUS
  <2>5. b \in Seq(Entry) /\ Len(b) = Len(acc.array) /\ b # <<>>
    <3>1. b \in [1 .. Len(acc.array) -> Entry] /\ Len(acc.array) \in Nat /\ Len(acc.array) # 0
      BY <1>1, <1>4, <2>3, <2>4
    <3> QED
      BY <3>1
  <2>6. [in |-> "text", array |-> b] \in States /\ [in |-> "none", array |-> acc.array] \in States
    BY <1>0, <1>1, <2>5
  <2>7. ParseLine(line, acc) = IF line = Close THEN [in |-> "none", array |-> acc.array]
                               ELSE [in |-> "text", array |-> b]
    BY <1>4, <2>2, <2>4, ParseLineEffect
  <2> QED
    BY <2>6, <2>7
<1> QED
  BY <1>1, <1>2, <1>3, <1>4

LEMMA ReadingTyped ==
  ASSUME NEW s \in Seq(Written)
  PROVE  /\ \A n \in 0 .. Len(s) : Reading(s)[n] \in States
         /\ Parsed(s) \in Seq(Entry)
<1> DEFINE T == {n \in Nat : Reading(s)[n] \in States}
<1>1. Len(s) \in Nat /\ \A n \in 1 .. Len(s) : s[n] \in Written
  OBVIOUS
<1>2. 0 \in T
  <2>1. <<>> \in Seq(Entry)
    OBVIOUS
  <2>2. Blank \in States
    BY <2>1 DEF Blank, States
  <2>3. Reading(s)[0] = Blank
    BY <1>1, ReadingSteps
  <2> QED
    BY <2>2, <2>3
<1>3. ASSUME NEW n \in 1 .. Len(s), n - 1 \in T
      PROVE  n \in T
  <2>1. Reading(s)[n] = ParseLine(s[n], Reading(s)[n - 1])
    BY <1>1, ReadingSteps
  <2>2. Reading(s)[n] \in States
    BY <1>1, <1>3, <2>1, ParseLineTyped
  <2> QED
    BY <2>2
<1> HIDE DEF T
<1>4. \A n \in 0 .. Len(s) : n \in T
  BY <1>1, <1>2, <1>3, UpTo
<1>5. \A n \in 0 .. Len(s) : Reading(s)[n] \in States
  BY <1>4 DEF T
<1>6. Len(s) \in 0 .. Len(s)
  BY <1>1
<1>7. Reading(s)[Len(s)] \in States
  BY <1>5, <1>6
<1> QED
  BY <1>5, <1>7 DEF Parsed, States

\* What is appended to the file is read after the rest.
LEMMA ReadingOn ==
  ASSUME NEW s \in Seq(Written), NEW u \in Seq(Written)
  PROVE  LET t == s \o u
         IN  /\ Len(t) = Len(s) + Len(u) /\ t \in Seq(Written)
             /\ Reading(t)[Len(s)] = Reading(s)[Len(s)]
             /\ \A k \in 1 .. Len(u) :
                  Reading(t)[Len(s) + k] = ParseLine(u[k], Reading(t)[Len(s) + k - 1])
<1> DEFINE t == s \o u
<1>1. /\ Len(t) = Len(s) + Len(u) /\ t \in Seq(Written)
      /\ Len(s) \in Nat /\ Len(u) \in Nat
      /\ \A n \in 1 .. Len(s) : t[n] = s[n]
      /\ \A k \in 1 .. Len(u) : t[Len(s) + k] = u[k]
  OBVIOUS
<1> HIDE DEF t
<1>2. Len(t) \in Nat
  BY <1>1
<1>3. /\ Reading(t)[0] = Blank /\ Reading(s)[0] = Blank
      /\ \A n \in 1 .. Len(t) : Reading(t)[n] = ParseLine(t[n], Reading(t)[n - 1])
      /\ \A n \in 1 .. Len(s) : Reading(s)[n] = ParseLine(s[n], Reading(s)[n - 1])
  BY <1>1, <1>2, ReadingSteps
<1>4. \A n \in 1 .. Len(s) : n \in 1 .. Len(t)
  BY <1>1
<1> DEFINE T == {n \in Nat : Reading(t)[n] = Reading(s)[n]}
<1>5. 0 \in T
  BY <1>3
<1>6. ASSUME NEW n \in 1 .. Len(s), n - 1 \in T
      PROVE  n \in T
  <2>1. Reading(t)[n - 1] = Reading(s)[n - 1] /\ t[n] = s[n]
    BY <1>1, <1>6
  <2>2. Reading(t)[n] = Reading(s)[n]
    BY <1>3, <1>4, <2>1
  <2> QED
    BY <2>2
<1> HIDE DEF T
<1>7. Len(s) \in T
  <2>1. Len(s) \in 0 .. Len(s)
    BY <1>1
  <2> QED
    BY <1>1, <1>5, <1>6, <2>1, UpTo
<1>8. Reading(t)[Len(s)] = Reading(s)[Len(s)]
  BY <1>7 DEF T
<1>9. ASSUME NEW k \in 1 .. Len(u)
      PROVE  Reading(t)[Len(s) + k] = ParseLine(u[k], Reading(t)[Len(s) + k - 1])
  <2>1. Len(s) + k \in 1 .. Len(t)
    BY <1>1
  <2> QED
    BY <1>1, <1>3, <2>1
<1> QED
  BY <1>1, <1>8, <1>9 DEF t

\* A text that contains the line that ends a sticker, which the parser takes for
\* its end, opens no other after it.  (The parser would take what it saved next
\* for a part of that one.)
TextsCloseForGood ==
  \A name \in Names : \A i, j \in 1 .. Len(TextOf[name]) :
    i < j /\ TextOf[name][i] = Close => TextOf[name][j] # Open

LEMMA AppendThenReplace ==
  ASSUME NEW a \in Seq(Entry), NEW e \in Entry, NEW f \in Entry
  PROVE  LET b == Append(a, e)
         IN  b[Len(b)] = e /\ [b EXCEPT ![Len(b)] = f] = Append(a, f)
<1>0. Append(a, e) \in Seq(Entry) /\ Append(a, f) \in Seq(Entry)
  OBVIOUS
<1>1. PICK b \in Seq(Entry) : b = Append(a, e)
  BY <1>0
<1>2. Len(b) = Len(a) + 1 /\ b[Len(b)] = e /\ \A n \in 1 .. Len(a) : b[n] = a[n]
  BY <1>1
<1>3. PICK c \in Seq(Entry) : c = Append(a, f)
  BY <1>0
<1>4. Len(c) = Len(a) + 1 /\ c[Len(c)] = f /\ \A n \in 1 .. Len(a) : c[n] = a[n]
  BY <1>3
<1>5. [b EXCEPT ![Len(b)] = f] = c
  <2>1. PICK d : d = [b EXCEPT ![Len(b)] = f]
    OBVIOUS
  <2>2. /\ d = [n \in 1 .. Len(a) + 1 |-> IF n = Len(a) + 1 THEN f ELSE b[n]]
        /\ Len(a) \in Nat
    <3>1. Len(a) \in Nat
      OBVIOUS
    <3>2. b = [n \in 1 .. Len(a) + 1 |-> b[n]]
      BY <1>2
    <3> QED
      BY <1>2, <2>1, <3>1, <3>2
  <2>3. c = [n \in 1 .. Len(a) + 1 |-> c[n]]
    BY <1>4
  <2>4. \A n \in 1 .. Len(a) + 1 : n = Len(a) + 1 \/ n \in 1 .. Len(a)
    BY <2>2
  <2>5. \A n \in 1 .. Len(a) + 1 : (IF n = Len(a) + 1 THEN f ELSE b[n]) = c[n]
    BY <1>2, <1>4, <2>4
  <2> QED
    BY <2>1, <2>2, <2>3, <2>5
<1> QED
  BY <1>1, <1>2, <1>3, <1>5

\* The lines of a sticker, as they are printed.
LEMMA PrintedLines ==
  ASSUME NEW name \in Names
  PROVE  LET u == Printed(Sticker(name))
             m == Len(TextOf[name])
         IN  /\ u \in Seq(Written) /\ Len(u) = m + 3 /\ m \in Nat
             /\ u[1] = Open /\ u[2] = name /\ u[m + 3] = Close
             /\ \A k \in 1 .. m : u[k + 2] = TextOf[name][k] /\ u[k + 2] \in Written
<1>1. PICK txt \in Seq(Written) : txt = TextOf[name]
  BY WrittenWords
<1>2. Open \in Written /\ Close \in Written /\ name \in Written
  BY WrittenWords
<1>3. Printed(Sticker(name)) = <<Open, name>> \o txt \o <<Close>>
  BY <1>1 DEF Printed, Sticker
<1>4. /\ <<Open, name>> \in Seq(Written) /\ Len(<<Open, name>>) = 2
      /\ <<Open, name>>[1] = Open /\ <<Open, name>>[2] = name
  BY <1>2
<1>5. PICK o \in Seq(Written) : o = <<Open, name>> /\ Len(o) = 2 /\ o[1] = Open /\ o[2] = name
  BY <1>4
<1>6. o \o txt \in Seq(Written)
  OBVIOUS
<1>7. PICK v \in Seq(Written) : v = o \o txt
  BY <1>6
<1>8. /\ Len(v) = Len(txt) + 2 /\ v[1] = Open /\ v[2] = name
      /\ \A k \in 1 .. Len(txt) : v[k + 2] = txt[k]
  BY <1>5, <1>7
<1>9. PICK c \in Seq(Written) : c = <<Close>> /\ Len(c) = 1 /\ c[1] = Close
  <2>1. <<Close>> \in Seq(Written) /\ Len(<<Close>>) = 1 /\ <<Close>>[1] = Close
    BY <1>2
  <2> QED
    BY <2>1
<1>10. PICK u \in Seq(Written) : u = v \o c /\ u = Printed(Sticker(name))
  <2>1. v \o c \in Seq(Written)
    OBVIOUS
  <2>2. Printed(Sticker(name)) = v \o c
    BY <1>5, <1>3, <1>7, <1>9
  <2> QED
    BY <2>1, <2>2
<1>11. /\ Len(u) = Len(txt) + 3 /\ u[1] = Open /\ u[2] = name /\ u[Len(txt) + 3] = Close
      /\ \A k \in 1 .. Len(txt) : u[k + 2] = v[k + 2]
  BY <1>8, <1>9, <1>10
<1>12. \A k \in 1 .. Len(txt) : txt[k] \in Written
  OBVIOUS
<1> QED
  BY <1>1, <1>8, <1>10, <1>11, <1>12

LEMMA OneLineMore ==
  ASSUME NEW txt \in Seq(Written), NEW k \in 1 .. Len(txt)
  PROVE  Append(SubSeq(txt, 1, k - 1), txt[k]) = SubSeq(txt, 1, k)
<1>1. SubSeq(txt, 1, k) = SubSeq(txt, 1, k - 1) \o <<txt[k]>>
  BY SubSeqRecursiveSecond
<1>2. SubSeq(txt, 1, k - 1) \in Seq(Written) /\ txt[k] \in Written
  OBVIOUS
<1> QED
  BY <1>1, <1>2, AppendIsConcat

\* What is saved after stickers that are whole, or cut short by a line of their
\* own, is read as one more: all of it, unless a line ends it.
LEMMA SavedSticker ==
  ASSUME NEW s \in Seq(Written), NEW name \in Names, TextsCloseForGood,
         Reading(s)[Len(s)].in = "none"
  PROVE  LET t == s \o Printed(Sticker(name))
         IN  /\ t \in Seq(Written) /\ Reading(t)[Len(t)].in = "none"
             /\ \E e \in Entry :
                  /\ Parsed(t) = Append(Parsed(s), e) /\ e.name = name
                  /\ IsWhole(Sticker(name)) => e = Sticker(name)
<1>1. PICK u \in Seq(Written), txt \in Seq(Written), m \in Nat :
        /\ u = Printed(Sticker(name)) /\ txt = TextOf[name] /\ m = Len(txt)
        /\ Len(u) = m + 3 /\ u[1] = Open /\ u[2] = name /\ u[m + 3] = Close
        /\ \A k \in 1 .. m : u[k + 2] = txt[k] /\ u[k + 2] \in Written
  <2>1. PICK txt \in Seq(Written) : txt = TextOf[name]
    BY WrittenWords
  <2>2. PICK u : u = Printed(Sticker(name))
    OBVIOUS
  <2>3. PICK m : m = Len(txt)
    OBVIOUS
  <2>4. /\ u \in Seq(Written) /\ Len(u) = m + 3 /\ m \in Nat
        /\ u[1] = Open /\ u[2] = name /\ u[m + 3] = Close
        /\ \A k \in 1 .. m : u[k + 2] = txt[k] /\ u[k + 2] \in Written
    BY <2>1, <2>2, <2>3, PrintedLines
  <2> QED
    BY <2>1, <2>2, <2>3, <2>4
<1>2. PICK t \in Seq(Written) : t = s \o u
  <2>1. s \o u \in Seq(Written)
    OBVIOUS
  <2> QED
    BY <2>1
<1>3. PICK l \in Nat : l = Len(s)
  OBVIOUS
<1>4. /\ Len(t) = l + m + 3
      /\ Reading(t)[l] = Reading(s)[l]
      /\ \A k \in 1 .. m + 3 : Reading(t)[l + k] = ParseLine(u[k], Reading(t)[l + k - 1])
  <2>1. /\ Len(t) = Len(s) + Len(u)
        /\ Reading(t)[Len(s)] = Reading(s)[Len(s)]
        /\ \A k \in 1 .. Len(u) :
             Reading(t)[Len(s) + k] = ParseLine(u[k], Reading(t)[Len(s) + k - 1])
    <3>1. LET v == s \o u
          IN  /\ Len(v) = Len(s) + Len(u)
              /\ Reading(v)[Len(s)] = Reading(s)[Len(s)]
              /\ \A k \in 1 .. Len(u) :
                   Reading(v)[Len(s) + k] = ParseLine(u[k], Reading(v)[Len(s) + k - 1])
      BY ReadingOn
    <3> QED
      BY <1>2, <3>1
  <2> QED
    BY <1>1, <1>3, <2>1
<1>5. \A k \in 0 .. m + 3 : Reading(t)[l + k] \in States
  <2>1. \A n \in 0 .. Len(t) : Reading(t)[n] \in States
    BY ReadingTyped
  <2>2. \A k \in 0 .. m + 3 : l + k \in 0 .. Len(t)
    <3>1. Len(t) = l + m + 3
      BY <1>4
    <3>2. \A k \in 0 .. m + 3 : l + k \in 0 .. l + m + 3
      OBVIOUS
    <3> QED
      BY <3>1, <3>2
  <2> QED
    BY <2>1, <2>2
<1>6. PICK a \in Seq(Entry) : a = Parsed(s) /\ Reading(t)[l] = [in |-> "none", array |-> a]
  <2>1. Reading(s)[l] \in States /\ Parsed(s) = Reading(s)[l].array
    BY <1>3, ReadingTyped DEF Parsed
  <2> QED
    BY <1>3, <1>4, <2>1 DEF States
<1>7. Open \in Written /\ Close \in Written /\ Open # Close /\ name \in Written
  BY WrittenWords
<1>8. Reading(t)[l + 1] = [in |-> "name", array |-> a]
  <2>1. Reading(t)[l + 1] = ParseLine(Open, [in |-> "none", array |-> a])
    <3>1. 1 \in 1 .. m + 3 /\ l + 1 - 1 = l
      OBVIOUS
    <3> QED
      BY <1>1, <1>4, <1>6, <3>1
  <2>2. [in |-> "none", array |-> a] \in States
    <3>1. 0 \in 0 .. m + 3 /\ l + 0 = l
      OBVIOUS
    <3> QED
      BY <1>5, <1>6, <3>1
  <2>3. PICK acc \in States : acc = [in |-> "none", array |-> a]
    BY <2>2
  <2> QED
    BY <1>7, <2>1, <2>3, ParseLineEffect
<1>9. Reading(t)[l + 2] = [in |-> "text", array |-> Append(a, [name |-> name, sticker |-> <<>>])]
  <2>1. 2 \in 1 .. m + 3 /\ l + 2 - 1 = l + 1 /\ 1 \in 0 .. m + 3
    OBVIOUS
  <2>2. PICK acc \in States : acc = Reading(t)[l + 1]
    BY <1>5, <2>1
  <2>3. Reading(t)[l + 2] = ParseLine(name, acc)
    BY <1>1, <1>4, <2>1, <2>2
  <2>4. acc.in = "name" /\ acc.array = a
    BY <1>8, <2>2
  <2>5. ParseLine(name, acc) =
          [in |-> "text", array |-> Append(acc.array, [name |-> name, sticker |-> <<>>])]
    BY <1>7, <2>4, ParseLineEffect
  <2> QED
    BY <2>3, <2>4, <2>5
<1>10. \A k \in 1 .. m :
        /\ k \in Nat /\ k + 2 \in 1 .. m + 3 /\ k + 1 \in 0 .. m + 3
        /\ l + (k + 2) = l + 2 + k /\ l + (k + 2) - 1 = l + 2 + (k - 1)
        /\ l + (k + 1) = l + 2 + (k - 1)
  OBVIOUS
<1>11. /\ m + 3 \in 1 .. m + 3 /\ l + (m + 3) - 1 = l + 2 + m /\ l + (m + 3) = Len(t)
      /\ m + 2 \in 0 .. m + 3 /\ l + (m + 2) = l + 2 + m
  <2>1. Len(t) = l + m + 3
    BY <1>4
  <2>2. /\ m + 3 \in 1 .. m + 3 /\ l + (m + 3) - 1 = l + 2 + m /\ l + (m + 3) = l + m + 3
        /\ m + 2 \in 0 .. m + 3 /\ l + (m + 2) = l + 2 + m
    OBVIOUS
  <2> QED
    BY <2>1, <2>2
\* After k lines of the text: so much of it was read, or one of them has ended
\* the sticker.
<1> DEFINE InText(k) ==
             /\ Reading(t)[l + 2 + k] =
                  [in |-> "text",
                   array |-> Append(a, [name |-> name, sticker |-> SubSeq(txt, 1, k)])]
             /\ \A i \in 1 .. k : txt[i] # Close
           Ended(k) ==
             \E e \in Entry :
               /\ Reading(t)[l + 2 + k] = [in |-> "none", array |-> Append(a, e)]
               /\ e.name = name
               /\ \E i \in 1 .. k : txt[i] = Close
           T == {k \in Nat : InText(k) \/ Ended(k)}
<1>12. 0 \in T
  <2>1. SubSeq(txt, 1, 0) = <<>> /\ l + 2 + 0 = l + 2
    OBVIOUS
  <2>2. Reading(t)[l + 2 + 0] =
          [in |-> "text", array |-> Append(a, [name |-> name, sticker |-> SubSeq(txt, 1, 0)])]
    BY <1>9, <2>1
  <2>3. \A i \in 1 .. 0 : txt[i] # Close
    OBVIOUS
  <2>4. InText(0)
    BY <2>2, <2>3
  <2> HIDE DEF InText, Ended
  <2> QED
    BY <2>4
<1>13. ASSUME NEW k \in 1 .. m, k - 1 \in T
       PROVE  k \in T
  <2>1. /\ k + 2 \in 1 .. m + 3 /\ l + (k + 2) = l + 2 + k /\ l + (k + 2) - 1 = l + 2 + (k - 1)
        /\ k + 1 \in 0 .. m + 3 /\ l + (k + 1) = l + 2 + (k - 1) /\ k \in Nat
    BY <1>10
  <2>2. PICK acc \in States : acc = Reading(t)[l + 2 + (k - 1)]
    <3>1. Reading(t)[l + (k + 1)] \in States
      BY <1>5, <2>1
    <3> QED
      BY <2>1, <3>1
  <2>3. PICK line \in Written : line = txt[k]
    BY <1>1
  <2>4. Reading(t)[l + 2 + k] = ParseLine(line, acc)
    <3>1. Reading(t)[l + (k + 2)] = ParseLine(u[k + 2], Reading(t)[l + (k + 2) - 1])
      BY <1>4, <2>1
    <3> QED
      BY <1>1, <2>1, <2>2, <2>3, <3>1
  <2>5. CASE InText(k - 1) /\ line = Close
    <3>1. PICK e : e = [name |-> name, sticker |-> SubSeq(txt, 1, k - 1)]
      OBVIOUS
    <3>2. e \in Entry /\ e.name = name
      <4>1. SubSeq(txt, 1, k - 1) \in Seq(Written)
        BY <1>1
      <4> QED
        BY <1>7, <3>1, <4>1 DEF Entry
    <3>3. acc.in = "text" /\ acc.array = Append(a, e)
      BY <2>2, <2>5, <3>1
    <3>4. Reading(t)[l + 2 + k] = [in |-> "none", array |-> Append(a, e)]
      BY <2>4, <2>5, <3>3, ParseLineEffect
    <3>5. k \in 1 .. k /\ txt[k] = Close
      BY <2>3, <2>5
    <3>6. Ended(k)
      BY <3>2, <3>4, <3>5
    <3> HIDE DEF InText, Ended
    <3> QED
      BY <2>1, <3>6
  <2>6. CASE InText(k - 1) /\ line # Close
    <3>1. PICK e : e = [name |-> name, sticker |-> SubSeq(txt, 1, k - 1)]
      OBVIOUS
    <3>2. e \in Entry
      <4>1. SubSeq(txt, 1, k - 1) \in Seq(Written)
        BY <1>1
      <4> QED
        BY <1>7, <3>1, <4>1 DEF Entry
    <3>3. PICK f : f = [name |-> name, sticker |-> SubSeq(txt, 1, k)]
      OBVIOUS
    <3>4. f \in Entry
      <4>1. SubSeq(txt, 1, k) \in Seq(Written)
        BY <1>1
      <4> QED
        BY <1>7, <3>3, <4>1 DEF Entry
    <3>5. Grown(e, line) = f
      <4>1. Append(SubSeq(txt, 1, k - 1), line) = SubSeq(txt, 1, k)
        BY <1>1, <2>3, OneLineMore
      <4> QED
        BY <3>1, <3>3, <4>1 DEF Grown
    <3>6. acc.in = "text" /\ acc.array = Append(a, e)
      BY <2>2, <2>6, <3>1
    <3>7. Reading(t)[l + 2 + k] =
            [in |-> "text",
             array |-> [acc.array EXCEPT
                          ![Len(acc.array)] = Grown(acc.array[Len(acc.array)], line)]]
      BY <2>4, <2>6, <3>6, ParseLineEffect
    <3>8. /\ acc.array[Len(acc.array)] = e
          /\ [acc.array EXCEPT ![Len(acc.array)] = f] = Append(a, f)
      BY <3>2, <3>4, <3>6, AppendThenReplace
    <3>9. Reading(t)[l + 2 + k] = [in |-> "text", array |-> Append(a, f)]
      BY <3>5, <3>7, <3>8
    <3>10. \A i \in 1 .. k : txt[i] # Close
      <4>1. \A i \in 1 .. k : i = k \/ i \in 1 .. k - 1
        OBVIOUS
      <4> QED
        BY <2>3, <2>6, <4>1
    <3>11. InText(k)
      BY <3>3, <3>9, <3>10
    <3> HIDE DEF InText, Ended
    <3> QED
      BY <2>1, <3>11
  <2>7. CASE Ended(k - 1)
    <3>1. PICK e \in Entry : /\ acc = [in |-> "none", array |-> Append(a, e)]
                             /\ e.name = name /\ \E i \in 1 .. k - 1 : txt[i] = Close
      BY <2>2, <2>7
    <3>2. PICK i \in 1 .. k - 1 : txt[i] = Close
      BY <3>1
    <3>3. i \in 1 .. Len(TextOf[name]) /\ k \in 1 .. Len(TextOf[name]) /\ i < k /\ i \in 1 .. k
      BY <1>1
    <3>4. line # Open
      BY <1>1, <2>3, <3>2, <3>3 DEF TextsCloseForGood
    <3>5. Reading(t)[l + 2 + k] = acc
      <4>1. ParseLine(line, acc) = IF line = Open THEN [in |-> "name", array |-> acc.array]
                                   ELSE acc
        BY <3>1, ParseLineEffect
      <4> QED
        BY <2>4, <3>4, <4>1
    <3>6. Ended(k)
      BY <3>1, <3>2, <3>3, <3>5
    <3> HIDE DEF InText, Ended
    <3> QED
      BY <2>1, <3>6
  <2> HIDE DEF InText, Ended
  <2> QED
    BY <1>13, <2>5, <2>6, <2>7
<1>14. InText(m) \/ Ended(m)
  <2> HIDE DEF T, InText, Ended
  <2>1. \A k \in 0 .. m : k \in T
    BY <1>12, <1>13, UpTo
  <2>2. m \in 0 .. m
    OBVIOUS
  <2> QED
    BY <2>1, <2>2 DEF T
<1>15. PICK acc \in States :
         acc = Reading(t)[l + 2 + m] /\ Reading(t)[Len(t)] = ParseLine(Close, acc)
  <2>1. Reading(t)[l + (m + 2)] \in States
    BY <1>5, <1>11
  <2>2. Reading(t)[l + (m + 3)] = ParseLine(u[m + 3], Reading(t)[l + (m + 3) - 1])
    BY <1>4, <1>11
  <2> QED
    BY <1>1, <1>11, <2>1, <2>2
<1>16. PICK e \in Entry :
         /\ Reading(t)[Len(t)] = [in |-> "none", array |-> Append(a, e)]
         /\ e.name = name
         /\ IsWhole(Sticker(name)) => e = Sticker(name)
  <2>1. CASE InText(m)
    <3>1. SubSeq(txt, 1, m) = txt
      BY <1>1
    <3>2. Sticker(name) \in Entry /\ Sticker(name).name = name
      BY WrittenWords DEF Sticker
    <3>3. acc.in = "text" /\ acc.array = Append(a, Sticker(name))
      <4>1. acc = [in |-> "text",
                   array |-> Append(a, [name |-> name, sticker |-> SubSeq(txt, 1, m)])]
        BY <1>15, <2>1
      <4>2. [name |-> name, sticker |-> SubSeq(txt, 1, m)] = Sticker(name)
        BY <1>1, <3>1 DEF Sticker
      <4> QED
        BY <4>1, <4>2
    <3>4. Reading(t)[Len(t)] = [in |-> "none", array |-> Append(a, Sticker(name))]
      BY <1>7, <1>15, <3>3, ParseLineEffect
    <3> QED
      BY <3>2, <3>4
  <2>2. CASE Ended(m)
    <3>1. PICK e \in Entry : /\ acc = [in |-> "none", array |-> Append(a, e)]
                             /\ e.name = name /\ \E i \in 1 .. m : txt[i] = Close
      BY <1>15, <2>2
    <3>2. Reading(t)[Len(t)] = acc
      <4>1. ParseLine(Close, acc) = IF Close = Open THEN [in |-> "name", array |-> acc.array]
                                    ELSE acc
        BY <1>7, <3>1, ParseLineEffect
      <4> QED
        BY <1>7, <1>15, <4>1
    <3>3. ~IsWhole(Sticker(name))
      BY <1>1, <3>1 DEF IsWhole, Sticker, Contains
    <3> QED
      BY <3>1, <3>2, <3>3
  <2> HIDE DEF InText, Ended
  <2> QED
    BY <1>14, <2>1, <2>2
<1>17. Parsed(t) = Append(a, e) /\ Reading(t)[Len(t)].in = "none"
  BY <1>16 DEF Parsed
<1> QED
  BY <1>1, <1>2, <1>6, <1>16, <1>17

-----------------------------------------------------------------------------
(* The stickers that are whole. *)

LEMMA KeepingSteps ==
  ASSUME NEW s, Len(s) \in Nat
  PROVE  /\ Keeping(s)[0] = <<>>
         /\ \A n \in 1 .. Len(s) : Keeping(s)[n] = Keep(Keeping(s)[n - 1], s[n])
<1> DEFINE kept[n \in 0 .. Len(s)] == IF n = 0 THEN <<>> ELSE Keep(kept[n - 1], s[n])
<1>1. kept = [n \in 0 .. Len(s) |-> IF n = 0 THEN <<>> ELSE Keep(kept[n - 1], s[n])]
  OBVIOUS
<1>2. Keeping(s) = kept
  BY DEF Keeping
<1> HIDE DEF kept
<1>3. 0 \in 0 .. Len(s) /\ \A n \in 1 .. Len(s) : n \in 0 .. Len(s) /\ n # 0
  OBVIOUS
<1>4. kept[0] = <<>>
  BY <1>1, <1>3
<1>5. \A n \in 1 .. Len(s) : kept[n] = Keep(kept[n - 1], s[n])
  BY <1>1, <1>3
<1> QED
  BY <1>2, <1>4, <1>5

\* One entry more is one whole sticker more, or none.
LEMMA OneMore ==
  ASSUME NEW a \in Seq(Entry), NEW e \in Entry
  PROVE  WholeOnes(Append(a, e)) =
           IF IsWhole(e) THEN Append(WholeOnes(a), e) ELSE WholeOnes(a)
<1>1. PICK b : b = Append(a, e)
  OBVIOUS
<1>2. PICK l \in Nat : l = Len(a)
  OBVIOUS
<1>3. Len(b) = l + 1 /\ b[l + 1] = e /\ \A n \in 1 .. l : b[n] = a[n]
  BY <1>1, <1>2
<1>4. /\ Keeping(a)[0] = <<>>
      /\ \A n \in 1 .. l : Keeping(a)[n] = Keep(Keeping(a)[n - 1], a[n])
  BY <1>2, KeepingSteps
<1>5. /\ Keeping(b)[0] = <<>>
      /\ \A n \in 1 .. l + 1 : Keeping(b)[n] = Keep(Keeping(b)[n - 1], b[n])
  <2>1. l + 1 \in Nat
    OBVIOUS
  <2> QED
    BY <1>3, <2>1, KeepingSteps
<1> DEFINE T == {n \in Nat : Keeping(b)[n] = Keeping(a)[n]}
<1>6. 0 \in T
  BY <1>4, <1>5
<1>7. ASSUME NEW n \in 1 .. l, n - 1 \in T
      PROVE  n \in T
  <2>1. n \in 1 .. l + 1 /\ n \in Nat
    OBVIOUS
  <2>2. b[n] = a[n] /\ Keeping(b)[n - 1] = Keeping(a)[n - 1]
    BY <1>3, <1>7
  <2>3. Keeping(b)[n] = Keeping(a)[n]
    BY <1>4, <1>5, <2>1, <2>2
  <2> QED
    BY <2>1, <2>3
<1> HIDE DEF T
<1>8. \A n \in 0 .. l : n \in T
  BY <1>6, <1>7, UpTo
<1>9. Keeping(b)[l] = Keeping(a)[l]
  BY <1>8 DEF T
<1>10. Keeping(b)[l + 1] = Keep(Keeping(a)[l], e)
  <2>1. l + 1 \in 1 .. l + 1 /\ l + 1 - 1 = l
    OBVIOUS
  <2> QED
    BY <1>3, <1>5, <1>9, <2>1
<1> QED
  BY <1>1, <1>2, <1>3, <1>10 DEF WholeOnes, Keep

\* Nothing whole is lost, and nothing added.
LEMMA WholeOnesAre ==
  ASSUME NEW a \in Seq(Entry), NEW e \in Entry, IsWhole(e)
  PROVE  Contains(WholeOnes(a), e) <=> \E i \in 1 .. Len(a) : a[i] = e
<1>1. PICK l \in Nat : l = Len(a)
  OBVIOUS
<1>2. /\ Keeping(a)[0] = <<>>
      /\ \A n \in 1 .. l : Keeping(a)[n] = Keep(Keeping(a)[n - 1], a[n])
  BY <1>1, KeepingSteps
<1> DEFINE T == {n \in Nat :
                   /\ Keeping(a)[n] \in Seq(Entry)
                   /\ (\E i \in 1 .. Len(Keeping(a)[n]) : Keeping(a)[n][i] = e)
                        <=> (\E i \in 1 .. n : a[i] = e)}
<1>3. 0 \in T
  <2>1. Keeping(a)[0] \in Seq(Entry) /\ Len(Keeping(a)[0]) = 0
    BY <1>2
  <2> QED
    BY <2>1
<1>4. ASSUME NEW n \in 1 .. l, n - 1 \in T
      PROVE  n \in T
  <2>1. PICK k \in Seq(Entry) : k = Keeping(a)[n - 1]
    BY <1>4
  <2>2. (\E i \in 1 .. Len(k) : k[i] = e) <=> (\E i \in 1 .. n - 1 : a[i] = e)
    BY <1>4, <2>1
  <2>3. PICK f \in Entry : f = a[n]
    BY <1>1
  <2>4. Keeping(a)[n] = IF IsWhole(f) THEN Append(k, f) ELSE k
    BY <1>2, <2>1, <2>3 DEF Keep
  <2>5. (\E i \in 1 .. n : a[i] = e) <=> (f = e \/ \E i \in 1 .. n - 1 : a[i] = e)
    <3>1. \A i \in 1 .. n : i = n \/ i \in 1 .. n - 1
      OBVIOUS
    <3>2. n \in 1 .. n /\ \A i \in 1 .. n - 1 : i \in 1 .. n
      OBVIOUS
    <3> QED
      BY <2>3, <3>1, <3>2
  <2>6. PICK g \in Seq(Entry) : g = Append(k, f)
    <3>1. Append(k, f) \in Seq(Entry)
      OBVIOUS
    <3> QED
      BY <3>1
  <2>7. (\E i \in 1 .. Len(g) : g[i] = e) <=> (f = e \/ \E i \in 1 .. Len(k) : k[i] = e)
    <3>1. Len(g) = Len(k) + 1 /\ g[Len(g)] = f /\ (\A i \in 1 .. Len(k) : g[i] = k[i])
          /\ Len(k) \in Nat
      BY <2>6
    <3>2. \A i \in 1 .. Len(g) : i = Len(g) \/ i \in 1 .. Len(k)
      BY <3>1
    <3>3. Len(g) \in 1 .. Len(g) /\ \A i \in 1 .. Len(k) : i \in 1 .. Len(g)
      BY <3>1
    <3> QED
      BY <3>1, <3>2, <3>3
  <2>8. PICK h \in Seq(Entry) : h = Keeping(a)[n] /\ h = IF IsWhole(f) THEN g ELSE k
    BY <2>4, <2>6
  <2>9. (\E i \in 1 .. Len(h) : h[i] = e) <=> (\E i \in 1 .. n : a[i] = e)
    <3>1. CASE IsWhole(f)
      BY <2>2, <2>5, <2>7, <2>8, <3>1
    <3>2. CASE ~IsWhole(f)
      BY <2>2, <2>5, <2>8, <3>2
    <3> QED
      BY <3>1, <3>2
  <2>10. /\ Keeping(a)[n] \in Seq(Entry)
         /\ (\E i \in 1 .. Len(Keeping(a)[n]) : Keeping(a)[n][i] = e)
              <=> (\E i \in 1 .. n : a[i] = e)
    BY <2>8, <2>9
  <2>11. n \in Nat
    OBVIOUS
  <2> QED
    BY <2>10, <2>11
<1> HIDE DEF T
<1>5. \A n \in 0 .. l : n \in T
  BY <1>3, <1>4, UpTo
<1>6. l \in T
  BY <1>5
<1> QED
  BY <1>1, <1>6 DEF T, WholeOnes, Contains

-----------------------------------------------------------------------------
(* Types.  What is in memory follows where the program is: a nickname that *)
(* is about to be saved is one that /nick gave, and a program that is in   *)
(* /sticker has loaded the stickers.                                       *)

InPlace ==
  \A p \in Programs :
    /\ place[p] = "nick" => my_nick[p] \in Nicks
    /\ place[p] = "sticker" => history_loaded[p]

StoreInv == StoreTypeOK /\ GeneratedOK /\ InPlace

LEMMA StoreInvInit == Init => StoreInv
<1> SUFFICES ASSUME Init PROVE StoreInv
  OBVIOUS
<1>1. LastSecond \in Nat \ {0} /\ MaxSessions \in Nat
  BY StoreAssumption
<1>2. <<>> \in Seq(Written) /\ <<>> \in Seq(Entry)
  OBVIOUS
<1>3. StoreTypeOK
  <2>1. /\ sticker_array \in [Programs -> Seq(Entry)] /\ made \in Seq(Entry)
        /\ saved_stickers \in Seq(Written)
    BY <1>2 DEF Init
  <2>2. /\ nick_file \in [Paths -> Nicks \cup {<<>>}]
        /\ my_nick \in [Programs -> Nicks \cup FirstWords \cup {NoNick}]
    BY DEF Init
  <2>3. /\ uid_file \in 0 .. LastSecond /\ hex_uid \in [Programs -> 0 .. LastSecond]
        /\ now \in 1 .. LastSecond /\ sessions \in [Programs -> 0 .. MaxSessions]
        /\ uids \subseteq 1 .. LastSecond
    BY <1>1 DEF Init
  <2> QED
    BY <2>1, <2>2, <2>3 DEF Init, StoreTypeOK, Places, Paths
<1>4. GeneratedOK /\ InPlace
  BY DEF Init, GeneratedOK, InPlace
<1> QED
  BY <1>3, <1>4 DEF StoreInv


LEMMA ReadUidTyped ==
  ASSUME NEW p \in Programs, NEW from \in {"started", "chat"}, StoreInv, ReadUid(p, from)
  PROVE  /\ place' \in [Programs -> Places]
         /\ caller' \in [Programs -> {"started", "chat"}]
         /\ hex_uid' \in [Programs -> 0 .. LastSecond]
         /\ uids' \subseteq 1 .. LastSecond
         /\ raced' \in BOOLEAN
         /\ GeneratedOK'
         /\ \A q \in Programs :
              place'[q] \in {"nick", "sticker", "stuck"} => q # p /\ place[q] = place'[q]
         /\ \A q \in Programs :
              (q = p => place[p] # "stuck") => (place'[q] = "stuck" <=> place[q] = "stuck")
<1>1. /\ place \in [Programs -> Places] /\ caller \in [Programs -> {"started", "chat"}]
      /\ hex_uid \in [Programs -> 0 .. LastSecond] /\ uid_file \in 0 .. LastSecond
      /\ uids \subseteq 1 .. LastSecond /\ raced \in BOOLEAN
      /\ GeneratedOK /\ LastSecond \in Nat \ {0}
  BY StoreAssumption DEF StoreInv, StoreTypeOK
<1>2. /\ caller' = [caller EXCEPT ![p] = from] /\ hex_uid' = [hex_uid EXCEPT ![p] = uid_file]
      /\ uid_file' = uid_file
  BY DEF ReadUid
<1>3. CASE uid_file # 0
  <2>1. /\ place' = [place EXCEPT ![p] = from] /\ uids' = uids \cup {uid_file}
        /\ raced' = raced
    BY <1>3 DEF ReadUid
  <2>2. uid_file \in 1 .. LastSecond
    BY <1>1, <1>3
  <2> QED
    BY <1>1, <1>2, <2>1, <2>2 DEF Places, GeneratedOK
<1>4. CASE uid_file = 0
  <2>1. /\ place' = [place EXCEPT ![p] = "generate"] /\ uids' = uids
        /\ raced' \in BOOLEAN
    BY <1>1, <1>4 DEF ReadUid
  <2> QED
    BY <1>1, <1>2, <2>1 DEF Places, GeneratedOK
<1> QED
  BY <1>3, <1>4

LEMMA StoreInvStep == StoreInv /\ [Next]_vars => StoreInv'
<1> SUFFICES ASSUME StoreInv, [Next]_vars PROVE StoreInv'
  OBVIOUS
<1> USE DEF Step
<1>0. LastSecond \in Nat \ {0} /\ MaxSessions \in Nat /\ Nicks \subseteq Seq(STRING)
  BY StoreAssumption
<1>1. ASSUME NEW p \in Programs, Start(p) PROVE StoreInv'
  <2>1. /\ sessions' = [sessions EXCEPT ![p] = @ + 1] /\ sessions[p] < MaxSessions
        /\ ReadUid(p, "started") /\ UNCHANGED nicks
        /\ UNCHANGED <<uid_file, stickers, user_directory, now>>
    BY <1>1 DEF Start, ReadUid
  <2>2. sessions' \in [Programs -> 0 .. MaxSessions]
    BY <1>0, <2>1 DEF StoreInv, StoreTypeOK
  <2>3. StoreTypeOK'
    <3>1. \A q \in Programs : place'[q] = "stuck" <=> place[q] = "stuck"
      BY <1>1, <2>1, ReadUidTyped DEF Start
    <3> QED
      BY <2>1, <2>2, <3>1, ReadUidTyped DEF StoreInv, StoreTypeOK, nicks, stickers
  <2>4. GeneratedOK' /\ InPlace'
    BY <2>1, ReadUidTyped DEF StoreInv, InPlace, nicks, stickers
  <2> QED
    BY <2>3, <2>4 DEF StoreInv
<1>2. ASSUME NEW p \in Programs, GenerateUid(p) PROVE StoreInv'
  BY <1>0, <1>2
  DEF GenerateUid, StoreInv, StoreTypeOK, GeneratedOK, InPlace, nicks, stickers, Places
<1>3. ASSUME NEW p \in Programs, CreateUidFile(p) PROVE StoreInv'
  BY <1>0, <1>3
  DEF CreateUidFile, StoreInv, StoreTypeOK, GeneratedOK, InPlace, nicks, stickers, Places
<1>4. ASSUME NEW p \in Programs, WriteUidFile(p) PROVE StoreInv'
  <2>1. hex_uid[p] \in 1 .. LastSecond /\ hex_uid[p] \in 0 .. LastSecond
    BY <1>0, <1>4 DEF WriteUidFile, StoreInv, StoreTypeOK, GeneratedOK
  <2>2. place' \in [Programs -> Places] /\ place'[p] \in {"started", "chat"}
    BY <1>4 DEF WriteUidFile, StoreInv, StoreTypeOK, Places
  <2>3. StoreTypeOK'
    BY <1>4, <2>1, <2>2 DEF WriteUidFile, StoreInv, StoreTypeOK, nicks, stickers
  <2>4. GeneratedOK' /\ InPlace'
    BY <1>4, <2>2 DEF WriteUidFile, StoreInv, StoreTypeOK, GeneratedOK, InPlace, nicks, stickers
  <2> QED
    BY <2>3, <2>4 DEF StoreInv
<1>5. ASSUME NEW p \in Programs, ChatStart(p) PROVE StoreInv'
  <2>1. PICK nick : nick = nick_file[user_directory[p]]
    OBVIOUS
  <2>2. /\ my_nick' = [my_nick EXCEPT ![p] = IF nick = <<>> THEN NoNick ELSE <<Head(nick)>>]
        /\ ReadUid(p, "chat") /\ UNCHANGED <<nick_file, sessions>>
        /\ UNCHANGED <<uid_file, stickers, user_directory, now>>
    BY <1>5, <2>1 DEF ChatStart, ReadUid
  <2>3. nick \in Nicks \cup {<<>>}
    BY <2>1 DEF StoreInv, StoreTypeOK
  <2>4. nick = <<>> \/ <<Head(nick)>> \in FirstWords
    BY <2>3 DEF FirstWords
  <2>5. my_nick' \in [Programs -> Nicks \cup FirstWords \cup {NoNick}]
    BY <2>2, <2>4 DEF StoreInv, StoreTypeOK
  <2>6. StoreTypeOK'
    <3>1. \A q \in Programs : place'[q] = "stuck" <=> place[q] = "stuck"
      BY <1>5, <2>2, ReadUidTyped DEF ChatStart
    <3> QED
      BY <2>2, <2>5, <3>1, ReadUidTyped DEF StoreInv, StoreTypeOK, stickers
  <2>7. GeneratedOK' /\ InPlace'
    <3>1. \A q \in Programs : q # p => my_nick'[q] = my_nick[q]
      BY <2>2 DEF StoreInv, StoreTypeOK
    <3> QED
      BY <2>2, <3>1, ReadUidTyped DEF StoreInv, InPlace, stickers
  <2> QED
    BY <2>6, <2>7 DEF StoreInv
<1>6. ASSUME NEW p \in Programs, NickSend(p) PROVE StoreInv'
  <2>1. StoreTypeOK'
    BY <1>6 DEF NickSend, StoreInv, StoreTypeOK, uidVars, stickers, Places
  <2>2. GeneratedOK' /\ InPlace'
    BY <1>6
    DEF NickSend, StoreInv, StoreTypeOK, GeneratedOK, InPlace, uidVars, stickers
  <2> QED
    BY <2>1, <2>2 DEF StoreInv
<1>7. ASSUME NEW p \in Programs, SaveNick(p) PROVE StoreInv'
  <2>1. StoreTypeOK'
    BY <1>7 DEF SaveNick, StoreInv, StoreTypeOK, InPlace, uidVars, stickers, Places
  <2>2. GeneratedOK' /\ InPlace'
    BY <1>7
    DEF SaveNick, StoreInv, StoreTypeOK, GeneratedOK, InPlace, uidVars, stickers
  <2> QED
    BY <2>1, <2>2 DEF StoreInv
<1>8. ASSUME NEW p \in Programs, FirstSticker(p) PROVE StoreInv'
  <2>1. PICK more \in Seq(Entry) : more = Parsed(saved_stickers)
    BY ReadingTyped DEF StoreInv, StoreTypeOK
  <2>2. sticker_array' \in [Programs -> Seq(Entry)]
    <3>1. sticker_array[p] \o more \in Seq(Entry)
      BY DEF StoreInv, StoreTypeOK
    <3> QED
      BY <1>8, <2>1, <3>1 DEF FirstSticker, LoadStickers, StoreInv, StoreTypeOK
  <2>3. /\ place[p] = "chat" /\ ~history_loaded[p]
        /\ user_directory' = [user_directory EXCEPT ![p] = "stickers"]
        /\ \/ /\ place' = [place EXCEPT ![p] = "sticker"]
              /\ history_loaded' = [history_loaded EXCEPT ![p] = TRUE]
           \/ /\ place' = [place EXCEPT ![p] = "stuck"]
              /\ UNCHANGED history_loaded
        /\ UNCHANGED <<saved_stickers, made, uidVars, nicks, now, sessions>>
    BY <1>8 DEF FirstSticker, LoadStickers
  <2>4. /\ place' \in [Programs -> Places]
        /\ user_directory' \in [Programs -> Paths]
        /\ history_loaded' \in [Programs -> BOOLEAN]
    BY <2>3 DEF StoreInv, StoreTypeOK, Places, Paths
  <2>5. ASSUME NEW q \in Programs
        PROVE  /\ user_directory'[q] = "stickers" <=> history_loaded'[q] \/ place'[q] = "stuck"
               /\ place'[q] \in {"create", "write"} => place[q] = place'[q]
               /\ place'[q] = "nick" => place[q] = "nick"
               /\ place'[q] = "sticker" => history_loaded'[q]
    <3>1. /\ place \in [Programs -> Places] /\ history_loaded \in [Programs -> BOOLEAN]
          /\ user_directory \in [Programs -> Paths]
          /\ user_directory[q] = "stickers" <=> history_loaded[q] \/ place[q] = "stuck"
          /\ place[q] = "sticker" => history_loaded[q]
      BY DEF StoreInv, StoreTypeOK, InPlace
    <3>2. CASE q = p
      BY <2>3, <3>1, <3>2
    <3>3. CASE q # p
      BY <2>3, <3>1, <3>3
    <3> QED
      BY <3>2, <3>3
  <2>6. StoreTypeOK'
    BY <2>2, <2>3, <2>4, <2>5 DEF StoreInv, StoreTypeOK, uidVars, nicks
  <2>7. GeneratedOK' /\ InPlace'
    BY <2>3, <2>5 DEF StoreInv, GeneratedOK, InPlace, uidVars, nicks
  <2> QED
    BY <2>6, <2>7 DEF StoreInv
<1>9. ASSUME NEW p \in Programs, NextSticker(p) \/ UseSticker(p) PROVE StoreInv'
  <2>1. /\ \/ place' = [place EXCEPT ![p] = "sticker"] /\ history_loaded[p]
           \/ place' = [place EXCEPT ![p] = "chat"]
        /\ place[p] # "stuck"
    BY <1>9 DEF NextSticker, UseSticker
  <2>2. UNCHANGED <<uidVars, nicks, stickers, user_directory, now, sessions>>
    BY <1>9 DEF NextSticker, UseSticker
  <2>3. StoreTypeOK'
    BY <2>1, <2>2 DEF StoreInv, StoreTypeOK, uidVars, nicks, stickers, Places
  <2>4. GeneratedOK' /\ InPlace'
    BY <2>1, <2>2
    DEF StoreInv, StoreTypeOK, GeneratedOK, InPlace, uidVars, nicks, stickers
  <2> QED
    BY <2>3, <2>4 DEF StoreInv
<1>10. ASSUME NEW p \in Programs, CreateSticker(p) PROVE StoreInv'
  <2>1. PICK name \in Names :
          /\ sticker_array' = [sticker_array EXCEPT ![p] = Append(@, Sticker(name))]
          /\ saved_stickers' = IF user_directory[p] = "stickers"
                               THEN saved_stickers \o Printed(Sticker(name))
                               ELSE saved_stickers
          /\ made' = Append(made, Sticker(name))
    BY <1>10 DEF CreateSticker
  <2>2. PICK e \in Entry : e = Sticker(name)
    BY WrittenWords
  <2>3. PICK u \in Seq(Written) : u = Printed(Sticker(name))
    BY PrintedLines
  <2>4. saved_stickers' \in Seq(Written) /\ made' \in Seq(Entry)
    BY <2>1, <2>2, <2>3 DEF StoreInv, StoreTypeOK
  <2>5. sticker_array' \in [Programs -> Seq(Entry)]
    BY <2>1, <2>2 DEF StoreInv, StoreTypeOK
  <2>6. StoreTypeOK'
    BY <1>10, <2>4, <2>5
    DEF CreateSticker, StoreInv, StoreTypeOK, uidVars, nicks, Places
  <2>7. GeneratedOK' /\ InPlace'
    BY <1>10
    DEF CreateSticker, StoreInv, StoreTypeOK, GeneratedOK, InPlace, uidVars, nicks
  <2> QED
    BY <2>6, <2>7 DEF StoreInv
<1>11. ASSUME NEW p \in Programs, End(p) PROVE StoreInv'
  <2>1. <<>> \in Seq(Entry)
    OBVIOUS
  <2>2. StoreTypeOK'
    BY <1>0, <1>11, <2>1 DEF End, files, StoreInv, StoreTypeOK, Places, Paths
  <2>3. GeneratedOK' /\ InPlace'
    BY <1>11 DEF End, files, StoreInv, StoreTypeOK, GeneratedOK, InPlace
  <2> QED
    BY <2>2, <2>3 DEF StoreInv
<1>12. CASE Tick
  BY <1>0, <1>12
  DEF Tick, uidVars, nicks, stickers, StoreInv, StoreTypeOK, GeneratedOK, InPlace
<1>13. CASE UNCHANGED vars
  BY <1>13
  DEF vars, uidVars, nicks, stickers, StoreInv, StoreTypeOK, GeneratedOK, InPlace
<1> QED
  BY <1>1, <1>2, <1>3, <1>4, <1>5, <1>6, <1>7, <1>8, <1>9, <1>10, <1>11, <1>12, <1>13 DEF Next

\* What is on file and in memory has its type, whatever is started, killed and
\* started again (lmp.c, sticker_commands.c): above all, what is read back from
\* the file of stickers is stickers, and the path that is kept is that of this
\* file exactly in the programs that have loaded it.
THEOREM StoreTypeCorrect == Spec => []StoreTypeOK
<1>1. StoreInv => StoreTypeOK
  BY DEF StoreInv
<1> QED
  BY StoreInvInit, StoreInvStep, <1>1, PTL DEF Spec

-----------------------------------------------------------------------------
(* The stickers.  What is on file ends outside of any sticker, so that the *)
(* next one to be saved begins one.                                        *)

StickersInv == Readable(saved_stickers) /\ StickersRemembered

LEMMA StickersInvInit == Init => StickersInv
<1> SUFFICES ASSUME Init PROVE StickersInv
  OBVIOUS
<1>1. PICK s : s = <<>> /\ Len(s) = 0
  OBVIOUS
<1>2. Reading(s)[0] = Blank /\ Keeping(s)[0] = <<>>
  <2>1. Len(s) \in Nat
    BY <1>1
  <2> QED
    BY <2>1, ReadingSteps, KeepingSteps
<1>3. Reading(s)[Len(s)].in = "none" /\ Parsed(s) = s
  BY <1>1, <1>2 DEF Parsed, Blank
<1>4. saved_stickers = s /\ made = s /\ \A p \in Programs : sticker_array[p] = s
  BY <1>1 DEF Init
<1> QED
  BY <1>1, <1>3, <1>4 DEF StickersInv, StickersRemembered, Readable

LEMMA StickersInvStep ==
  TextsCloseForGood /\ StoreInv /\ StickersInv /\ [Next]_vars => StickersInv'
<1> SUFFICES ASSUME TextsCloseForGood, StoreInv, StickersInv, [Next]_vars
             PROVE  StickersInv'
  OBVIOUS
<1>1. /\ saved_stickers \in Seq(Written) /\ made \in Seq(Entry)
      /\ sticker_array \in [Programs -> Seq(Entry)]
  BY DEF StoreInv, StoreTypeOK
<1>2. ASSUME UNCHANGED <<saved_stickers, sticker_array, made>>
      PROVE  StickersInv'
  BY <1>2 DEF StickersInv, StickersRemembered
<1>3. ASSUME NEW p \in Programs, FirstSticker(p) PROVE StickersInv'
  <2>1. PICK more \in Seq(Entry) : more = Parsed(saved_stickers)
    BY <1>1, ReadingTyped
  <2>2. PICK old \in Seq(Entry) : old = sticker_array[p]
    BY <1>1
  <2>3. /\ sticker_array' = [sticker_array EXCEPT ![p] = old \o more]
        /\ saved_stickers' = saved_stickers /\ made' = made
    BY <1>3, <2>1, <2>2 DEF FirstSticker, LoadStickers, StickersInv
  <2>4. ASSUME NEW n \in 1 .. Len(old \o more), IsWhole((old \o more)[n])
        PROVE  Contains(made, (old \o more)[n])
    <3>1. CASE n \in 1 .. Len(old)
      <4>1. (old \o more)[n] = old[n] /\ n \in DOMAIN sticker_array[p]
        BY <2>2, <3>1
      <4> QED
        BY <2>2, <2>4, <4>1 DEF StickersInv, StickersRemembered
    <3>2. CASE n \notin 1 .. Len(old)
      <4>1. PICK m \in 1 .. Len(more) : (old \o more)[n] = more[m]
        <5>1. n - Len(old) \in 1 .. Len(more) /\ (old \o more)[n] = more[n - Len(old)]
          BY <3>2
        <5> QED
          BY <5>1
      <4>2. PICK e \in Entry : e = more[m]
        OBVIOUS
      <4>3. IsWhole(e) /\ \E i \in 1 .. Len(more) : more[i] = e
        BY <2>4, <4>1, <4>2
      <4>4. Contains(WholeOnes(more), e)
        BY <4>3, WholeOnesAre
      <4>5. WholeOnes(more) = WholeOnes(made)
        BY <2>1 DEF StickersInv, StickersRemembered
      <4>6. \E i \in 1 .. Len(made) : made[i] = e
        BY <1>1, <4>3, <4>4, <4>5, WholeOnesAre
      <4> QED
        BY <4>1, <4>2, <4>6 DEF Contains
    <3> QED
      BY <3>1, <3>2
  <2>5. ASSUME NEW q \in Programs, NEW n \in DOMAIN sticker_array'[q],
               IsWhole(sticker_array'[q][n])
        PROVE  Contains(made, sticker_array'[q][n])
    <3>1. CASE q = p
      <4>1. sticker_array'[q] = old \o more
        BY <1>1, <2>3, <3>1
      <4>2. DOMAIN (old \o more) = 1 .. Len(old \o more)
        OBVIOUS
      <4> QED
        BY <2>4, <2>5, <4>1, <4>2
    <3>2. CASE q # p
      BY <1>1, <2>3, <2>5, <3>2 DEF StickersInv, StickersRemembered
    <3> QED
      BY <3>1, <3>2
  <2> QED
    BY <2>3, <2>5 DEF StickersInv, StickersRemembered
<1>4. ASSUME NEW p \in Programs, CreateSticker(p) PROVE StickersInv'
  <2>1. PICK name \in Names :
          /\ sticker_array' = [sticker_array EXCEPT ![p] = Append(@, Sticker(name))]
          /\ saved_stickers' = saved_stickers \o Printed(Sticker(name))
          /\ made' = Append(made, Sticker(name))
    <3>1. user_directory[p] = "stickers"
      BY <1>4 DEF CreateSticker, Step, StoreInv, StoreTypeOK, InPlace
    <3> QED
      BY <1>4, <3>1 DEF CreateSticker
  <2>2. PICK s \in Entry : s = Sticker(name) /\ s.name = name
    BY WrittenWords DEF Sticker
  <2>3. PICK t : t = saved_stickers'
    OBVIOUS
  <2>4. /\ Reading(t)[Len(t)].in = "none"
        /\ \E e \in Entry : /\ Parsed(t) = Append(Parsed(saved_stickers), e) /\ e.name = name
                            /\ IsWhole(s) => e = s
    BY <1>1, <2>1, <2>2, <2>3, SavedSticker DEF StickersInv, Readable
  <2>5. PICK e \in Entry : /\ Parsed(t) = Append(Parsed(saved_stickers), e) /\ e.name = name
                           /\ IsWhole(s) => e = s
    BY <2>4
  <2>6. IsWhole(e) <=> IsWhole(s)
    BY <2>2, <2>5 DEF IsWhole
  <2>7. WholeOnes(Parsed(t)) = WholeOnes(made')
    <3>1. Parsed(saved_stickers) \in Seq(Entry)
      BY <1>1, ReadingTyped
    <3>2. WholeOnes(Parsed(t)) = IF IsWhole(e) THEN Append(WholeOnes(Parsed(saved_stickers)), e)
                                 ELSE WholeOnes(Parsed(saved_stickers))
      BY <2>5, <3>1, OneMore
    <3>3. WholeOnes(made') = IF IsWhole(s) THEN Append(WholeOnes(made), s) ELSE WholeOnes(made)
      BY <1>1, <2>1, <2>2, OneMore
    <3>4. WholeOnes(Parsed(saved_stickers)) = WholeOnes(made)
      BY DEF StickersInv, StickersRemembered
    <3> QED
      BY <2>5, <2>6, <3>2, <3>3, <3>4
  <2>8. /\ Contains(made', s)
        /\ \A f : Contains(made, f) => Contains(made', f)
    <3>1. made' = Append(made, s)
      BY <2>1, <2>2
    <3>2. PICK b : b = Append(made, s)
      OBVIOUS
    <3>3. /\ Len(b) \in 1 .. Len(b) /\ b[Len(b)] = s
          /\ \A i \in 1 .. Len(made) : i \in 1 .. Len(b) /\ b[i] = made[i]
      BY <1>1, <3>2
    <3> QED
      BY <3>1, <3>2, <3>3 DEF Contains
  <2>9. ASSUME NEW q \in Programs, NEW n \in DOMAIN sticker_array'[q],
               IsWhole(sticker_array'[q][n])
        PROVE  Contains(made', sticker_array'[q][n])
    <3>1. PICK old \in Seq(Entry) : old = sticker_array[q]
      BY <1>1
    <3>2. sticker_array'[q] = old \/ sticker_array'[q] = Append(old, s)
      BY <1>1, <2>1, <2>2, <3>1
    <3>3. \A m \in DOMAIN old : IsWhole(old[m]) => Contains(made, old[m])
      BY <3>1 DEF StickersInv, StickersRemembered
    <3>4. CASE sticker_array'[q] = old
      BY <2>8, <2>9, <3>3, <3>4
    <3>5. CASE sticker_array'[q] = Append(old, s)
      <4>1. Append(old, s)[n] = s \/ (n \in DOMAIN old /\ Append(old, s)[n] = old[n])
        BY <2>9, <3>5
      <4> QED
        BY <2>8, <2>9, <3>3, <3>5, <4>1
    <3> QED
      BY <3>2, <3>4, <3>5
  <2> QED
    BY <2>3, <2>4, <2>7, <2>9 DEF StickersInv, StickersRemembered, Readable
<1>5. ASSUME NEW p \in Programs, End(p) PROVE StickersInv'
  <2>1. /\ sticker_array' = [sticker_array EXCEPT ![p] = <<>>]
        /\ saved_stickers' = saved_stickers /\ made' = made
    BY <1>5 DEF End, files
  <2>2. \A q \in Programs : sticker_array'[q] = sticker_array[q] \/ sticker_array'[q] = <<>>
    BY <1>1, <2>1
  <2>3. DOMAIN <<>> = {}
    OBVIOUS
  <2> QED
    BY <2>1, <2>2, <2>3 DEF StickersInv, StickersRemembered
<1>6. ASSUME NEW p \in Programs,
             Start(p) \/ GenerateUid(p) \/ CreateUidFile(p) \/ WriteUidFile(p) \/ ChatStart(p)
               \/ NickSend(p) \/ SaveNick(p) \/ NextSticker(p) \/ UseSticker(p)
      PROVE  UNCHANGED <<saved_stickers, sticker_array, made>>
  BY <1>6
  DEF Start, ReadUid, GenerateUid, CreateUidFile, WriteUidFile, ChatStart, NickSend, SaveNick,
      NextSticker, UseSticker, stickers
<1>7. Tick \/ UNCHANGED vars => UNCHANGED <<saved_stickers, sticker_array, made>>
  BY DEF Tick, vars, stickers
<1> QED
  BY <1>2, <1>3, <1>4, <1>5, <1>6, <1>7 DEF Next

\* Stickers (sticker_commands.c): every sticker ever created is on file, in one
\* piece and in order, and what a program has loaded or created is among them,
\* whatever programs create stickers, load them and are killed: provided that no
\* text closes its sticker and then opens another.
THEOREM StickersStay == TextsCloseForGood => (Spec => []StickersRemembered)
<1> SUFFICES ASSUME TextsCloseForGood PROVE Spec => []StickersRemembered
  OBVIOUS
<1>1. Init => StoreInv /\ StickersInv
  BY StoreInvInit, StickersInvInit
<1>2. (StoreInv /\ StickersInv) /\ [Next]_vars => (StoreInv /\ StickersInv)'
  BY StoreInvStep, StickersInvStep
<1>3. StoreInv /\ StickersInv => StickersRemembered
  BY DEF StickersInv
<1> QED
  BY <1>1, <1>2, <1>3, PTL DEF Spec

=============================================================================
