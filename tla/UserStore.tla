----------------------------- MODULE UserStore -----------------------------
(***************************************************************************)
(* What a user's directory ~/lmp/<username>/ keeps from one session to the *)
(* next, UID, nickname and stickers, and the programs that read and write  *)
(* it (uid.c, directory_manager.c, sticker_commands.c, lmp.c).             *)
(*                                                                         *)
(* Conventions.                                                            *)
(*  - The module is about one directory; several programs may be started   *)
(*    in it.  A program may be killed at any time and started again.       *)
(*  - Opening a file with "w" empties it; what is printed gets into it     *)
(*    when it is closed.                                                   *)
(*  - A file is a sequence of lines, and so is the text of a sticker,      *)
(*    however its last line ends.                                          *)
(*  - rand() after srand() is a function of the seed: the second is the    *)
(*    UID that is generated in it.                                         *)
(*  - A nickname is a sequence of words, as the user types it.             *)
(*  - uids, raced and made observe; no action reads them.                  *)
(***************************************************************************)
EXTENDS Integers, FiniteSets, SequencesExt

CONSTANTS
  Programs,     \* the programs started in the directory
  Nicks,        \* nicknames that /nick gives
  Names,        \* names of stickers
  TextOf,       \* what the user draws when a sticker of the name is created
  LastSecond,   \* bound: the last second
  MaxSessions   \* bound: how often a program is started

VARIABLES
  uid_file,        \* the UID in uid.txt, 0 if it is missing or empty
  nick_file,       \* per path before the name nick.txt, the words in that file
  saved_stickers,  \* the lines of saved_stickers.txt
  place,           \* where a program is
  caller,          \* where it goes on after get_uid
  hex_uid,         \* its UID
  user_directory,  \* the path it keeps: of the directory, or of the file of stickers
  my_nick,
  sticker_array,
  history_loaded,
  now,             \* the second
  sessions,        \* how often a program was started
  uids,            \* the UIDs that get_uid returned
  raced,           \* whether two programs were about to create the UID at once
  made             \* the stickers that were created, the oldest first

files == <<uid_file, nick_file, saved_stickers>>
stickers == <<saved_stickers, sticker_array, history_loaded, made>>
nicks == <<nick_file, my_nick>>
uidVars == <<uid_file, caller, hex_uid, uids, raced>>
vars == <<uidVars, nicks, stickers, place, user_directory, now, sessions>>

\* What get_user_directory returns: the directory, or, in the same buffer, the
\* path of saved_stickers.txt in it.  open_file_in_user_directory appends the
\* name of a file to either.
Paths == {"directory", "stickers"}

\* "stuck" is a program in load_stickers that will not return.
Places == {"off", "generate", "create", "write", "started", "chat", "nick", "sticker", "stuck"}

Open  == "<STICKER>"
Close == "</STICKER>"

ASSUME StoreAssumption ==
  /\ IsFiniteSet(Programs)
  /\ Nicks \subseteq Seq(STRING) /\ Names \subseteq STRING
  /\ TextOf \in [Names -> Seq(STRING)]
  /\ LastSecond \in Nat \ {0} /\ MaxSessions \in Nat

NoNick == <<"You">>

Sticker(name) == [name |-> name, sticker |-> TextOf[name]]

Init ==
  /\ uid_file = 0
  /\ nick_file = [path \in Paths |-> <<>>]
  /\ saved_stickers = <<>>
  /\ place = [p \in Programs |-> "off"]
  /\ caller = [p \in Programs |-> "started"]
  /\ hex_uid = [p \in Programs |-> 0]
  /\ user_directory = [p \in Programs |-> "directory"]
  /\ my_nick = [p \in Programs |-> NoNick]
  /\ sticker_array = [p \in Programs |-> <<>>]
  /\ history_loaded = [p \in Programs |-> FALSE]
  /\ now = 1
  /\ sessions = [p \in Programs |-> 0]
  /\ uids = {}
  /\ raced = FALSE
  /\ made = <<>>

Step(p, from, to) == place[p] = from /\ place' = [place EXCEPT ![p] = to]

\* A program that found no UID and has not stored one.
Creates(p) == place[p] \in {"generate", "create", "write"}

-----------------------------------------------------------------------------
(* get_uid. *)

\* uid.txt is read: get_uid returns the UID in it, or generates one.
ReadUid(p, from) ==
  /\ caller' = [caller EXCEPT ![p] = from]
  /\ hex_uid' = [hex_uid EXCEPT ![p] = uid_file]
  /\ IF uid_file # 0
     THEN /\ place' = [place EXCEPT ![p] = from]
          /\ uids' = uids \cup {uid_file}
          /\ UNCHANGED raced
     ELSE /\ place' = [place EXCEPT ![p] = "generate"]
          /\ raced' = (raced \/ \E q \in Programs \ {p} : Creates(q))
          /\ UNCHANGED uids
  /\ UNCHANGED <<uid_file, stickers, user_directory, now>>

\* The program starts: init_user_information.
Start(p) ==
  /\ place[p] = "off"
  /\ sessions[p] < MaxSessions
  /\ sessions' = [sessions EXCEPT ![p] = @ + 1]
  /\ ReadUid(p, "started")
  /\ UNCHANGED nicks

\* Mutant: the sum overflows.
GenerateUid_Negative(p) ==
  /\ Step(p, "generate", "create")
  /\ hex_uid' = [hex_uid EXCEPT ![p] = -now]
  /\ UNCHANGED <<uid_file, caller, uids, raced, nicks, stickers, user_directory, now,
                 sessions>>

\* generate_uid.
GenerateUid(p) ==
  /\ Step(p, "generate", "create")
  /\ hex_uid' = [hex_uid EXCEPT ![p] = now]
  /\ UNCHANGED <<uid_file, caller, uids, raced, nicks, stickers, user_directory, now,
                 sessions>>

\* uid.txt is opened for writing,
CreateUidFile(p) ==
  /\ Step(p, "create", "write")
  /\ uid_file' = 0
  /\ UNCHANGED <<caller, hex_uid, uids, raced, nicks, stickers, user_directory, now,
                 sessions>>

\* Mutant: the UID is returned and the file left empty.
WriteUidFile_Empty(p) ==
  /\ Step(p, "write", caller[p])
  /\ uids' = uids \cup {hex_uid[p]}
  /\ UNCHANGED <<uid_file, caller, hex_uid, raced, nicks, stickers, user_directory, now,
                 sessions>>

\* written, and closed; get_uid returns.
WriteUidFile(p) ==
  /\ Step(p, "write", caller[p])
  /\ uid_file' = hex_uid[p]
  /\ uids' = uids \cup {hex_uid[p]}
  /\ UNCHANGED <<caller, hex_uid, raced, nicks, stickers, user_directory, now, sessions>>

-----------------------------------------------------------------------------
(* The chat. *)

\* chat_loop: the nickname on file, up to a blank, and the UID once more.
ChatStart(p) ==
  /\ place[p] = "started"
  /\ LET nick == nick_file[user_directory[p]]
     IN  my_nick' = [my_nick EXCEPT ![p] = IF nick = <<>> THEN NoNick ELSE <<Head(nick)>>]
  /\ ReadUid(p, "chat")
  /\ UNCHANGED <<nick_file, sessions>>

\* nick_send and lmp_save_nick: nick.txt is opened,
NickSend(p) ==
  /\ Step(p, "chat", "nick")
  /\ \E nick \in Nicks : my_nick' = [my_nick EXCEPT ![p] = nick]
  /\ nick_file' = [nick_file EXCEPT ![user_directory[p]] = <<>>]
  /\ UNCHANGED <<uidVars, stickers, user_directory, now, sessions>>

\* written, and closed.
SaveNick(p) ==
  /\ Step(p, "nick", "chat")
  /\ nick_file' = [nick_file EXCEPT ![user_directory[p]] = my_nick[p]]
  /\ UNCHANGED <<my_nick, uidVars, stickers, user_directory, now, sessions>>

-----------------------------------------------------------------------------
(* Stickers. *)

\* The parser of load_stickers: a line outside of any sticker is skipped unless
\* it opens one, of which the next line is the name.
ParseLine(line, acc) ==
  CASE acc.in = "text" /\ line = Close -> [acc EXCEPT !.in = "none"]
    [] acc.in = "text" /\ line # Close ->
         [acc EXCEPT !.array[Len(acc.array)].sticker = Append(@, line)]
    [] acc.in = "name"                 ->
         [in |-> "text", array |-> Append(acc.array, [name |-> line, sticker |-> <<>>])]
    [] acc.in = "none" /\ line = Open  -> [acc EXCEPT !.in = "name"]
    [] OTHER                           -> acc

\* Where it is after each line.
Reading(lines) ==
  LET reading[n \in 0 .. Len(lines)] ==
        IF n = 0 THEN [in |-> "none", array |-> <<>>] ELSE ParseLine(lines[n], reading[n - 1])
  IN  reading

Parsed(lines) == Reading(lines)[Len(lines)].array

\* The parser comes to the end of the file outside of any sticker.  Inside of
\* one it would read on at the end for ever.
Readable(lines) == Reading(lines)[Len(lines)].in = "none"

\* What save_sticker prints.
Printed(entry) == <<Open, entry.name>> \o entry.sticker \o <<Close>>

\* Mutant: the path is composed in a buffer of its own.
LoadStickers_OwnBuffer(p) ==
  /\ IF Readable(saved_stickers)
     THEN /\ sticker_array' = [sticker_array EXCEPT ![p] = @ \o Parsed(saved_stickers)]
          /\ history_loaded' = [history_loaded EXCEPT ![p] = TRUE]
     ELSE UNCHANGED <<sticker_array, history_loaded>>
  /\ UNCHANGED user_directory

\* load_stickers composes the path of the file in the static buffer that
\* get_user_directory returns.
LoadStickers(p) ==
  /\ IF Readable(saved_stickers)
     THEN /\ sticker_array' = [sticker_array EXCEPT ![p] = @ \o Parsed(saved_stickers)]
          /\ history_loaded' = [history_loaded EXCEPT ![p] = TRUE]
     ELSE UNCHANGED <<sticker_array, history_loaded>>
  /\ user_directory' = [user_directory EXCEPT ![p] = "stickers"]

\* The first /sticker of a session loads what is on file, whatever it does next;
\* it does nothing next if the file cannot be read to its end.
FirstSticker(p) ==
  /\ Step(p, "chat", IF Readable(saved_stickers) THEN "sticker" ELSE "stuck")
  /\ ~history_loaded[p]
  /\ LoadStickers(p)
  /\ UNCHANGED <<saved_stickers, made, uidVars, nicks, now, sessions>>

\* The commands that only look a sticker up: list, preview, send, and create
\* with the name of one that exists.
UseSticker(p) ==
  /\ Step(p, "sticker", "chat")
  /\ UNCHANGED <<uidVars, nicks, stickers, user_directory, now, sessions>>

NextSticker(p) ==
  /\ Step(p, "chat", "sticker")
  /\ history_loaded[p]
  /\ UNCHANGED <<uidVars, nicks, stickers, user_directory, now, sessions>>

\* create_sticker, get_sticker and save_sticker, which opens what
\* get_user_directory returns; to open a directory fails, silently.
CreateSticker(p) ==
  /\ Step(p, "sticker", "chat")
  /\ \E name \in Names :
       /\ \A n \in DOMAIN sticker_array[p] : sticker_array[p][n].name # name
       /\ sticker_array' = [sticker_array EXCEPT ![p] = Append(@, Sticker(name))]
       /\ saved_stickers' = IF user_directory[p] = "stickers"
                            THEN saved_stickers \o Printed(Sticker(name))
                            ELSE saved_stickers
       /\ made' = Append(made, Sticker(name))
  /\ UNCHANGED <<history_loaded, uidVars, nicks, user_directory, now, sessions>>

-----------------------------------------------------------------------------

\* The program ends, or is killed; what it had in memory is gone.
End(p) ==
  /\ place[p] # "off"
  /\ place' = [place EXCEPT ![p] = "off"]
  /\ hex_uid' = [hex_uid EXCEPT ![p] = 0]
  /\ user_directory' = [user_directory EXCEPT ![p] = "directory"]
  /\ my_nick' = [my_nick EXCEPT ![p] = NoNick]
  /\ sticker_array' = [sticker_array EXCEPT ![p] = <<>>]
  /\ history_loaded' = [history_loaded EXCEPT ![p] = FALSE]
  /\ UNCHANGED <<files, caller, now, sessions, uids, raced, made>>

Tick ==
  /\ now < LastSecond
  /\ now' = now + 1
  /\ UNCHANGED <<uidVars, nicks, stickers, place, user_directory, sessions>>

Next ==
  \/ Tick
  \/ \E p \in Programs :
       \/ Start(p) \/ GenerateUid(p) \/ CreateUidFile(p) \/ WriteUidFile(p)
       \/ ChatStart(p) \/ NickSend(p) \/ SaveNick(p)
       \/ FirstSticker(p) \/ NextSticker(p) \/ UseSticker(p) \/ CreateSticker(p)
       \/ End(p)

Spec == Init /\ [][Next]_vars

-----------------------------------------------------------------------------
(* Properties. *)

\* What there is to write into the file of stickers.
Written == {Open, Close} \cup Names \cup UNION {Range(TextOf[name]) : name \in Names}
Entry   == [name : Written, sticker : Seq(Written)]

\* A nickname as it is read back.
FirstWords == {<<Head(nick)>> : nick \in Nicks \ {<<>>}}

\* Every variable has its type; the path is that of the stickers' file from
\* the first /sticker on, and only then, and stickers count as loaded once
\* that has returned.
StoreTypeOK ==
  /\ uid_file \in 0 .. LastSecond
  /\ nick_file \in [Paths -> Nicks \cup {<<>>}]
  /\ saved_stickers \in Seq(Written)
  /\ place \in [Programs -> Places]
  /\ caller \in [Programs -> {"started", "chat"}]
  /\ hex_uid \in [Programs -> 0 .. LastSecond]
  /\ user_directory \in [Programs -> Paths]
  /\ \A p \in Programs :
       user_directory[p] = "stickers" <=> history_loaded[p] \/ place[p] = "stuck"
  /\ my_nick \in [Programs -> Nicks \cup FirstWords \cup {NoNick}]
  /\ sticker_array \in [Programs -> Seq(Entry)]
  /\ history_loaded \in [Programs -> BOOLEAN]
  /\ now \in 1 .. LastSecond
  /\ sessions \in [Programs -> 0 .. MaxSessions]
  /\ uids \subseteq 1 .. LastSecond
  /\ raced \in BOOLEAN
  /\ made \in Seq(Entry)

\* The user has one UID for life, wherever programs are killed while they
\* create it and start again, unless two of them create it at once; and what
\* was returned once is on file.
UidForLife == ~raced => uids \subseteq {uid_file} \ {0}

\* A sticker of which no line ends stickers.
IsWhole(entry) == entry.name \in Names /\ ~Contains(TextOf[entry.name], Close)

Keep(kept, entry) == IF IsWhole(entry) THEN Append(kept, entry) ELSE kept

\* Those of entries, in order: after each of them, and in all.
Keeping(entries) ==
  LET kept[n \in 0 .. Len(entries)] ==
        IF n = 0 THEN <<>> ELSE Keep(kept[n - 1], entries[n])
  IN  kept

WholeOnes(entries) == Keeping(entries)[Len(entries)]

\* Every sticker ever created is on file, in one piece and in order, whatever
\* programs create stickers, load them and are killed; and what a program has
\* loaded or created is among them.
StickersRemembered ==
  /\ WholeOnes(Parsed(saved_stickers)) = WholeOnes(made)
  /\ \A p \in Programs :
       \A n \in DOMAIN sticker_array[p] :
         IsWhole(sticker_array[p][n]) => Contains(made, sticker_array[p][n])

\* "Press ESC to finish editing and save the sticker. Stickers are stored in
\* ~/lmp/<username>/saved_stickers.txt" (README.md:101): whatever was drawn, the
\* file can be read again, and no program is stuck in load_stickers.
StickersReadable == \A p \in Programs : place[p] # "stuck"

\* "/nick <name>: Set your nickname and persist it" (README.md:81): what a
\* program that runs alone goes by is what it has on file.
NickPersisted ==
  \A p \in Programs :
    place[p] = "chat" /\ my_nick[p] # NoNick => nick_file["directory"] = my_nick[p]
=============================================================================
