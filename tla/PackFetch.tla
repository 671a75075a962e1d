------------------------------- MODULE PackFetch -------------------------------
(***************************************************************************)
(* Reading one object after the other (GetTreePackFile, GetBlobPackFile    *)
(* and GetObjectFromPackFile in arq/pack_set_index.go, BlobKeysReader and  *)
(* GetDataBlobKeyContentsFromObjects in arq/repo.go): the pack that the    *)
(* lookup of PackIndex has found is brought into the cache, deleted and    *)
(* asked for again if it is not valid; a blob that no pack gives is looked *)
(* for among the objects stored on their own.                              *)
(*                                                                         *)
(* One goroutine reads.  The process may end at any moment and be run      *)
(* again over whatever it left in the cache directory.                     *)
(***************************************************************************)
EXTENDS Connector

CONSTANTS
    Object,     \* commits, trees and blobs
    Tree,       \* those that are read as commits or trees
    Raw,        \* those that Arq stored without compressing them
    Gzip,       \* those of them that are compressed files themselves
    Pack,       \* the pack whose index the lookup finds for each object
    NoPack,     \* the lookup finds none
    Single      \* the key of each blob when it is stored on its own

ASSUME PackFetchAssumption ==
    /\ Tree \subseteq Object /\ Raw \subseteq Object /\ Gzip \subseteq Raw
    /\ Pack \in [Object -> Key \cup {NoPack}]
    /\ Single \in [Object \ Tree -> Key]
    /\ \A b \in Object \ Tree, o \in Object : Single[b] # Pack[o]

VARIABLES
    object,     \* the object being read, or read last
    stage,      \* what the reader is doing: "done" when it has an answer
    attempt,    \* how often it has asked for the pack
    answer,     \* what it got: the object, an error, or other bytes
    salt        \* what getSalt has read, from which the key is made

fetchVars == <<object, stage, attempt, answer, salt>>
vars == <<connectorVars, fetchVars>>

(* The goroutine that reads is the only client of the connector. *)
Reader == CHOOSE c \in Client : TRUE

(* Nobody checks the salt: what is cut off, or empty, makes a key as well. *)
Salts == {"whole", "damaged"}

PackFetchTypeOK ==
    /\ ConnectorTypeOK
    /\ object \in Object
    /\ stage \in {"pack", "remove", "nopack", "single", "done"}
    /\ attempt \in 1..2
    /\ answer \in {"none", "object", "error", "garbage"}
    /\ salt \in Salts
    /\ stage \in {"pack", "single"} <=> at[Reader] # "idle"
    /\ stage = "single" => object \notin Tree

Init ==
    /\ ConnectorInit
    /\ object \in Object
    /\ stage = "done"
    /\ attempt = 1
    /\ answer = "none"
    /\ salt \in Salts
--------------------------------------------------------------------------------
(* What the handling of a returned call leaves alone. *)
Unchanged == UNCHANGED <<backend, host, remote, object, salt>>

Goes(next) ==
    /\ stage' = next
    /\ UNCHANGED answer

(* A mistake to be caught: the answer does not end the read. *)
AnswersOnly(a) ==
    /\ answer' = a
    /\ UNCHANGED stage

Answers(a) ==
    /\ stage' = "done"
    /\ answer' = a

(* An object is asked for, and the lookup has found the index of a pack. *)
ReadFromPack(o) ==
    /\ stage = "done"
    /\ Pack[o] # NoPack
    /\ object' = o
    /\ stage' = "pack"
    /\ attempt' = 1
    /\ answer' = "none"
    /\ StartCachedGet(Reader, Pack[o])
    /\ UNCHANGED <<backend, host, remote, cache, faults, salt>>

(* The lookup has found none. *)
ReadWithoutPack(o) ==
    /\ stage = "done"
    /\ Pack[o] = NoPack
    /\ object' = o
    /\ stage' = "nopack"
    /\ answer' = "none"
    /\ UNCHANGED <<connectorVars, attempt, salt>>

Connect ==
    /\ ConnectorStep(Reader)
    /\ UNCHANGED fetchVars

(* The call made for this purpose is back; its error is looked at or not. *)
Back(purpose) ==
    /\ stage = purpose
    /\ Returned(Reader)
    /\ at' = [at EXCEPT ![Reader] = "idle"]
    /\ Unchanged
    /\ UNCHANGED <<want, cache, attempt>>

Disk == LocalFaults /\ faults' = faults \cup {"disk"}

(* The checksum at its end is that of the file (arq/pack.go). *)
ValidPack(file) == file = "whole"

(***************************************************************************)
(* What the decryption makes of a file: the contents; an error; or, where  *)
(* what is deciphered happens to end like padding, the beginning of the    *)
(* contents of a file that was cut off, or noise when the key is wrong.    *)
(***************************************************************************)
Decrypt(file) ==
    IF file = "whole" /\ salt = "whole" THEN {"contents"}
    ELSE {"error"} \cup
         (IF NonZero(file) THEN {IF salt = "whole" THEN "beginning" ELSE "noise"} ELSE {})

(***************************************************************************)
(* An object in a pack is decompressed, also when Arq did not compress it, *)
(* or, when that fails, taken as it was to begin with.                     *)
(***************************************************************************)
GunzipOrAsIs(o, data) ==
    IF data = "error" THEN "error"
    ELSE IF data = "contents" /\ o \notin Gzip THEN "object" ELSE "garbage"

(* The pack is valid: the object is cut out of it, decrypted and so on. *)
PackGives ==
    /\ Back("pack")
    /\ ValidPack(File(Reader))
    /\ \E data \in Decrypt(File(Reader)) : Answers(GunzipOrAsIs(object, data))
    /\ UNCHANGED faults

(* The pack is valid, but cannot be read any more after that. *)
PackUnreadable ==
    /\ Back("pack")
    /\ ValidPack(File(Reader))
    /\ Goes("nopack")
    /\ Disk

(* The error of CachedGet is only logged: what matters is the file. *)
PackInvalid ==
    /\ Back("pack")
    /\ \/ ~ValidPack(File(Reader)) /\ UNCHANGED faults
       \/ Disk
    /\ Goes(IF attempt = 1 THEN "remove" ELSE "nopack")

(* A mistake to be caught: the retry starts over. *)
FirstCallAgain == 1

(* The second call of CachedGet is the last one. *)
SecondCall == 2

(* A mistake to be caught: the invalid pack stays where it is. *)
InvalidPackStays ==
    /\ stage = "remove"
    /\ File(Reader) # "none"
    /\ stage' = "pack"
    /\ attempt' = SecondCall
    /\ StartCachedGet(Reader, want[Reader])
    /\ Unchanged
    /\ UNCHANGED <<cache, faults, answer>>

RemoveInvalid ==
    /\ stage = "remove"
    /\ File(Reader) # "none"
    /\ cache' = [cache EXCEPT ![want[Reader]] = "none"]
    /\ stage' = "pack"
    /\ attempt' = SecondCall
    /\ StartCachedGet(Reader, want[Reader])
    /\ Unchanged
    /\ UNCHANGED <<faults, answer>>

(* There is no file to delete, or it cannot be deleted. *)
RemoveFails ==
    /\ stage = "remove"
    /\ \/ File(Reader) = "none" /\ UNCHANGED faults
       \/ File(Reader) # "none" /\ Disk
    /\ Goes("nopack")
    /\ Unchanged
    /\ UNCHANGED <<at, want, cache, attempt>>
--------------------------------------------------------------------------------
(* Commits and trees are looked for in packs only. *)
TreeIsLost ==
    /\ stage = "nopack"
    /\ object \in Tree
    /\ Answers("error")
    /\ UNCHANGED <<connectorVars, object, attempt, salt>>

(* A blob that no pack gives is looked for among the objects. *)
LookInObjects ==
    /\ stage = "nopack"
    /\ object \notin Tree
    /\ Goes("single")
    /\ StartCachedGet(Reader, Single[object])
    /\ UNCHANGED <<backend, host, remote, cache, faults, object, attempt, salt>>

(***************************************************************************)
(* Contents that are not compressed, the beginning of some that are, and   *)
(* noise end in an error: here is no fallback as for objects in packs.     *)
(***************************************************************************)
Gunzip(o, data) ==
    IF data = "contents" /\ o \notin Raw \ Gzip THEN GunzipOrAsIs(o, data)
                                               ELSE "error"

(* The file is not checked before it is decrypted, nor deleted after. *)
SingleGives ==
    /\ Back("single")
    /\ at[Reader] = "ok"
    /\ \E data \in Decrypt(File(Reader)) : Answers(Gunzip(object, data))
    /\ UNCHANGED faults

SingleFails ==
    /\ Back("single")
    /\ \/ at[Reader] = "err" /\ UNCHANGED faults
       \/ Disk
    /\ Answers("error")

(***************************************************************************)
(* The process ends, before or after the answer, and is run again with or  *)
(* without --delete-cache-directory.  The salt is in the cache, too, and   *)
(* asked for again if it is deleted with the rest, or if it is empty.      *)
(***************************************************************************)
Rerun ==
    /\ \/ UNCHANGED cache /\ (salt = "whole" => UNCHANGED salt)
       \/ cache' = [k \in Key |-> "none"]
    /\ salt' \in Salts
    /\ at' = [c \in Client |-> "idle"]
    /\ faults' = {}
    /\ stage' = "done"
    /\ answer' = "none"
    /\ UNCHANGED <<backend, host, remote, want, object, attempt>>

Reading ==
    \/ Connect
    \/ PackGives
    \/ PackUnreadable
    \/ PackInvalid
    \/ RemoveInvalid
    \/ RemoveFails
    \/ TreeIsLost
    \/ LookInObjects
    \/ SingleGives
    \/ SingleFails

Next ==
    \/ \E o \in Object : ReadFromPack(o) \/ ReadWithoutPack(o)
    \/ Reading
    \/ Rerun

Spec == Init /\ [][Next]_vars /\ WF_vars(Reading)
--------------------------------------------------------------------------------
(***************************************************************************)
(* What a read answers with is the object or an error, whatever the store  *)
(* holds and earlier processes left in the cache.  A pack is checked by    *)
(* its checksum.  An object on its own is not: one that was cut off, or    *)
(* that is deciphered with the key of a salt that was cut off, is told by  *)
(* its padding (crypto.go:77-89) or, where that looks right, by its        *)
(* decompression (repo.go:215-235).  There are two exceptions: a           *)
(* compressed file that Arq did not compress again is decompressed all the *)
(* same (pack_set_index.go:379: nobody asks for IsCompressed of the blob   *)
(* key), and with a salt that was cut off noise from a pack is taken for   *)
(* an object that was not compressed (pack_set_index.go:380-383).          *)
(***************************************************************************)
NoGarbage ==
    answer = "garbage" =>
        \/ object \in Gzip
        \/ salt # "whole" /\ want[Reader] = Pack[object]

(***************************************************************************)
(* While nothing fails and the salt is right, a read ends in an error only *)
(* if the store has neither a valid pack nor, for a blob, a valid          *)
(* compressed object, or if an object that is not valid was left in the    *)
(* cache, from where every later call takes it.  A pack that was left      *)
(* there is replaced (pack_set_index.go:462-478).                          *)
(***************************************************************************)
ErrorHasCause ==
    answer = "error" /\ faults = {} /\ salt = "whole" =>
        /\ Pack[object] = NoPack \/ remote[Pack[object]] # "whole"
        /\ \/ object \in Tree
           \/ object \in Raw
           \/ remote[Single[object]] # "whole"
           \/ cache[Single[object]] = "damaged"

(***************************************************************************)
(* Every read ends: the pack is asked for twice at most, and the objects   *)
(* once (pack_set_index.go:458-478, repo.go:170-179).                      *)
(***************************************************************************)
EveryReadEnds == stage # "done" ~> stage = "done"

(***************************************************************************)
(* An object that Arq did not compress is read as it is, also one stored   *)
(* on its own: "Try to decompress, if fails then assume it was             *)
(* uncompressed to begin with" (repo.go:220).                              *)
(***************************************************************************)
RawIsRead ==
    answer = "error" /\ faults = {} /\ salt = "whole" /\ object \in Raw \ Tree =>
        remote[Single[object]] # "whole" \/ cache[Single[object]] = "damaged"
================================================================================
