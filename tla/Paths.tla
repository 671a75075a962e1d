--------------------------------- MODULE Paths ---------------------------------
(***************************************************************************)
(* The functions of Go's strings and path that FindNode and DownloadTree   *)
(* work with.  A path is a string, and here the sequence of what stands    *)
(* between its slashes, each a sequence of letters: "/u/d" is              *)
(* << <<>>, <<"u">>, <<"d">> >>, the empty string << <<>> >>.  So the      *)
(* concatenation of sequences puts a slash between two strings.            *)
(***************************************************************************)
EXTENDS Naturals, Sequences, SequencesExt

EmptyPath == << <<>> >>
Slash == << <<>>, <<>> >>
Dot == <<".">>
DotDot == <<".", ".">>

(* What a file can be called. *)
IsPlain(name) == name \notin {<<>>, Dot, DotDot}

(* A path of such names, from where the reader is. *)
IsNames(path) ==
    /\ path \in Seq(Seq(STRING)) /\ path # <<>>
    /\ \A j \in 1..Len(path) : IsPlain(path[j])

(* The path from the root of the file system. *)
Rooted(names) == IF names = <<>> THEN Slash ELSE << <<>> >> \o names

(* A path from there, without a slash at its end. *)
IsAbsolute(path) ==
    /\ path \in Seq(Seq(STRING)) /\ Len(path) > 1 /\ path[1] = <<>>
    /\ path = Slash \/ \A j \in 2..Len(path) : IsPlain(path[j])

(* Two strings, one right after the other. *)
Concat(s, t) == Front(s) \o << Last(s) \o Head(t) >> \o Tail(t)

(* strings.HasPrefix: the last element of the prefix may end in the middle *)
(* of one of the string.                                                   *)
HasPrefix(s, p) ==
    /\ Len(p) <= Len(s)
    /\ Front(p) = SubSeq(s, 1, Len(p) - 1)
    /\ IsPrefix(Last(p), s[Len(p)])

(* strings.TrimPrefix: what has not the prefix is returned as it is. *)
TrimPrefix(s, p) ==
    IF ~HasPrefix(s, p) THEN s
    ELSE << SubSeq(s[Len(p)], Len(Last(p)) + 1, Len(s[Len(p)])) >>
         \o SubSeq(s, Len(p) + 1, Len(s))

(* path.Clean, element by element. *)
Clean(s) ==
    LET rooted == Len(s) > 1 /\ s[1] = <<>>
        Up(out) == IF out # <<>> /\ Last(out) # DotDot THEN Front(out)
                   ELSE IF rooted THEN out ELSE Append(out, DotDot)
        out[j \in 0..Len(s)] ==
            IF j = 0 THEN <<>>
            ELSE IF s[j] \in {<<>>, Dot} THEN out[j - 1]
            ELSE IF s[j] = DotDot THEN Up(out[j - 1])
            ELSE Append(out[j - 1], s[j])
    IN  IF rooted THEN Rooted(out[Len(s)])
        ELSE IF out[Len(s)] = <<>> THEN <<Dot>> ELSE out[Len(s)]

(* path.Join: a slash between the two, but an empty string is left out. *)
JoinPaths(s, t) ==
    IF s = EmptyPath /\ t = EmptyPath THEN EmptyPath
    ELSE Clean(IF s = EmptyPath THEN t ELSE IF t = EmptyPath THEN s ELSE s \o t)

Join(s, name) == JoinPaths(s, <<name>>)
================================================================================
