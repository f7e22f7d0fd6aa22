---------------------------- MODULE SealedCorpus ----------------------------
(***************************************************************************)
(* What build_corpus.py promises of corpus/{domain}/ to whoever reads it,  *)
(* without saying how: documents are written one at a time, in order, and  *)
(* none ever disappears; a directory is sealed, by its metadata, only when *)
(* every document on the list is there, whole, as it is listed and by the  *)
(* build that seals.  The seal is no lock: a later build replaces sealed   *)
(* documents, from the first one on, before it withdraws the seal; but no  *)
(* build writes to a document once it has sealed the directory.            *)
(***************************************************************************)
EXTENDS Integers, Sequences

CONSTANT Domains

VARIABLES
    docs,    \* the document files of each directory, by number
    seal     \* what its metadata says: the build it is of and the list

vars == <<docs, seal>>

NoSeal == [build |-> 0, list |-> << >>]

Init ==
    /\ docs = [d \in Domains |-> << >>]
    /\ seal = [d \in Domains |-> NoSeal]

\* The documents on the list are those of the build that seals.
Matches(files, s) ==
    /\ \A i \in 1..Len(s.list) :
          /\ i - 1 \in DOMAIN files
          /\ files[i - 1].whole
          /\ files[i - 1].tokens = s.list[i].tokens
          /\ files[i - 1].build = s.build
    /\ \A k \in DOMAIN files : files[k].build = s.build => k < Len(s.list)

Others(d) == \A e \in Domains \ {d} : docs'[e] = docs[e] /\ seal'[e] = seal[e]

\* A build later than the seal's writes document k; those before it are finished and
\* its own.
Write(d) ==
    /\ seal'[d] = seal[d]
    /\ \E k \in DOMAIN docs'[d] :
          /\ DOMAIN docs'[d] = DOMAIN docs[d] \cup {k}
          /\ docs'[d][k].build > seal[d].build
          /\ \A i \in DOMAIN docs[d] \ {k} : docs'[d][i] = docs[d][i]
          /\ \A i \in DOMAIN docs[d] :
                i < k => docs[d][i].whole /\ docs[d][i].build = docs'[d][k].build
    /\ Others(d)

Withdraw(d) ==
    /\ seal'[d] = NoSeal
    /\ docs'[d] = docs[d]
    /\ Others(d)

Seal(d) ==
    /\ seal[d] = NoSeal
    /\ docs'[d] = docs[d]
    /\ Matches(docs[d], seal'[d])
    /\ Others(d)

Next == \E d \in Domains : Write(d) \/ Withdraw(d) \/ Seal(d)

Spec == Init /\ [][Next]_vars
=============================================================================
