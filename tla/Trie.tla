-------------------------------- MODULE Trie --------------------------------
(***************************************************************************)
(* data-structures/trie.go: a trie over the runes of its words.  A node is *)
(* the sequence of runes that leads to it, and its children are the nodes  *)
(* one rune longer.  Both deletions index the runes of a word with its     *)
(* length in bytes: for a word with a rune of several bytes they panic,    *)
(* and the caller stops there.                                             *)
(*                                                                         *)
(* Operators named Fault... are wrong versions of the one that follows.    *)
(***************************************************************************)
EXTENDS Integers, Sequences, SequencesExt

CONSTANTS
  Words,        (* sequences of runes                                        *)
  WideRunes     (* the runes of more than one byte                           *)

Runes == UNION {{word[k] : k \in DOMAIN word} : word \in Words}

ASSUME WordAssumption == \A word \in Words : word \in Seq(Runes)

VARIABLES nodes, ends, answer, panicked

trieVars == <<nodes, ends, answer, panicked>>

TrieInit == nodes = {<<>>} /\ ends = {} /\ answer = FALSE /\ panicked = FALSE

HasChildren(n, in) == \E m \in in : Len(m) = Len(n) + 1 /\ IsPrefix(n, m)

InsertWord(word) ==
  /\ nodes' = nodes \cup Prefixes(word)
  /\ ends' = ends \cup {word}
  /\ UNCHANGED <<answer, panicked>>

(* The walk from the root along the runes comes to a node.                   *)
StartsWith(prefix) == Prefixes(prefix) \subseteq nodes

IsWord(word) == StartsWith(word) /\ word \in ends

SearchWord(word) ==
  /\ answer' = IsWord(word)
  /\ UNCHANGED <<nodes, ends, panicked>>

FaultPruneLast(n, in, endings) == IF HasChildren(n, in) THEN in ELSE in \ {n}

FaultPrunePath(n, in, endings) ==
  {m \in in : \A top \in Prefixes(n) : Len(top) = 1 => ~IsPrefix(top, m)}

(* The way back up from n, k nodes of it: one with no children that ends no  *)
(* word is taken from its parent.  The walk stops at one that is kept, for   *)
(* then its parent has a child; the root is never looked at.                 *)
Prune(n, in, endings) ==
  LET left[k \in 0..Len(n)] ==
        IF k = 0 THEN in
        ELSE LET m == SubSeq(n, 1, Len(n) + 1 - k)
                 before == left[k - 1]
             IN  IF HasChildren(m, before) \/ m \in endings THEN before ELSE before \ {m}
  IN  left[Len(n)]

Panics(word) == \E k \in DOMAIN word : word[k] \in WideRunes

(* A node that is cut off takes its mark along.                              *)
Unlink(word) ==
  LET marked == ends \ {word}
  IN  nodes' = Prune(word, nodes, marked) /\ ends' = marked \cap nodes'

(* The word is unmarked before the loop that panics. *)
DeleteIterative(word) ==
  \/ /\ ~IsWord(word)
     /\ answer' = FALSE /\ UNCHANGED <<nodes, ends, panicked>>
  \/ /\ IsWord(word) /\ Panics(word)
     /\ panicked' = TRUE /\ ends' = ends \ {word} /\ UNCHANGED <<nodes, answer>>
  \/ /\ IsWord(word) /\ ~Panics(word)
     /\ answer' = TRUE /\ Unlink(word) /\ UNCHANGED panicked

(* The recursion panics on its way down, if it gets there. *)
DeleteRecursive(word) ==
  \/ /\ StartsWith(word) /\ Panics(word)
     /\ panicked' = TRUE /\ UNCHANGED <<nodes, ends, answer>>
  \/ /\ ~IsWord(word) /\ ~(StartsWith(word) /\ Panics(word))
     /\ answer' = FALSE /\ UNCHANGED <<nodes, ends, panicked>>
  \/ /\ IsWord(word) /\ ~Panics(word)
     /\ answer' = TRUE /\ Unlink(word) /\ UNCHANGED panicked

TrieNext ==
  /\ ~panicked
  /\ \E word \in Words :
       InsertWord(word) \/ SearchWord(word) \/ DeleteIterative(word) \/ DeleteRecursive(word)

TrieSpec == TrieInit /\ [][TrieNext]_trieVars

-----------------------------------------------------------------------------
(* findSuffixesDFS: the words at n and below. *)
WordsBelow(n) ==
  LET found[m \in nodes] ==
        (IF m \in ends THEN {m} ELSE {})
          \cup UNION {found[c] : c \in {d \in nodes : Len(d) = Len(m) + 1 /\ IsPrefix(m, d)}}
  IN  found[n]

FindAllWithPrefix(prefix) == IF StartsWith(prefix) THEN WordsBelow(prefix) ELSE {}

(***************************************************************************)
(* StartsWith "checks if any word in the trie starts with the given        *)
(* prefix" (line 74), and FindAllWithPrefix returns those words: no        *)
(* sequence of insertions and deletions of words over and under each other *)
(* leaves a word with no node or a node that leads to no word.  Two        *)
(* exceptions: every trie says it has a word that starts with "", and a    *)
(* deletion that panicked has unmarked the word and left its nodes.        *)
(***************************************************************************)
PrefixesOfWords ==
  \A prefix \in UNION {Prefixes(word) : word \in Words} :
    LET found == {word \in ends : IsPrefix(prefix, word)}
    IN  /\ FindAllWithPrefix(prefix) = found
        /\ StartsWith(prefix) <=> (found # {} \/ prefix = <<>> \/ (panicked /\ prefix \in nodes))

(***************************************************************************)
(* The trie is the set of the words Search finds in it, and a call does to *)
(* it what it should for its own word: pruning cuts no other word off, and *)
(* a panic loses at most the word that was to be deleted.                  *)
(***************************************************************************)
FoundWords == {word \in Words : IsWord(word)}

WordSet == INSTANCE KeySet WITH contents <- FoundWords

CallsActOnWords ==
  \A word \in Words :
    /\ InsertWord(word) => WordSet!Add(word) /\ UNCHANGED answer
    /\ SearchWord(word) => WordSet!Search(word)
    /\ DeleteIterative(word) =>
         WordSet!Delete(word) \/ (panicked' /\ WordSet!Remove(word))
    /\ DeleteRecursive(word) =>
         WordSet!Delete(word) \/ (panicked' /\ UNCHANGED FoundWords)

ImplementsKeySet == WordSet!Init /\ [][CallsActOnWords]_trieVars
=============================================================================
