-------------------------------- MODULE Slugs --------------------------------
(***************************************************************************)
(* The household's segment of an address, letter by letter: what slugify   *)
(* makes of a name, the canonical segment, and the identifier found in one *)
(* (router/slugify.ts, router/hid.ts).  Routes takes a segment for a pair  *)
(* of identifier and slug: HidSurvives of SessionGateProofs is why it may. *)
(***************************************************************************)
EXTENDS Integers, SequencesExt

CONSTANTS Letters,         \* a-z and 0-9
          Others,          \* any other character but the hyphen
          Latin,           \* CYRILLIC_TO_LATIN
          MaxSlugLength

Hyphen == "-"

ASSUME SlugAssumption ==
  /\ Hyphen \notin Letters \cup Others /\ Letters \cap Others = {}
  /\ DOMAIN Latin \subseteq Others /\ \A c \in DOMAIN Latin : Latin[c] \in Seq(Letters)
  /\ MaxSlugLength \in Nat

Chars == Letters \cup Others \cup {Hyphen}

\* Lower case already.
transliterate(text) ==
  FoldLeft(LAMBDA out, c : out \o (IF c \in DOMAIN Latin THEN Latin[c] ELSE <<c>>), <<>>, text)

EndsWith(s, c) == s # <<>> /\ s[Len(s)] = c

\* A run of anything but letters becomes one hyphen.
hyphenated(text) ==
  FoldLeft(LAMBDA out, c : CASE c \in Letters -> Append(out, c)
                             [] c \notin Letters /\ EndsWith(out, Hyphen) -> out
                             [] OTHER -> Append(out, Hyphen), <<>>, text)

\* A run is one hyphen by now, so one is all there is to drop at either end.
withoutLastHyphen(s) == IF EndsWith(s, Hyphen) THEN Front(s) ELSE s

withoutFirstHyphen(s) == IF s # <<>> /\ s[1] = Hyphen THEN Tail(s) ELSE s

Cut(s) == IF Len(s) <= MaxSlugLength THEN s ELSE SubSeq(s, 1, MaxSlugLength)

slugify(text) ==
  withoutLastHyphen(Cut(withoutLastHyphen(withoutFirstHyphen(hyphenated(transliterate(text))))))

\* The segment with a slug, or the bare identifier.
segmentOf(hid, slug) == IF slug = <<>> THEN hid ELSE hid \o <<Hyphen>> \o slug

canonicalSegment(hid, name) == segmentOf(hid, slugify(name))

\* Everything before the first hyphen.
resolveHid(segment) ==
  IF \A i \in DOMAIN segment : segment[i] # Hyphen THEN segment
  ELSE SubSeq(segment, 1, (CHOOSE i \in DOMAIN segment :
         segment[i] = Hyphen /\ \A j \in 1 .. i - 1 : segment[j] # Hyphen) - 1)

-----------------------------------------------------------------------------
(* Facts about names of up to n characters.                                *)

Texts(n) == UNION { [1 .. m -> Chars] : m \in 0 .. n }

(***************************************************************************)
(* A slug is letters with single hyphens between them, no longer than the  *)
(* limit even where the cut falls on a hyphen or inside a letter's         *)
(* transliteration, and is its own slug: a canonical address stays one     *)
(* (slugify.ts:45-52).                                                     *)
(***************************************************************************)
SlugIsClean(n) ==
  \A text \in Texts(n) :
    LET slug == slugify(text) IN
      /\ Len(slug) <= MaxSlugLength
      /\ \A i \in DOMAIN slug : slug[i] \in Letters \/
           (slug[i] = Hyphen /\ i \notin {1, Len(slug)} /\ slug[i + 1] # Hyphen)
      /\ slugify(slug) = slug
=============================================================================
