------------------------------- MODULE TextIndex ------------------------------
(* Text in tantivy_ex (native/tantivy_ex/native/tantivy_ex/src/modules): how   *)
(* text becomes tokens (tokenizer.rs, and the tokenizers an index has of its   *)
(* own), and the queries that find or delete documents by their text           *)
(* (query.rs, and writer_delete_term of document.rs).                          *)
(*                                                                             *)
(* A text is a sequence of chunks, the runs between white space, and a chunk a *)
(* sequence of words, the runs between punctuation.  As in a split at each     *)
(* space, an empty chunk at an end says that white space is there, and white   *)
(* space alone is two empty chunks.  (Left out: chunks of punctuation alone.)  *)
(* A token is a text too: a word <<<<w>>>>, a chunk <<c>>, or the whole text.  *)
EXTENDS Integers, Sequences, FiniteSets, SequencesExt, Selections

CONSTANTS Words, Lower, Stem, StopWords, LongWords, StopLanguages,
          WordsFrom  \* of a word, the words it is a prefix of

ASSUME TextIndexAssumption ==
  /\ Lower \in [Words -> Words] /\ \A w \in Words : Lower[Lower[w]] = Lower[w]
  /\ Stem \in [Words -> Words]
  /\ StopWords \subseteq Words /\ LongWords \subseteq Words
  /\ \A w \in Words : w \in LongWords <=> Lower[w] \in LongWords
  /\ WordsFrom \in [Words -> SUBSET Words] /\ \A w \in Words : w \in WordsFrom[w]

Word(w) == <<<<w>>>>
AllWords(text) == FlattenSeq(text)
LowerText(text) == [i \in DOMAIN text |-> [j \in DOMAIN text[i] |-> Lower[text[i][j]]]]

-------------------------------------------------------------------------------
(* Tokenizers: SimpleTokenizer, WhitespaceTokenizer and the raw tokenizer of   *)
(* Tantivy, and the filters.                                                   *)
Simple(text) == [i \in DOMAIN AllWords(text) |-> Word(AllWords(text)[i])]
Solid(text) == Kept(text, {i \in DOMAIN text : text[i] # << >>})
Whitespace(text) == [i \in DOMAIN Solid(text) |-> <<Solid(text)[i]>>]
Raw(text) == <<text>>

MapSeq(tokens, F(_)) == [i \in DOMAIN tokens |-> F(tokens[i])]
IsOneWord(token) == Len(token) = 1 /\ Len(token[1]) = 1
In(set, token) == IsOneWord(token) /\ token[1][1] \in set
StemToken(token) == IF IsOneWord(token) THEN Word(Stem[token[1][1]]) ELSE token

Filter(f, tokens) ==
  CASE f = "lower" -> MapSeq(tokens, LowerText)
    [] f = "stop" -> Kept(tokens, {i \in DOMAIN tokens : ~In(StopWords, tokens[i])})
    [] f = "stem" -> MapSeq(tokens, StemToken)
    [] f = "long" -> Kept(tokens, {i \in DOMAIN tokens : ~In(LongWords, tokens[i])})

Analyzed(base, filters, text) ==
  FoldLeft(LAMBDA tokens, f : Filter(f, tokens),
           IF base = "simple" THEN Simple(text) ELSE Whitespace(text), filters)

\* register_text_analyzer's chains, each written out by hand: sixteen over the
\* whitespace tokenizer, and sixteen over the simple one.
WhitespaceChain(lower, stop, stem, long) ==
  CASE  lower /\  stop /\  stem /\  long -> <<"lower", "stop", "stem", "long">>
    []  lower /\  stop /\  stem /\ ~long -> <<"lower", "stop", "stem">>
    []  lower /\  stop /\ ~stem /\  long -> <<"lower", "stop", "long">>
    []  lower /\  stop /\ ~stem /\ ~long -> <<"lower", "stop">>
    []  lower /\ ~stop /\  stem /\  long -> <<"lower", "stem", "long">>
    []  lower /\ ~stop /\  stem /\ ~long -> <<"lower", "stem">>
    []  lower /\ ~stop /\ ~stem /\  long -> <<"lower", "long">>
    []  lower /\ ~stop /\ ~stem /\ ~long -> <<"lower">>
    [] ~lower /\  stop /\  stem /\  long -> <<"stop", "stem", "long">>
    [] ~lower /\  stop /\  stem /\ ~long -> <<"stop", "stem">>
    [] ~lower /\  stop /\ ~stem /\  long -> <<"stop", "long">>
    [] ~lower /\  stop /\ ~stem /\ ~long -> <<"stop">>
    [] ~lower /\ ~stop /\  stem /\  long -> <<"stem", "long">>
    [] ~lower /\ ~stop /\  stem /\ ~long -> <<"stem">>
    [] ~lower /\ ~stop /\ ~stem /\  long -> <<"long">>
    [] ~lower /\ ~stop /\ ~stem /\ ~long -> << >>

\* Variant: one chain has its filters in another order.
SimpleChainStemFirst(lower, stop, stem, long) ==
  IF lower /\ ~stop /\ stem /\ long THEN <<"stem", "lower", "long">>
  ELSE WhitespaceChain(lower, stop, stem, long)

SimpleChain(lower, stop, stem, long) ==
  CASE  lower /\  stop /\  stem /\  long -> <<"lower", "stop", "stem", "long">>
    []  lower /\  stop /\  stem /\ ~long -> <<"lower", "stop", "stem">>
    []  lower /\  stop /\ ~stem /\  long -> <<"lower", "stop", "long">>
    []  lower /\  stop /\ ~stem /\ ~long -> <<"lower", "stop">>
    []  lower /\ ~stop /\  stem /\  long -> <<"lower", "stem", "long">>
    []  lower /\ ~stop /\  stem /\ ~long -> <<"lower", "stem">>
    []  lower /\ ~stop /\ ~stem /\  long -> <<"lower", "long">>
    []  lower /\ ~stop /\ ~stem /\ ~long -> <<"lower">>
    [] ~lower /\  stop /\  stem /\  long -> <<"stop", "stem", "long">>
    [] ~lower /\  stop /\  stem /\ ~long -> <<"stop", "stem">>
    [] ~lower /\  stop /\ ~stem /\  long -> <<"stop", "long">>
    [] ~lower /\  stop /\ ~stem /\ ~long -> <<"stop">>
    [] ~lower /\ ~stop /\  stem /\  long -> <<"stem", "long">>
    [] ~lower /\ ~stop /\  stem /\ ~long -> <<"stem">>
    [] ~lower /\ ~stop /\ ~stem /\  long -> <<"long">>
    [] ~lower /\ ~stop /\ ~stem /\ ~long -> << >>

\* What registering an analyzer does: the languages are looked up first; one
\* that parse_language knows and that has no stop words panics.
AnalyzerOutcome(o, languages) ==
  IF ~({o.stop, o.stem} \ {"none"} \subseteq languages) THEN "error"
  ELSE IF o.base \notin {"simple", "whitespace"} THEN "error"
  ELSE IF o.stop # "none" /\ o.stop \notin StopLanguages THEN "panic"
  ELSE "registered"

AnalyzerOf(o) ==
  [base |-> o.base,
   filters |-> IF o.base = "simple"
               THEN SimpleChain(o.lower, o.stop # "none", o.stem # "none", o.long)
               ELSE WhitespaceChain(o.lower, o.stop # "none", o.stem # "none", o.long)]

\* register_default_tokenizers: the process-wide names tokenize_text knows.
DefaultTokenizers ==
  [n \in {"default", "simple", "keyword", "raw", "whitespace", "en_stem", "en_text"} |->
     [base |-> IF n = "whitespace" THEN "whitespace" ELSE "simple",
      filters |-> CASE n = "en_stem" -> <<"lower", "stem">>
                    [] n = "en_text" -> <<"lower", "stop", "stem">>
                    [] OTHER -> << >>]]

\* tokenize_text under a registered name.
TokenizeText(registry, name, text) ==
  Analyzed(registry[name].base, registry[name].filters, text)

\* The tokenizers of an index are Tantivy's own, whatever was registered above.
\* A word of more than 40 bytes is not indexed, and its position stays empty.
Gap == << << >> >>
IndexTokens(tokenizer, text) ==
  IF tokenizer = "raw" THEN Raw(text)
  ELSE MapSeq(Simple(text), LAMBDA k : IF In(LongWords, k) THEN Gap ELSE LowerText(k))

-------------------------------------------------------------------------------
(* Queries, each over one field; a field is indexed or not, under a tokenizer, *)
(* with positions or without.                                                  *)
Term(token) == [q |-> "term", tokens |-> <<token>>]
Must(tokens) == [q |-> "must", tokens |-> tokens]
Should(tokens) == [q |-> "should", tokens |-> tokens]
Phrase(tokens) == [q |-> "phrase", tokens |-> tokens]
Starting(tokens) == [q |-> "starting", tokens |-> tokens]

Chunks(text) == Whitespace(text)
LowerAll(tokens) == MapSeq(tokens, LowerText)

\* query_term on a text field: of one word or none, the text as it is typed.
QueryTerm(field, text) ==
  IF ~field.indexed THEN Term(text)
  ELSE IF Len(Chunks(text)) > 1 THEN Must(LowerAll(Chunks(text)))
  ELSE Term(LowerText(text))

\* Variant: one query term is enough, as in an "any" search.
DeleteTermShould(field, text) ==
  IF ~field.indexed THEN Term(text)
  ELSE IF Len(Chunks(text)) = 1 THEN Term(LowerText(Chunks(text)[1]))
  ELSE IF field.positions THEN Phrase(LowerAll(Chunks(text)))
  ELSE Should(LowerAll(Chunks(text)))

\* writer_delete_term on a text field: of one word, without white space around it.
DeleteTerm(field, text) ==
  IF ~field.indexed THEN Term(text)
  ELSE IF Len(Chunks(text)) = 1 THEN Term(LowerText(Chunks(text)[1]))
  ELSE IF field.positions THEN Phrase(LowerAll(Chunks(text)))
  ELSE Must(LowerAll(Chunks(text)))

\* PhraseQuery::new panics below two terms.
Panics(query) == query.q = "phrase" /\ Len(query.tokens) < 2

\* Whether a query matches a text of the field; one of no terms matches nothing.
StartsWith(token, prefix) ==
  IsOneWord(token) /\ IsOneWord(prefix) /\ token[1][1] \in WordsFrom[prefix[1][1]]

OccursIn(s, t) == \E i \in 0..(Len(t) - Len(s)) : SubSeq(t, i + 1, i + Len(s)) = s

Matches(query, field, text) ==
  LET tokens == IndexTokens(field.tokenizer, text)
      Has(k) == \E i \in DOMAIN tokens : tokens[i] = k
  IN  /\ field.indexed
      /\ query.tokens # << >>
      /\ CASE query.q \in {"term", "must"} -> \A i \in DOMAIN query.tokens : Has(query.tokens[i])
           [] query.q = "should" -> \E i \in DOMAIN query.tokens : Has(query.tokens[i])
           [] query.q = "phrase" -> field.positions /\ OccursIn(query.tokens, tokens)
           [] query.q = "starting" -> \A i \in DOMAIN query.tokens :
                                        \E j \in DOMAIN tokens : StartsWith(tokens[j], query.tokens[i])

-------------------------------------------------------------------------------
(* The searches of VialKeeper over its content field, search/tantivy.ex.       *)
Modes == {"phrase", "prefix", "any", "all"}

\* The words of a search: tokenize_text, then downcased.
SearchWords(registry, text) == LowerAll(TokenizeText(registry, "default", text))

\* Variant: a phrase is searched for as it was typed.
BuildQueryCased(registry, text, mode) ==
  LET words == SearchWords(registry, text) IN
  CASE mode = "phrase" /\ Len(words) > 1 -> Phrase(TokenizeText(registry, "default", text))
    [] mode = "prefix" -> Starting(words)
    [] mode = "any" -> Should(words)
    [] OTHER -> Must(words)

\* build_query of the words of a text that has some.
BuildQuery(registry, text, mode) ==
  LET words == SearchWords(registry, text) IN
  CASE mode = "phrase" /\ Len(words) > 1 -> Phrase(words)
    [] mode = "prefix" -> Starting(words)
    [] mode = "any" -> Should(words)
    [] OTHER -> Must(words)
===============================================================================
