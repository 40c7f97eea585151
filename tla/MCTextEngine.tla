----------------------------- MODULE MCTextEngine -----------------------------
EXTENDS TextEngine

T(w) == <<<<w>>>>

MCWords == {"run", "Run", "runs", "was", "Was", "wa", "xxl", "xxls", "xl", "7", "'7'", "-3", "true", "{}", "[]",
            "2024-01-01", "/f", "::1", "b64="}
Changed(f) == f @@ [w \in MCWords |-> w]
MCLower == Changed("Run" :> "run" @@ "Was" :> "was")
MCStem == Changed("runs" :> "run" @@ "was" :> "wa" @@ "xxls" :> "xl")
MCWordsFrom == ("run" :> {"run", "runs"} @@ "wa" :> {"wa", "was"}) @@ [w \in MCWords |-> {w}]

\* Texts of search, and the strings of the other types.
MCTexts == {T("Run"), <<<<"run">>, <<"Was">>>>, <<<< >>, <<"runs", "run">>>>,
            <<<<"run">>, <<"xxl">>, <<"runs">>, <<"xxls">>>>, <<<< >>, <<"Run">>>>, << >>, <<<< >>, << >>>>}
MCStrings == MCTexts \cup {T(w) : w \in MCWords}
MCAccepts == [date |-> {T("2024-01-01")}, facet |-> {T("/f")}, base64 |-> {T("b64=")},
              json |-> {T("{}"), T("[]"), T("7"), T("true")}, ip |-> {T("::1")}]
MCNumbers == T("7") :> 7 @@ T("-3") :> -3
MCTruths == T("true") :> TRUE
MCUnquoted == (T("'7'") :> T("7")) @@ [s \in MCStrings |-> s]

MCJsonObjects == {T("{}")}
MCTextChoices == {<<"TEXT_STORED", "raw">>, <<"FAST_STORED", "none">>}
MCOtherTypes == FieldTypes \ {"str"}

MCTerms == {Str(s) : s \in MCStrings} \cup {Whole(n) : n \in {-9, -8, -1, 0, 7, 8, 15, 16}}
  \cup {Float(2), Bool(TRUE), Nil, List(<<Str(T("/f")), Str(T("7")), Nil>>), List(<<Whole(7), Whole(8)>>),
        Map("k" :> Nil @@ "n" :> Whole(8))}
MCDocs == {Map("id" :> Str(T("Run")) @@ "content" :> Str(<<<<"run">>, <<"Was">>>>)),
           Map("id" :> Str(T("run")) @@ "content" :> Str(<<<<"run">>, <<"xxl">>, <<"runs">>, <<"xxls">>>>)),
           Map("id" :> Nil @@ "content" :> Str(<<<< >>, <<"runs", "run">>>>) @@ "n" :> Whole(8))}

MCAnalyzers == {[base |-> b, lower |-> l, stop |-> s, stem |-> m, long |-> g] :
                  b \in {"simple", "whitespace", "ngram"}, l, g \in BOOLEAN,
                  s \in {"none", "en", "ar", "xx"}, m \in {"none", "en", "xx"}}
===============================================================================
