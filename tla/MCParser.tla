------------------------------ MODULE MCParser ------------------------------
(* One line for each statement and expression of the grammar, and what one     *)
(* token too few, too many or mistaken makes of it.                            *)
EXTENDS Parser

MCAlphabet ==
    StatementStart \cup LineEnd \cup ExpressionEnd \cup
    {"name", "_", "as", "from", "is", "where", "for", "this", "tunable", "readonly", "cost",
     "function", "else", "some", "or", "true", "==", "<", ">", "+", "*", ".", "->", "::", ":",
     "(", "[", "|", "?", "@", "number", "string", "other"}

MCForms == {
    <<"import", "{", "name", "as", "name", ",", "name", "}", "from", "string">>,
    <<"import", "string">>,
    <<"throw", "name", "?.", "name", "::", "name">>,
    <<"export", "interface", "name", "<", "name", ">", LF, "where", "name", ":", "name", "{", "}">>,
    <<"import", "*", "as", "name", "from", "string">>,
    <<"export", "enum", "name", ":", "name", "{", "name", "=", "number", ",", "name", "=",
      "string", "}">>,
    <<"enum", "name", "{", "name", LF, "name", "}">>,
    <<"type", "name", "<", "name", ":", "name", "+", "name", ">", "where", "name", ":",
      "name", "{", "tunable", "(", "cost", "=", "number", ")", "name", ":", "name", "}">>,
    <<"type", "name", "{", "name", ":", "{", "readonly", "name", ":", "name", "}", "}">>,
    <<"interface", "name", "{", "inline", "function", "name", "(", "this", ",", "name", ":",
      "name", ")", "{", "}", "}">>,
    <<"implements", "<", "name", ">", "name", "for", "name", "<", "name", ">", "{", LF, "}">>,
    <<"use", "[", "name", ",", "name", "]">>,
    <<"export", "declare", "let", "tunable", "(", "cost", "=", "number", ")", "name", ":",
      "name", "?", "=", "null">>,
    <<"let", "name", ":", "name", "|", "(", "name", ")", "=", "name", ".", "name", "[",
      "string", "]">>,
    <<"name", "=", "{", "name", "=", "number", ",", LF, "name", "=", "{", "name", "=", "true",
      "}", "}">>,
    <<"assert", "name", "==", "number", "or", "name", ",", LF, "string">>,
    <<"inline", "function", "name", "<", "name", ">", "(", "name", ":", "name", ")", "->",
      "name", LF, "where", "name", ":", "name", "{", "return", "name", "}">>,
    <<"name", "=", "opaque", "|", "name", ":", "name", ",", "name", "|", "->", "name", "=>",
      "{", "return", "}">>,
    <<"let", "name", "=", "name", ":", "<", "name", ",", "_", ">", "(", "name", ",", "-",
      "number", ")", "?:", LF, "@", "set", "[", "number", ",", "true", "]">>,
    <<"if", "name", "is", "name", "{", LF, "name", "=", "number", LF, "}", LF, "else", "if",
      "true", "{", "let", "name", "}", "else", "{", "}">>,
    <<"let", "name", "=", "match", "name", "{", "some", "(", "_", ")", "=>", "some", "(",
      "number", ")", ",", "name", "::", "name", "=>", "throw", "string", LF, "}">>,
    <<"name", "=", "name", "as", "?", "name", "+", "number", "*", "number", "?:", "return">>}

\* A closure that is a statement of its own.
MCClosures == {<<"inline", "|", "name", "|", "=>", "{", "name", "=", "number", "}">>}

MCFollowing == <<"let", "name", "=", "true">>
=============================================================================
