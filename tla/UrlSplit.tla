------------------------------ MODULE UrlSplit ------------------------------
(***************************************************************************)
(* split_https_url (src/lib.rs): from the text of a URL to the host and    *)
(* the path of a request.  A text is a sequence of characters of which     *)
(* only the delimiters of a URL matter.                                    *)
(***************************************************************************)
EXTENDS Integers, SequencesExt

CONSTANTS
  Schemes,     \* what a URL may start with, "https://" among them
  Texts,       \* what may follow it: sequences of characters
  Nothing      \* no result, or no split

VARIABLES
  url,         \* the argument
  result       \* what split_https_url returned, or Nothing

vars == <<url, result>>

Err == [kind |-> "err"]
Ok(host, path) == [kind |-> "ok", host |-> host, path |-> path]
-----------------------------------------------------------------------------
\* str::split_once: what is before and after the first delimiter.
split_once(text, delimiter) ==
  LET Is(char) == char = delimiter
      at == SelectInSeq(text, Is)
  IN  IF at = 0 THEN Nothing
      ELSE <<SubSeq(text, 1, at - 1), SubSeq(text, at + 1, Len(text))>>

\* A slash is looked for first, wherever it is, and a query only without one.
HostAndPath(rest) ==
  LET slash == split_once(rest, "/")
      query == split_once(rest, "?")
  IN  IF slash # Nothing THEN Ok(slash[1], <<"/">> \o slash[2])
      ELSE IF query # Nothing THEN Ok(query[1], <<"/", "?">> \o query[2])
      ELSE Ok(rest, <<"/">>)

split_https_url(scheme, rest) ==
  IF scheme # "https://" \/ rest = << >> \/ HostAndPath(rest).host = << >>
  THEN Err
  ELSE HostAndPath(rest)
-----------------------------------------------------------------------------
Init ==
  /\ url \in [scheme : Schemes, rest : Texts]
  /\ result = Nothing

Split ==
  /\ result = Nothing
  /\ result' = split_https_url(url.scheme, url.rest)
  /\ UNCHANGED url

Spec == Init /\ [][Split]_vars
-----------------------------------------------------------------------------
(***************************************************************************)
(* The doc of split_https_url (src/lib.rs:212-216): it splits an HTTPS URL *)
(* into its host and path, or returns an error if the URL has no valid     *)
(* host.  The host of a URL ends at the first slash, question mark or      *)
(* number sign.                                                            *)
(***************************************************************************)
Delimiters == {"/", "?", "#"}

DocValidHost ==
  result # Nothing /\ result.kind = "ok" =>
    \A i \in DOMAIN result.host : result.host[i] \notin Delimiters
=============================================================================
