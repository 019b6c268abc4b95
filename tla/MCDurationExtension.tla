------------------------ MODULE MCDurationExtension ------------------------
(***************************************************************************)
(* An instance of DurationExtension for TLC: two tabs, one response each,  *)
(* whose payloads have selectors of several shapes.                        *)
(***************************************************************************)
EXTENDS DurationExtension, TLC

CONSTANTS r1, r2

ByKey(d)   == [f \in {"id", "option_key", "display_text", "is_default"} |->
                 CASE f = "id" -> "7" [] f = "option_key" -> d
                   [] f = "display_text" -> d [] f = "is_default" -> "true"]
ByValue(d) == [f \in {"value", "show_name"} |-> d]

Node(selector, lists, supported) ==
  [selector |-> selector, lists |-> lists, supported |-> supported]

(* Selectors without choices, with choices the extension does not know,    *)
(* with some and with all required ones; a list that is no selector's; and *)
(* a list of supported durations.                                          *)
Rich ==
  [json |-> TRUE,
   nodes |-> << Node(TRUE, <<<<ByKey("5"), ByKey("10")>>, <<>>>>, <<>>),
                Node(TRUE, <<<<ByValue("60")>>, <<ByValue("30"), ByValue("15"), ByValue("10")>>>>,
                     <<<<"30">>>>),
                Node(FALSE, <<<<ByValue("5")>>>>, <<<<>>>>) >>]
Opaque == [json |-> FALSE, nodes |-> <<>>]

TwoMaxEvents == <<3, 0>>
TwoRequests == {r1, r2}
TwoTabOf    == (r1 :> 1) @@ (r2 :> 2)
TwoPayload  == (r1 :> Rich) @@ (r2 :> Opaque)
=============================================================================
