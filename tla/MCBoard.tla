------------------------------- MODULE MCBoard --------------------------------
(***************************************************************************)
(* Four parts of the board for TLC that share no state with each other or  *)
(* with the rest: the calendar, the buffers, the LED task and its          *)
(* rendering.  A behaviour is one of their behaviours, and subject says    *)
(* whose; the other three stay in an initial state.                        *)
(***************************************************************************)
EXTENDS Calendar, WireBuffers, Led, LedRender

VARIABLE subject

\* On both sides of every threshold of the evaluators
MCSamples ==
  [heap_free_bytes : {0, 20479, 20480, 30720, 43008, 52224, 62464, 72704, 102400},
   uptime_secs : {599, 600}, wifi_reconnects_5min : {0, 1, 3},
   renewal_count : {0, 100, 1000, 10000},
   bssid_changed : BOOLEAN, time_slipped : BOOLEAN]

\* The initial state in which a part with several of them waits
WireIdle ==
  /\ name_len = 1 /\ ip_digits = 4
  /\ sample.heap_free_bytes = 0 /\ sample.uptime_secs = 599
RenderIdle == pattern = "Booting"

InitBoard ==
  /\ subject \in {"calendar", "wire", "led", "render"}
  /\ Init /\ WireInit /\ LedInit /\ RenderInit
  /\ subject = "wire" \/ WireIdle
  /\ subject = "render" \/ RenderIdle

CalendarStep ==
  /\ subject = "calendar" /\ Next
  /\ UNCHANGED <<subject, wireVars, ledVars, renderVars>>
WireStep ==
  /\ subject = "wire" /\ WireNext
  /\ UNCHANGED <<subject, vars, ledVars, renderVars>>
LedStep ==
  /\ subject = "led" /\ LedNext
  /\ UNCHANGED <<subject, vars, wireVars, renderVars>>
RenderStep ==
  /\ subject = "render" /\ RenderNext
  /\ UNCHANGED <<subject, vars, wireVars, ledVars>>

NextBoard == CalendarStep \/ WireStep \/ LedStep \/ RenderStep

SpecBoard ==
  InitBoard /\ [][NextBoard]_<<subject, vars, wireVars, ledVars, renderVars>>
=============================================================================
