----------------------------- MODULE TravelList -----------------------------
(***************************************************************************)
(* Travel-List: a list of places and a map on top of it.  A long press on    *)
(* the map asks the geocoder for a name; its answer appends to the array in  *)
(* UserDefaults, whatever screen is shown by then.  The list keeps a copy,   *)
(* loads it when it appears and writes it back whole when a row is deleted.  *)
(*                                                                         *)
(* A place is the long press it comes from, so all places are different.    *)
(***************************************************************************)
EXTENDS Integers, Sequences, FiniteSets, SequencesExt

CONSTANTS MaxPlaces     \* bound on the long presses

ASSUME PlacesAssumption == MaxPlaces \in Nat

VARIABLES savedPlaces,  \* UserDefaults "places"
          places,       \* PlacesTableViewController::places
          onMap,        \* the map is pushed on the list
          geocoding,    \* long presses whose answer has not come
          presses,      \* history: their number,
          found,        \*   those whose place was appended,
          removed,      \*   the places swiped away,
          late          \*   the answers that came while the list was shown

travelVars == <<savedPlaces, places, onMap, geocoding, presses, found, removed, late>>

TravelInit ==
    /\ savedPlaces = <<>> /\ places = <<>>
    /\ onMap = FALSE
    /\ geocoding = {} /\ presses = 0
    /\ found = {} /\ removed = {} /\ late = {}

OpenMap ==
    /\ ~onMap
    /\ onMap' = TRUE
    /\ UNCHANGED <<savedPlaces, places, geocoding, presses, found, removed, late>>

\* addAnnotation.
LongPress ==
    /\ onMap /\ presses < MaxPlaces
    /\ presses' = presses + 1
    /\ geocoding' = geocoding \cup {presses + 1}
    /\ UNCHANGED <<savedPlaces, places, onMap, found, removed, late>>

\* Mutant: the place is appended to the copy of the list.
Geocoded_ToCopy(p) ==
    /\ geocoding' = geocoding \ {p}
    /\ savedPlaces' = Append(places, p)
    /\ found' = found \cup {p}
    /\ late' = IF onMap THEN late ELSE late \cup {p}
    /\ UNCHANGED <<places, onMap, presses, removed>>

\* The block of reverseGeocodeLocation with a placemark.
Geocoded(p) ==
    /\ geocoding' = geocoding \ {p}
    /\ savedPlaces' = Append(savedPlaces, p)
    /\ found' = found \cup {p}
    /\ late' = IF onMap THEN late ELSE late \cup {p}
    /\ UNCHANGED <<places, onMap, presses, removed>>

\* The same with an error or no placemark.
NotGeocoded(p) ==
    /\ geocoding' = geocoding \ {p}
    /\ UNCHANGED <<savedPlaces, places, onMap, presses, found, removed, late>>

\* viewDidAppear of the list.
BackToList ==
    /\ onMap
    /\ onMap' = FALSE
    /\ places' = savedPlaces
    /\ UNCHANGED <<savedPlaces, geocoding, presses, found, removed, late>>

DeletePlace(i) ==
    /\ ~onMap
    /\ places' = RemoveAt(places, i) /\ savedPlaces' = places'
    /\ removed' = removed \cup {places[i]}
    /\ UNCHANGED <<onMap, geocoding, presses, found, late>>

\* The process starts again; questions under way are never answered.
TravelRestart ==
    /\ onMap' = FALSE
    /\ places' = savedPlaces
    /\ geocoding' = {}
    /\ UNCHANGED <<savedPlaces, presses, found, removed, late>>

TravelNext ==
    \/ OpenMap \/ LongPress \/ BackToList \/ TravelRestart
    \/ \E p \in geocoding : Geocoded(p) \/ NotGeocoded(p)
    \/ \E i \in DOMAIN places : DeletePlace(i)

-----------------------------------------------------------------------------
(* Properties *)

\* A place that was found stays in UserDefaults until it is swiped away, unless
\* its answer came when the list was already shown: then the next swipe may write
\* it away with the list's copy.  Nothing is there twice or after its deletion.
PlacesKept ==
    /\ found \ late \subseteq ToSet(savedPlaces) \cup removed
    /\ ToSet(savedPlaces) \subseteq found \ removed
    /\ Cardinality(ToSet(savedPlaces)) = Len(savedPlaces)
=============================================================================
