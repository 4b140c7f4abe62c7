--------------------------- MODULE MCAndroidPlugin ---------------------------
EXTENDS AndroidPlugin

\* The names in tts_plugin.dart and in TfliteTtsPlugin.kt.
MCApiChannel     == "app.mimetic.tts"
MCHandlerChannel == "app.mimetic.flutter_tflite_tts_plugin"
=============================================================================
