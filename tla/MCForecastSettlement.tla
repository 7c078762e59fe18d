------------------------ MODULE MCForecastSettlement ------------------------
EXTENDS ForecastSettlement
CONSTANTS forecast1
=============================================================================
